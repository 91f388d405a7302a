----------------------------- MODULE RateLimiter -----------------------------
(***************************************************************************)
(* The RPC behaviour (rpc/mod.rs) and its rate limiter (rpc/rate_limiter.rs)*)
(* Requests of peers arrive from the connection handlers, are charged to a  *)
(* bucket per peer and protocol by the generic cell rate algorithm, and are *)
(* forwarded to the application or answered with an error.  The limiter     *)
(* keeps one time per bucket, and drops it when the bucket is empty again.  *)
(***************************************************************************)
EXTENDS Integers, Sequences

CONSTANTS
    Peers,
    Protocols,
    replenish_all_every,    \* per protocol, the quota's period
    max_tokens,             \* per protocol, the quota's tokens
    ExpectedResponses,      \* per protocol, the counts that requests ask for
    NanosecsRange,          \* the number of values of the type of a time
    MaxTime,                \* bound on the clock
    MaxEvents               \* bound on the behaviour's queue

VARIABLES
    now,            \* time since the limiter was created
    tat_per_key,    \* per bucket, when it will be empty; Absent if not stored
    events,         \* the behaviour's queue
    since,          \* history: any instant,
    used,           \* and the tokens admitted from then on at their exact cost
    told            \* history: the last wait a bucket's peer was told, while
                    \* nothing was admitted since

limiterVars == <<now, tat_per_key, events, since, used, told>>

Keys == Peers \X Protocols
Absent == -1
Instants == 0 .. MaxTime
NothingTold == [tokens |-> 0, at |-> 0]

tau(k) == replenish_all_every[k[2]]

\* How often a token is replenished: Limiter::from_quota rounds down.
t(k) == tau(k) \div max_tokens[k[2]]

\* RPCRateLimiter::allows: a request for nothing costs a token as well.
tokens(n) == IF n = 0 THEN 1 ELSE n
Tokens(k) == {tokens(n) : n \in ExpectedResponses[k[2]]}

\* Multiplication of u64 values, which is not checked: the count of a request is the
\* peer's choice, so the product may wrap.
additional_time(k, n) == (t(k) * n) % NanosecsRange

\* A request whose cost can be represented.
Exact(k, n) == t(k) * n < NanosecsRange

ASSUME QuotaAssumption ==
    /\ replenish_all_every \in [Protocols -> Nat \ {0}]
    /\ max_tokens \in [Protocols -> Nat \ {0}]
    /\ ExpectedResponses \in [Protocols -> SUBSET Nat]
    /\ \A k \in Keys : t(k) \in Nat \ {0}

\* from_quota refuses a period that is too long.
ASSUME WidthAssumption ==
    /\ NanosecsRange \in Nat \ {0}
    /\ \A k \in Keys : tau(k) < NanosecsRange

ASSUME BoundsAssumption ==
    /\ MaxTime \in Nat
    /\ MaxEvents \in Nat

AnswerType ==
    [key : Keys, verdict : {"Ok", "TooSoon", "TooLarge"}, wait : Nat]

\* The times, the queue and the histories have their types: a wait that is told
\* is never negative.
LimiterTypeOK ==
    /\ now \in Instants
    /\ tat_per_key \in [Keys -> Nat \cup {Absent}]
    /\ events \in Seq(AnswerType)
    /\ since \in Instants
    /\ used \in [Keys -> Nat]
    /\ told \in [Keys -> [tokens : Nat, at : Nat]]

LimiterInit ==
    /\ now = 0
    /\ tat_per_key = [k \in Keys |-> Absent]
    /\ events = <<>>
    /\ since \in Instants
    /\ used = [k \in Keys |-> 0]
    /\ told = [k \in Keys |-> NothingTold]

-----------------------------------------------------------------------------

\* The time stored for a bucket; a new one is considered full of tokens.
tat(k) == IF tat_per_key[k] = Absent THEN now ELSE tat_per_key[k]

earliest_time(k, n) ==
    LET sum == tat(k) + additional_time(k, n)
    IN  IF sum > tau(k) THEN sum - tau(k) ELSE 0

\* Mutant: the new time counts from the old one even if that has passed.
NewTat_NoMax(k, n) == tat(k) + additional_time(k, n)

NewTat(k, n) ==
    (IF now > tat(k) THEN now ELSE tat(k)) + additional_time(k, n)

PushEvent(k, verdict, wait) ==
    events' = Append(events, [key |-> k, verdict |-> verdict, wait |-> wait])

\* Mutant: the comparison is off by one.
TooSoon_OffByOne(k, n) == now + 1 < earliest_time(k, n)

TooSoon(k, n) == now < earliest_time(k, n)

WaitTime(k, n) == earliest_time(k, n) - now

\* inject_event with a request: Limiter::allows decides; an admitted request goes
\* to the application, another is answered with an error.
Allowed(k, n) ==
    /\ additional_time(k, n) <= tau(k)
    /\ ~TooSoon(k, n)
    /\ tat_per_key' = [tat_per_key EXCEPT ![k] = NewTat(k, n)]
    /\ PushEvent(k, "Ok", 0)
    /\ used' = [used EXCEPT ![k] = IF since <= now /\ Exact(k, n) THEN @ + n ELSE @]
    /\ told' = [told EXCEPT ![k] = NothingTold]
    /\ UNCHANGED <<now, since>>

RefusedTooLarge(k, n) ==
    /\ additional_time(k, n) > tau(k)
    /\ PushEvent(k, "TooLarge", 0)
    /\ UNCHANGED <<now, tat_per_key, since, used, told>>

RefusedTooSoon(k, n) ==
    /\ additional_time(k, n) <= tau(k)
    /\ TooSoon(k, n)
    /\ tat_per_key' = [tat_per_key EXCEPT ![k] = tat(k)]
    /\ PushEvent(k, "TooSoon", WaitTime(k, n))
    /\ told' = [told EXCEPT ![k] = [tokens |-> n, at |-> earliest_time(k, n)]]
    /\ UNCHANGED <<now, since, used>>

InjectRequest(k, n) ==
    /\ Len(events) < MaxEvents
    /\ Allowed(k, n) \/ RefusedTooLarge(k, n) \/ RefusedTooSoon(k, n)

\* Mutant: a bucket is dropped a little before it is empty.
Pruned_Early(k) == tat_per_key[k] # Absent /\ tat_per_key[k] <= now + 1

Pruned(k) == tat_per_key[k] # Absent /\ tat_per_key[k] < now

\* RPC::poll: the limiter prunes when its interval ticks, then the oldest event
\* is returned.
Prune ==
    /\ \E k \in Keys : Pruned(k)
    /\ tat_per_key' =
           [k \in Keys |-> IF Pruned(k) THEN Absent ELSE tat_per_key[k]]
    /\ UNCHANGED <<now, events, since, used, told>>

PollEvent ==
    /\ events # <<>>
    /\ events' = Tail(events)
    /\ UNCHANGED <<now, tat_per_key, since, used, told>>

Tick ==
    /\ now < MaxTime
    /\ now' = now + 1
    /\ UNCHANGED <<tat_per_key, events, since, used, told>>

LimiterNext ==
    \/ \E k \in Keys : \E n \in Tokens(k) : InjectRequest(k, n)
    \/ Prune
    \/ PollEvent
    \/ Tick

LimiterSpec == LimiterInit /\ [][LimiterNext]_limiterVars

-----------------------------------------------------------------------------

\* The time a bucket still needs to be empty.
Debt(k) == IF tat(k) > now THEN tat(k) - now ELSE 0

\* In no interval of time, wherever it begins, does a peer get more of a protocol, by
\* requests whose cost can be represented, than a full bucket and what is replenished
\* during the interval: pruning, the lazily updated times, the rounded interval and
\* requests with a wrapped cost among them give nothing away.
QuotaKept ==
    since <= now =>
        \A k \in Keys : t(k) * used[k] <= tau(k) + (now - since)

\* The wait that a refused peer is told is exact: as long as nothing else of it is
\* admitted, the same request is refused before that time and admitted from then
\* on, whether or not its bucket was pruned in between.
WaitIsExact ==
    \A k \in Keys :
        told[k] # NothingTold => (TooSoon(k, told[k].tokens) <=> now < told[k].at)

\* What the limiter does is what the ideal buckets do, and its answers are theirs,
\* in the same order: the bucket of a stored or absent time holds what is left to
\* be replenished.
AdditionalTimes(k) == {additional_time(k, n) : n \in Tokens(k)}
DebtOfAll == [k \in Keys |-> Debt(k)]

Bucket == INSTANCE TokenBucket WITH
    Tau <- tau, Costs <- AdditionalTimes, debt <- DebtOfAll

ImplementsBuckets == Bucket!BucketSpec
=============================================================================
