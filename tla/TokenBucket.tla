----------------------------- MODULE TokenBucket -----------------------------
(***************************************************************************)
(* What the RPC rate limiter promises (rpc/rate_limiter.rs, the comments on *)
(* Quota and Limiter): every peer has a bucket per protocol that is always  *)
(* there, drains by one unit with every unit of time, and admits a request  *)
(* exactly if its cost fits.  A refused request is told how long it would   *)
(* have to wait.  Nothing is forgotten and nothing is computed lazily.      *)
(***************************************************************************)
EXTENDS Integers, Sequences

CONSTANTS
    Keys,           \* the buckets
    Tau(_),         \* the capacity of a bucket, as the time that empties it
    Costs(_),       \* what requests to a bucket may cost
    MaxEvents       \* bound on the queued answers, for TLC

VARIABLES
    debt,     \* per bucket, the time it takes to empty it
    events    \* the answers that wait to be taken, oldest first

bucketVars == <<debt, events>>

Answer(k, verdict, wait) ==
    events' = Append(events, [key |-> k, verdict |-> verdict, wait |-> wait])

BucketInit ==
    /\ debt = [k \in Keys |-> 0]
    /\ events = <<>>

\* Time passes: every bucket that is not empty drains.
Drain ==
    /\ debt' = [k \in Keys |-> IF debt[k] = 0 THEN 0 ELSE debt[k] - 1]
    /\ UNCHANGED events

Admit(k, cost) ==
    /\ debt[k] + cost <= Tau(k)
    /\ debt' = [debt EXCEPT ![k] = @ + cost]
    /\ Answer(k, "Ok", 0)

Postpone(k, cost) ==
    /\ cost <= Tau(k)
    /\ debt[k] + cost > Tau(k)
    /\ Answer(k, "TooSoon", debt[k] + cost - Tau(k))
    /\ UNCHANGED debt

Refuse(k, cost) ==
    /\ cost > Tau(k)
    /\ Answer(k, "TooLarge", 0)
    /\ UNCHANGED debt

TakeAnswer ==
    /\ events # <<>>
    /\ events' = Tail(events)
    /\ UNCHANGED debt

BucketNext ==
    \/ Drain
    \/ \E k \in Keys : \E cost \in Costs(k) :
           Admit(k, cost) \/ Postpone(k, cost) \/ Refuse(k, cost)
    \/ TakeAnswer

BucketSpec == BucketInit /\ [][BucketNext]_bucketVars
=============================================================================
