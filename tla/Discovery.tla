------------------------------ MODULE Discovery ------------------------------
(***************************************************************************)
(* The queries of discovery (discovery/mod.rs): searches for any peers, at  *)
(* most one at a time, and searches for peers of subnets, which are queued, *)
(* grouped, limited in number, retried and dropped when they expire.        *)
(*                                                                         *)
(* poll is a sequential function: it processes the queue and then takes the *)
(* results of queries until one has peers to return.  phase is where it is; *)
(* requests arrive only between two polls.                                  *)
(***************************************************************************)
EXTENDS Integers, Sequences, FiniteSets

CONSTANTS
    Subnets,
    MAX_DISCOVERY_RETRY,
    MAX_CONCURRENT_SUBNET_QUERIES,
    MAX_SUBNETS_IN_QUERY,
    MaxTime     \* bound on the clock that lets requests expire

ASSUME DiscoveryAssumption ==
    /\ IsFiniteSet(Subnets)
    /\ MAX_DISCOVERY_RETRY \in Nat
    /\ MAX_CONCURRENT_SUBNET_QUERIES \in Nat \ {0}
    /\ MAX_SUBNETS_IN_QUERY \in Nat \ {0}
    /\ MaxTime \in Nat

VARIABLES
    now,
    queued_queries,     \* the queue of subnet queries
    active_queries,     \* the queries that are running, oldest first
    find_peer_active,
    phase,              \* "Waiting", or the loop of poll that is running
    subnet_queries,     \* process_queue's local: the group being collected
    attempts            \* history: queries started for a subnet since it
                        \* was last searched for nowhere

discoveryVars == <<now, queued_queries, active_queries, find_peer_active,
                   phase, subnet_queries, attempts>>

\* An optional instant; as in the code, None is less than every instant.
None == -1
Instants == {None} \cup 0 .. MaxTime

SubnetQueries ==
    [subnet : Subnets, min_ttl : Instants, retries : 0 .. MAX_DISCOVERY_RETRY]

\* A running query is the group of its subnet queries; FindPeers has none.
FindPeers == <<>>
Grouped == {q \in {active_queries[i] : i \in DOMAIN active_queries} : q # FindPeers}

Known(s) ==
    \/ \E i \in DOMAIN queued_queries : queued_queries[i].subnet = s
    \/ \E i \in DOMAIN subnet_queries : subnet_queries[i].subnet = s
    \/ \E q \in Grouped : \E i \in DOMAIN q : q[i].subnet = s

\* The queue, the running queries and poll's progress have their types: no query
\* is kept that was retried too often, and none runs without a subnet.
DiscoveryTypeOK ==
    /\ now \in 0 .. MaxTime
    /\ queued_queries \in Seq(SubnetQueries)
    /\ active_queries \in Seq(Seq(SubnetQueries))
    /\ find_peer_active \in BOOLEAN
    /\ phase \in {"Waiting", "Queue", "Queries"}
    /\ subnet_queries \in Seq(SubnetQueries)
    /\ attempts \in [Subnets -> 0 .. MAX_DISCOVERY_RETRY + 1]

\* Network::new starts a search for peers as soon as discovery has started.
DiscoveryInit ==
    /\ now = 0
    /\ queued_queries = <<>>
    /\ active_queries = <<FindPeers>>
    /\ find_peer_active = TRUE
    /\ phase = "Waiting"
    /\ subnet_queries = <<>>
    /\ attempts = [s \in Subnets |-> 0]

-----------------------------------------------------------------------------

expired(q) == q.min_ttl # None /\ q.min_ttl < now

\* The queries of a sequence that are in a set, in their order.
Retain(seq, wanted) ==
    LET kept[i \in 0 .. Len(seq)] ==
            IF i = 0 THEN <<>>
            ELSE IF seq[i] \in wanted THEN Append(kept[i - 1], seq[i]) ELSE kept[i - 1]
    IN  kept[Len(seq)]

RetriesExhausted(retries) == retries > MAX_DISCOVERY_RETRY

\* Mutant: a query that waits is not looked for.
add_subnet_query_Twice(queue, s, min_ttl, retries) ==
    IF RetriesExhausted(retries) THEN queue
    ELSE Append(queue, [subnet |-> s, min_ttl |-> min_ttl, retries |-> retries])

\* The queue after a query was added to it: given up after too many retries, merged
\* with the query of the same subnet that waits, or put at the end.
add_subnet_query(queue, s, min_ttl, retries) ==
    LET same == {i \in DOMAIN queue : queue[i].subnet = s}
        Later(a, b) == IF a < b THEN b ELSE a
    IN  IF RetriesExhausted(retries) THEN queue
        ELSE IF same = {}
        THEN Append(queue, [subnet |-> s, min_ttl |-> min_ttl, retries |-> retries])
        ELSE [i \in DOMAIN queue |->
                 IF i \in same
                 THEN [subnet |-> s, min_ttl |-> Later(queue[i].min_ttl, min_ttl),
                       retries |-> retries]
                 ELSE queue[i]]

\* The running queries without the search for any peers.
ActiveSubnetQueries ==
    LET searches == IF find_peer_active THEN 1 ELSE 0
    IN  IF Len(active_queries) < searches THEN 0 ELSE Len(active_queries) - searches

at_capacity == ActiveSubnetQueries >= MAX_CONCURRENT_SUBNET_QUERIES

\* The history counts to one more than the retries, and no further.
CountedTo(n) == IF n > MAX_DISCOVERY_RETRY THEN MAX_DISCOVERY_RETRY + 1 ELSE n

\* A subnet that was searched for nowhere starts again from nothing.
Requested(s) == IF Known(s) THEN attempts ELSE [attempts EXCEPT ![s] = 0]

\* discover_peers, called by the network service for a DiscoverPeers event of the
\* peer manager; start_query always starts it, since build_enr gives the
\* local ENR its fork id.
discover_peers ==
    /\ phase = "Waiting"
    /\ ~find_peer_active
    /\ find_peer_active' = TRUE
    /\ active_queries' = Append(active_queries, FindPeers)
    /\ UNCHANGED <<now, queued_queries, phase, subnet_queries, attempts>>

\* discover_subnet_peers, for one of the requested subnets.
discover_subnet_peers(s, min_ttl) ==
    /\ phase = "Waiting"
    /\ queued_queries' = add_subnet_query(queued_queries, s, min_ttl, 0)
    /\ attempts' = Requested(s)
    /\ UNCHANGED <<now, active_queries, find_peer_active, phase, subnet_queries>>

Tick ==
    /\ phase = "Waiting"
    /\ now < MaxTime
    /\ now' = now + 1
    /\ UNCHANGED <<queued_queries, active_queries, find_peer_active, phase,
                   subnet_queries, attempts>>

-----------------------------------------------------------------------------

\* poll begins with process_queue, which first drops what has expired.
PollBegin ==
    /\ phase = "Waiting"
    /\ phase' = "Queue"
    /\ queued_queries' = Retain(queued_queries, {q \in SubnetQueries : ~expired(q)})
    /\ UNCHANGED <<now, active_queries, find_peer_active, subnet_queries, attempts>>

\* Mutant: a group is started only when it is full.
GroupComplete_Full(group, rest) == Len(group) = MAX_SUBNETS_IN_QUERY

GroupComplete(group, rest) == Len(group) = MAX_SUBNETS_IN_QUERY \/ rest = <<>>

\* start_subnet_query without the subnets that have enough peers by now; whether
\* they do depends on the peer database.
StartSubnetQuery(group) ==
    \E enough \in SUBSET {group[i].subnet : i \in DOMAIN group} :
        LET needed == Retain(group, {q \in SubnetQueries : q.subnet \notin enough})
        IN  /\ active_queries' = IF needed = <<>> THEN active_queries
                                 ELSE Append(active_queries, needed)
            /\ attempts' = [s \in Subnets |->
                   IF \E i \in DOMAIN needed : needed[i].subnet = s
                   THEN CountedTo(attempts[s] + 1) ELSE attempts[s]]

\* One round of process_queue's loop: a query joins the group, and a complete group
\* is started.
ProcessQueue ==
    /\ phase = "Queue"
    /\ ~at_capacity
    /\ queued_queries # <<>>
    /\ LET group == Append(subnet_queries, Head(queued_queries))
           rest == Tail(queued_queries)
       IN  /\ queued_queries' = rest
           /\ \/ /\ GroupComplete(group, rest)
                 /\ subnet_queries' = <<>>
                 /\ StartSubnetQuery(group)
              \/ /\ ~GroupComplete(group, rest)
                 /\ subnet_queries' = group
                 /\ UNCHANGED <<active_queries, attempts>>
    /\ UNCHANGED <<now, find_peer_active, phase>>

\* The loop ends; what the group would still hold is gone.
ProcessQueueDone ==
    /\ phase = "Queue"
    /\ at_capacity \/ queued_queries = <<>>
    /\ phase' = "Queries"
    /\ subnet_queries' = <<>>
    /\ UNCHANGED <<now, queued_queries, active_queries, find_peer_active, attempts>>

Without(seq, i) == SubSeq(seq, 1, i - 1) \o SubSeq(seq, i + 1, Len(seq))

\* The queue after the subnet queries of a group were added again, one by one.
Requeued(queue, group) ==
    LET added[i \in 0 .. Len(group)] ==
            IF i = 0 THEN queue
            ELSE add_subnet_query(added[i - 1], group[i].subnet, group[i].min_ttl,
                                  group[i].retries + 1)
    IN  added[Len(group)]

\* Mutant: the flag is cleared only by a search that found peers.
SearchEnded_Found(i, found) ==
    find_peer_active' = (find_peer_active /\ ~(active_queries[i] = FindPeers /\ found))

SearchEnded(i, found) ==
    find_peer_active' = (find_peer_active /\ active_queries[i] # FindPeers)

\* poll_queries takes the result of a query (process_completed_queries): with peers
\* to return, poll returns them; otherwise it goes on.
QueryEnds(i, found) ==
    /\ phase = "Queries"
    /\ SearchEnded(i, found)
    /\ active_queries' = Without(active_queries, i)
    /\ queued_queries' = Requeued(queued_queries, active_queries[i])
    /\ phase' = IF found THEN "Waiting" ELSE phase
    /\ UNCHANGED <<now, subnet_queries, attempts>>

\* A query that failed is not tried again.
QueryFails(i) ==
    /\ phase = "Queries"
    /\ SearchEnded(i, FALSE)
    /\ active_queries' = Without(active_queries, i)
    /\ UNCHANGED <<now, queued_queries, phase, subnet_queries, attempts>>

Completes(i) == QueryFails(i) \/ \E found \in BOOLEAN : QueryEnds(i, found)

\* No other query is ready.
PollEnd ==
    /\ phase = "Queries"
    /\ phase' = "Waiting"
    /\ UNCHANGED <<now, queued_queries, active_queries, find_peer_active,
                   subnet_queries, attempts>>

DiscoveryNext ==
    \/ discover_peers
    \/ \E s \in Subnets : \E min_ttl \in Instants : discover_subnet_peers(s, min_ttl)
    \/ Tick
    \/ PollBegin
    \/ ProcessQueue
    \/ ProcessQueueDone
    \/ \E i \in DOMAIN active_queries : Completes(i)
    \/ PollEnd

DiscoverySpec == DiscoveryInit /\ [][DiscoveryNext]_discoveryVars

Poll == PollBegin \/ ProcessQueue \/ ProcessQueueDone \/ PollEnd

\* The task goes on polling, and discv5 ends every query: the oldest one, once
\* ended, is taken by some poll.
OldestCompletes == active_queries # <<>> /\ Completes(1)

DiscoveryFairSpec ==
    /\ DiscoverySpec
    /\ WF_discoveryVars(Poll)
    /\ SF_discoveryVars(OldestCompletes)

-----------------------------------------------------------------------------

\* The flag stands for a running search for peers, and there is never more than
\* one: it is set and cleared in different handlers, and at_capacity relies on it.
FlagMeansSearch ==
    Cardinality({i \in DOMAIN active_queries : active_queries[i] = FindPeers})
        = IF find_peer_active THEN 1 ELSE 0

\* The comment on MAX_CONCURRENT_SUBNET_QUERIES: so many subnet queries run at most,
\* beside the search for peers, whatever is queued, retried or ends.
WithinConcurrency ==
    /\ Cardinality({i \in DOMAIN active_queries : active_queries[i] # FindPeers})
           <= MAX_CONCURRENT_SUBNET_QUERIES
    /\ Len(active_queries) <= MAX_CONCURRENT_SUBNET_QUERIES + 1

\* A subnet waits in the queue once, although it may be requested while it is
\* queued, running or about to be retried.
QueuedOnce ==
    \A i, j \in DOMAIN queued_queries :
        queued_queries[i].subnet = queued_queries[j].subnet => i = j

\* The queue and the running queries are consistent, whatever is requested, retried,
\* dropped or ends meanwhile.
QueriesConsistent ==
    DiscoveryTypeOK /\ FlagMeansSearch /\ WithinConcurrency /\ QueuedOnce

Expires(s) ==
    /\ phase = "Waiting"
    /\ \E i \in DOMAIN queued_queries :
           queued_queries[i].subnet = s /\ expired(queued_queries[i])

\* A requested subnet is dropped only when its request expires in the queue, when it
\* has enough peers as its group is started, when its query fails, or when it has
\* really been searched for as often as the retries allow, whoever asked for it
\* meanwhile: never with a group that process_queue collected and did not start.
NotForgotten ==
    [][\A s \in Subnets : Known(s) /\ ~Known(s)' =>
           \/ Expires(s)
           \/ ProcessQueue
           \/ \E i \in DOMAIN active_queries : QueryFails(i)
           \/ attempts[s] > MAX_DISCOVERY_RETRY]_discoveryVars

IsQueued(s) == \E i \in DOMAIN queued_queries : queued_queries[i].subnet = s

\* A search for peers ends, so that the peer manager can start another.
SearchEnds == find_peer_active ~> ~find_peer_active

\* No subnet starves in the queue behind others and their retries.
QueueMoves == \A s \in Subnets : IsQueued(s) ~> ~IsQueued(s)

\* Whatever is requested, retried or fails meanwhile, no query is in the way of the
\* others for ever: searches end and the queue moves.
QueriesMove == SearchEnds /\ QueueMoves
=============================================================================
