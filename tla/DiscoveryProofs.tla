-------------------------- MODULE DiscoveryProofs --------------------------
(***************************************************************************)
(* Proofs about Discovery, for any subnets, retries and limits: the queue  *)
(* and the running queries are consistent, and no requested subnet is      *)
(* forgotten.                                                              *)
(*                                                                         *)
(* The queue is filtered and refilled by recursive functions.  What they   *)
(* compute is proved by taking the least index at which it would fail      *)
(* (LeastNumber).                                                          *)
(***************************************************************************)
EXTENDS Discovery, FiniteSetTheorems, SequenceTheorems, WellFoundedInduction, TLAPS

\* A subnet has a query in a sequence.
Within(seq, s) == \E i \in DOMAIN seq : seq[i].subnet = s

\* No subnet has two.
Once(seq) == \A i, j \in DOMAIN seq : seq[i].subnet = seq[j].subnet => i = j

\* Each subnet of a sequence has been searched for as often as its query was retried,
\* and once more if the query runs.
Tried(seq, counts, more) ==
    \A i \in DOMAIN seq : counts[seq[i].subnet] >= seq[i].retries + more

\* There is one search for any peers while the flag is set, and none otherwise.
OneSearch ==
    /\ find_peer_active => \E i \in DOMAIN active_queries : active_queries[i] = FindPeers
    /\ ~find_peer_active => \A i \in DOMAIN active_queries : active_queries[i] # FindPeers
    /\ \A i, j \in DOMAIN active_queries :
           active_queries[i] = FindPeers /\ active_queries[j] = FindPeers => i = j

\* The limit holds for what runs beside it.
SubnetQueriesLimited ==
    Len(active_queries)
        <= MAX_CONCURRENT_SUBNET_QUERIES + (IF find_peer_active THEN 1 ELSE 0)

\* While a group is collected the loop goes on until it is started.
CollectedIsStarted ==
    subnet_queries # <<>> => phase = "Queue" /\ queued_queries # <<>> /\ ~at_capacity

\* The history counts every search that the retries stand for.
RetriesCounted ==
    /\ Tried(queued_queries, attempts, 0)
    /\ Tried(subnet_queries, attempts, 0)
    /\ \A k \in DOMAIN active_queries : Tried(active_queries[k], attempts, 1)

\* The inductive invariant.
DInv ==
    /\ DiscoveryTypeOK /\ QueuedOnce
    /\ OneSearch /\ SubnetQueriesLimited
    /\ CollectedIsStarted /\ RetriesCounted

-----------------------------------------------------------------------------
(* Recursive functions.                                                    *)

\* A set of numbers that is not empty has a least one.
LEMMA LeastNumber ==
    ASSUME NEW T, T \subseteq Nat, T # {}
    PROVE  \E n \in T : \A m \in T : n <= m
<1>1. PICK n \in T : \A m \in T : ~(<<m, n>> \in OpToRel(<, Nat))
  BY NatLessThanWellFounded, WFMin
<1>2. \A m \in T : ~(m < n)
  BY <1>1 DEF OpToRel
<1> QED BY <1>2

\* The recursion over 0 .. n that starts with a and goes on by g.
Solves(f, n, a, g) == f[0] = a /\ \A i \in 1 .. n : f[i] = g[<<f[i - 1], i>>]

\* It has a solution.
LEMMA RecursionExists ==
    ASSUME NEW n \in Nat, NEW S, NEW a \in S, NEW g \in [S \X (1 .. n) -> S]
    PROVE  \E f \in [0 .. n -> S] : Solves(f, n, a, g)
<1> DEFINE T == {m \in 0 .. n : ~\E f \in [0 .. m -> S] : Solves(f, m, a, g)}
<1>1. ASSUME T # {} PROVE FALSE
  <2>1. PICK m \in T : \A k \in T : m <= k
    <3>1. T \subseteq Nat
      OBVIOUS
    <3> HIDE DEF T
    <3> QED BY <1>1, <3>1, LeastNumber
  <2>2. m \in 0 .. n /\ ~\E f \in [0 .. m -> S] : Solves(f, m, a, g)
    BY <2>1
  <2>3. CASE m = 0
    <3>1. [i \in 0 .. 0 |-> a] \in [0 .. 0 -> S] /\ Solves([i \in 0 .. 0 |-> a], 0, a, g)
      BY DEF Solves
    <3> QED BY <2>2, <2>3, <3>1
  <2>4. CASE m # 0
    <3>1. m - 1 \in 0 .. n /\ m - 1 \notin T /\ m \in 1 .. n
      BY <2>1, <2>2, <2>4
    <3>2. PICK f \in [0 .. m - 1 -> S] : Solves(f, m - 1, a, g)
      BY <3>1
    <3> DEFINE h == [i \in 0 .. m |-> IF i = m THEN g[<<f[m - 1], m>>] ELSE f[i]]
    <3>3. h \in [0 .. m -> S]
      <4>1. g[<<f[m - 1], m>>] \in S
        BY <3>1, <3>2
      <4> QED BY <3>1, <3>2, <4>1
    <3>4. h[0] = a
      BY <2>4, <3>1, <3>2 DEF Solves
    <3>5. ASSUME NEW i \in 1 .. m PROVE h[i] = g[<<h[i - 1], i>>]
      <4>1. CASE i = m
        <5>1. m \in 0 .. m /\ m - 1 \in 0 .. m /\ m - 1 # m
          BY <3>1
        <5>2. h[m] = g[<<f[m - 1], m>>] /\ h[m - 1] = f[m - 1]
          BY <5>1
        <5> QED BY <4>1, <5>2
      <4>2. CASE i # m
        <5>1. i \in 1 .. m - 1 /\ i - 1 \in 0 .. m /\ i - 1 # m
          BY <3>1, <4>2
        <5> QED BY <3>2, <4>2, <5>1 DEF Solves
      <4> QED BY <4>1, <4>2
    <3>6. Solves(h, m, a, g)
      BY <3>4, <3>5 DEF Solves
    <3> HIDE DEF h
    <3> QED BY <2>2, <3>3, <3>6
  <2> QED BY <2>3, <2>4
<1>2. n \notin T
  BY <1>1
<1> QED BY <1>2

\* Induction up to n, for a set.
LEMMA UpTo ==
    ASSUME NEW n \in Nat, NEW G, 0 \in G, \A i \in 1 .. n : i - 1 \in G => i \in G
    PROVE  n \in G
<1> DEFINE T == {i \in 0 .. n : i \notin G}
<1>1. ASSUME T # {} PROVE FALSE
  <2>1. T \subseteq Nat
    OBVIOUS
  <2>2. PICK m \in T : \A k \in T : m <= k
    <3> HIDE DEF T
    <3> QED BY <1>1, <2>1, LeastNumber
  <2>3. m \in 1 .. n /\ m - 1 \in 0 .. n /\ ~(m <= m - 1)
    BY <2>2
  <2>4. m - 1 \in G
    BY <2>2, <2>3
  <2> QED BY <2>2, <2>3, <2>4
<1> QED BY <1>1

\* What holds of the part of a sequence that was retained from its first i queries.
Retained(seq, wanted, i, part) ==
    /\ part \in Seq(SubnetQueries)
    /\ \A k \in DOMAIN part : \E j \in 1 .. i : part[k] = seq[j] /\ seq[j] \in wanted
    /\ \A j \in 1 .. i : seq[j] \in wanted => \E k \in DOMAIN part : part[k] = seq[j]
    /\ Once(seq) => Once(part)

\* One more query.
LEMMA RetainedNext ==
    ASSUME NEW seq \in Seq(SubnetQueries), NEW wanted, NEW i \in 1 .. Len(seq), NEW part,
           Retained(seq, wanted, i - 1, part)
    PROVE  Retained(seq, wanted, i,
                    IF seq[i] \in wanted THEN Append(part, seq[i]) ELSE part)
<1>1. Len(seq) \in Nat /\ DOMAIN seq = 1 .. Len(seq) /\ seq[i] \in SubnetQueries
  BY LenProperties, ElementOfSeq
<1>2. 1 .. i - 1 \subseteq 1 .. i /\ i \in 1 .. i /\ \A j \in 1 .. i : j = i \/ j \in 1 .. i - 1
  BY <1>1
<1>3. /\ part \in Seq(SubnetQueries)
      /\ \A k \in DOMAIN part : \E j \in 1 .. i - 1 : part[k] = seq[j] /\ seq[j] \in wanted
      /\ \A j \in 1 .. i - 1 : seq[j] \in wanted => \E k \in DOMAIN part : part[k] = seq[j]
      /\ Once(seq) => Once(part)
  BY DEF Retained
<1>4. CASE seq[i] \notin wanted
  <2>1. Retained(seq, wanted, i, part)
    BY <1>2, <1>3, <1>4 DEF Retained
  <2> QED BY <1>4, <2>1
<1>5. CASE seq[i] \in wanted
  <2> PICK r : r = Append(part, seq[i])
    OBVIOUS
  <2>1. /\ r \in Seq(SubnetQueries) /\ Len(part) \in Nat
        /\ DOMAIN part = 1 .. Len(part) /\ DOMAIN r = 1 .. Len(part) + 1
        /\ r[Len(part) + 1] = seq[i] /\ \A k \in 1 .. Len(part) : r[k] = part[k]
    BY <1>1, <1>3, AppendProperties, LenProperties
  <2>2. \A k \in DOMAIN r : k = Len(part) + 1 \/ k \in DOMAIN part
    BY <2>1
  <2>3. /\ DOMAIN part \subseteq DOMAIN r /\ Len(part) + 1 \in DOMAIN r
        /\ \A k \in DOMAIN part : r[k] = part[k]
    BY <2>1
  <2>4. ASSUME NEW k \in DOMAIN r
        PROVE  \E j \in 1 .. i : r[k] = seq[j] /\ seq[j] \in wanted
    <3>1. CASE k = Len(part) + 1
      BY <1>2, <1>5, <2>1, <3>1
    <3>2. CASE k \in DOMAIN part
      BY <1>2, <1>3, <2>3, <3>2
    <3> QED BY <2>2, <3>1, <3>2
  <2>5. ASSUME NEW j \in 1 .. i, seq[j] \in wanted PROVE \E k \in DOMAIN r : r[k] = seq[j]
    <3>1. CASE j = i
      BY <2>1, <2>3, <3>1
    <3>2. CASE j \in 1 .. i - 1
      BY <1>3, <2>3, <2>5, <3>2
    <3> QED BY <1>2, <3>1, <3>2
  <2>6. ASSUME Once(seq) PROVE Once(r)
    <3>1. ASSUME NEW k \in DOMAIN part, part[k].subnet = seq[i].subnet PROVE FALSE
      <4>1. PICK j \in 1 .. i - 1 : part[k] = seq[j]
        BY <1>3
      <4>2. j \in DOMAIN seq /\ i \in DOMAIN seq /\ j # i
        BY <1>1
      <4> QED BY <2>6, <3>1, <4>1, <4>2 DEF Once
    <3>2. Once(part)
      BY <1>3, <2>6
    <3> QED BY <2>1, <2>2, <2>3, <3>1, <3>2 DEF Once
  <2>7. Retained(seq, wanted, i, r)
    BY <2>1, <2>4, <2>5, <2>6 DEF Retained
  <2> QED BY <1>5, <2>7
<1> QED BY <1>4, <1>5

\* The recursion of Retain.
RetainRule(f, seq, wanted, n) ==
    f = [i \in 0 .. n |->
            IF i = 0 THEN <<>>
            ELSE IF seq[i] \in wanted THEN Append(f[i - 1], seq[i]) ELSE f[i - 1]]

\* It has a solution.
LEMMA RetainSolution ==
    ASSUME NEW seq \in Seq(SubnetQueries), NEW wanted, NEW n \in Nat, n = Len(seq)
    PROVE  \E f : RetainRule(f, seq, wanted, n)
<1> PICK S : S = Seq(SubnetQueries)
  OBVIOUS
<1> PICK g : g = [x \in S \X (1 .. n) |->
                     IF seq[x[2]] \in wanted THEN Append(x[1], seq[x[2]]) ELSE x[1]]
  OBVIOUS
<1>1. \A i \in 1 .. n : seq[i] \in SubnetQueries
  BY ElementOfSeq
<1>2. g \in [S \X (1 .. n) -> S]
  BY <1>1, AppendProperties
<1>3. <<>> \in S
  BY EmptySeq
<1>4. PICK f \in [0 .. n -> S] : Solves(f, n, <<>>, g)
  BY <1>2, <1>3, RecursionExists
<1>5. ASSUME NEW i \in 1 .. n
      PROVE  f[i] = IF seq[i] \in wanted THEN Append(f[i - 1], seq[i]) ELSE f[i - 1]
  <2>1. i - 1 \in 0 .. n
    OBVIOUS
  <2>2. <<f[i - 1], i>> \in S \X (1 .. n)
    BY <1>4, <2>1
  <2> QED BY <1>4, <2>2 DEF Solves
<1>6. \A i \in 0 .. n : f[i] = IF i = 0 THEN <<>>
                               ELSE IF seq[i] \in wanted THEN Append(f[i - 1], seq[i])
                               ELSE f[i - 1]
  <2>1. \A i \in 0 .. n : i = 0 \/ i \in 1 .. n
    OBVIOUS
  <2> QED BY <1>4, <1>5, <2>1 DEF Solves
<1>7. f = [i \in 0 .. n |-> f[i]]
  BY <1>4
<1>8. RetainRule(f, seq, wanted, n)
  BY <1>6, <1>7 DEF RetainRule
<1> QED BY <1>8

\* What Retain computes: the wanted queries of the sequence and no others, each subnet
\* once if it was there once.
LEMMA RetainProperties ==
    ASSUME NEW seq \in Seq(SubnetQueries), NEW wanted
    PROVE  Retained(seq, wanted, Len(seq), Retain(seq, wanted))
<1> DEFINE kept[i \in 0 .. Len(seq)] ==
               IF i = 0 THEN <<>>
               ELSE IF seq[i] \in wanted THEN Append(kept[i - 1], seq[i]) ELSE kept[i - 1]
<1>1. Retain(seq, wanted) = kept[Len(seq)] /\ Len(seq) \in Nat
  BY LenProperties DEF Retain
<1>2. kept = [i \in 0 .. Len(seq) |->
                 IF i = 0 THEN <<>>
                 ELSE IF seq[i] \in wanted THEN Append(kept[i - 1], seq[i]) ELSE kept[i - 1]]
  <2>1. \E f : RetainRule(f, seq, wanted, Len(seq))
    BY <1>1, RetainSolution
  <2>2. kept = CHOOSE f : RetainRule(f, seq, wanted, Len(seq))
    BY DEF RetainRule
  <2> HIDE DEF kept
  <2>3. RetainRule(kept, seq, wanted, Len(seq))
    BY <2>1, <2>2
  <2> QED BY <2>3 DEF RetainRule
<1>3. PICK f, n : f = kept /\ n = Len(seq)
  OBVIOUS
<1> HIDE DEF kept
<1>4. n \in Nat /\ f[0] = <<>>
  BY <1>1, <1>2, <1>3
<1>5. ASSUME NEW i \in 1 .. n
      PROVE  f[i] = IF seq[i] \in wanted THEN Append(f[i - 1], seq[i]) ELSE f[i - 1]
  <2>1. i \in 0 .. n /\ i # 0
    BY <1>4
  <2> QED BY <1>2, <1>3, <2>1
<1> DEFINE G == {i \in 0 .. n : Retained(seq, wanted, i, f[i])}
<1>6. 0 \in G
  <2>1. <<>> \in Seq(SubnetQueries) /\ DOMAIN <<>> = {} /\ 1 .. 0 = {}
    BY EmptySeq
  <2>2. Retained(seq, wanted, 0, <<>>)
    BY <2>1 DEF Retained, Once
  <2> QED BY <1>4, <2>2
<1>7. ASSUME NEW i \in 1 .. n, i - 1 \in G PROVE i \in G
  <2>1. Retained(seq, wanted, i - 1, f[i - 1])
    BY <1>7
  <2>2. Retained(seq, wanted, i, f[i])
    BY <1>3, <1>5, <2>1, RetainedNext
  <2> QED BY <1>4, <2>2
<1>8. n \in G
  <2> HIDE DEF G
  <2> QED BY <1>4, <1>6, <1>7, UpTo
<1> QED BY <1>1, <1>3, <1>8

-----------------------------------------------------------------------------
(* The queue.                                                              *)

\* What a queue has after a query was added to it.
Added(queue, s, retries, new) ==
    /\ new \in Seq(SubnetQueries) /\ Once(new)
    /\ \A t \in Subnets : Within(queue, t) => Within(new, t)
    /\ retries <= MAX_DISCOVERY_RETRY => Within(new, s)
    /\ \A i \in DOMAIN new :
           \/ new[i].subnet = s /\ new[i].retries = retries
           \/ \E j \in DOMAIN queue :
                  new[i].subnet = queue[j].subnet /\ new[i].retries = queue[j].retries

\* What add_subnet_query does.
LEMMA AddQuery ==
    ASSUME NEW queue \in Seq(SubnetQueries), Once(queue), NEW s \in Subnets,
           NEW min_ttl \in Instants, NEW retries \in Nat
    PROVE  Added(queue, s, retries, add_subnet_query(queue, s, min_ttl, retries))
<1> DEFINE same == {i \in DOMAIN queue : queue[i].subnet = s}
           Later(a, b) == IF a < b THEN b ELSE a
           one == [subnet |-> s, min_ttl |-> min_ttl, retries |-> retries]
           merged == [i \in DOMAIN queue |->
                         IF i \in same
                         THEN [subnet |-> s, min_ttl |-> Later(queue[i].min_ttl, min_ttl),
                               retries |-> retries]
                         ELSE queue[i]]
<1>1. /\ Len(queue) \in Nat /\ DOMAIN queue = 1 .. Len(queue)
      /\ \A i \in DOMAIN queue : queue[i] \in SubnetQueries
      /\ MAX_DISCOVERY_RETRY \in Nat
  BY LenProperties, ElementOfSeq, DiscoveryAssumption
<1>2. CASE retries > MAX_DISCOVERY_RETRY
  <2>1. add_subnet_query(queue, s, min_ttl, retries) = queue
    BY <1>2 DEF add_subnet_query, RetriesExhausted
  <2>2. ~(retries <= MAX_DISCOVERY_RETRY)
    BY <1>1, <1>2
  <2> QED BY <2>1, <2>2 DEF Added
<1>3. CASE retries <= MAX_DISCOVERY_RETRY /\ same = {}
  <2>1. add_subnet_query(queue, s, min_ttl, retries) = Append(queue, one)
    BY <1>1, <1>3 DEF add_subnet_query, RetriesExhausted
  <2>2. one \in SubnetQueries /\ one.subnet = s /\ one.retries = retries
    BY <1>1, <1>3 DEF SubnetQueries
  <2> PICK new : new = Append(queue, one)
    OBVIOUS
  <2> HIDE DEF one
  <2>3. /\ new \in Seq(SubnetQueries) /\ DOMAIN new = 1 .. Len(queue) + 1
        /\ new[Len(queue) + 1] = one /\ \A i \in 1 .. Len(queue) : new[i] = queue[i]
    BY <1>1, <2>2, AppendProperties, LenProperties
  <2>4. /\ \A i \in DOMAIN new : i = Len(queue) + 1 \/ i \in DOMAIN queue
        /\ DOMAIN queue \subseteq DOMAIN new /\ Len(queue) + 1 \in DOMAIN new
        /\ \A i \in DOMAIN queue : new[i] = queue[i]
    BY <1>1, <2>3
  <2>5. \A i \in DOMAIN queue : queue[i].subnet # s
    BY <1>3
  <2>6. Once(new)
    BY <2>2, <2>3, <2>4, <2>5 DEF Once
  <2>7. Within(new, s) /\ \A t \in Subnets : Within(queue, t) => Within(new, t)
    BY <2>2, <2>3, <2>4 DEF Within
  <2>8. ASSUME NEW i \in DOMAIN new
        PROVE  \/ new[i].subnet = s /\ new[i].retries = retries
               \/ \E j \in DOMAIN queue :
                      new[i].subnet = queue[j].subnet /\ new[i].retries = queue[j].retries
    BY <2>2, <2>3, <2>4
  <2> QED BY <2>1, <2>3, <2>6, <2>7, <2>8 DEF Added
<1>4. CASE retries <= MAX_DISCOVERY_RETRY /\ same # {}
  <2>1. add_subnet_query(queue, s, min_ttl, retries) = merged
    <3>1. ~(retries > MAX_DISCOVERY_RETRY)
      BY <1>1, <1>4
    <3> QED BY <1>4, <3>1, Zenon DEF add_subnet_query, RetriesExhausted
  <2> PICK new : new = merged
    OBVIOUS
  <2>2. DOMAIN new = DOMAIN queue
    OBVIOUS
  <2>3. ASSUME NEW i \in DOMAIN queue
        PROVE  /\ new[i] \in SubnetQueries /\ new[i].subnet = queue[i].subnet
               /\ i \in same => new[i].retries = retries
               /\ i \notin same => new[i].retries = queue[i].retries
    <3>1. CASE i \in same
      <4>1. Later(queue[i].min_ttl, min_ttl) \in Instants
        BY <1>1 DEF SubnetQueries
      <4>2. new[i] = [subnet |-> s, min_ttl |-> Later(queue[i].min_ttl, min_ttl),
                      retries |-> retries]
        BY <3>1
      <4>3. retries \in 0 .. MAX_DISCOVERY_RETRY
        BY <1>1, <1>4
      <4> HIDE DEF Later
      <4> QED BY <3>1, <4>1, <4>2, <4>3 DEF SubnetQueries
    <3>2. CASE i \notin same
      BY <1>1, <3>2
    <3> QED BY <3>1, <3>2
  <2>4. new \in Seq(SubnetQueries)
    <3>1. new \in [1 .. Len(queue) -> SubnetQueries]
      <4>1. new = [i \in DOMAIN queue |-> new[i]]
        OBVIOUS
      <4> QED BY <1>1, <2>3, <4>1
    <3> QED BY <1>1, <3>1, SeqDef
  <2>5. Once(new)
    BY <2>2, <2>3 DEF Once
  <2>6. Within(new, s) /\ \A t \in Subnets : Within(queue, t) => Within(new, t)
    BY <1>4, <2>2, <2>3 DEF Within
  <2>7. ASSUME NEW i \in DOMAIN new
        PROVE  \/ new[i].subnet = s /\ new[i].retries = retries
               \/ \E j \in DOMAIN queue :
                      new[i].subnet = queue[j].subnet /\ new[i].retries = queue[j].retries
    BY <2>2, <2>3
  <2> QED BY <2>1, <2>4, <2>5, <2>6, <2>7 DEF Added
<1> QED BY <1>1, <1>2, <1>3, <1>4

\* What a queue has after the first i queries of a group were added to it again.
AddedAgain(queue, group, i, new) ==
    /\ new \in Seq(SubnetQueries) /\ Once(new)
    /\ \A t \in Subnets : Within(queue, t) => Within(new, t)
    /\ \A j \in 1 .. i : group[j].retries < MAX_DISCOVERY_RETRY => Within(new, group[j].subnet)
    /\ \A k \in DOMAIN new :
           \/ \E j \in DOMAIN queue :
                  new[k].subnet = queue[j].subnet /\ new[k].retries = queue[j].retries
           \/ \E j \in DOMAIN group :
                  new[k].subnet = group[j].subnet /\ new[k].retries = group[j].retries + 1

\* One more query.
LEMMA AddedAgainNext ==
    ASSUME NEW queue \in Seq(SubnetQueries), NEW group \in Seq(SubnetQueries),
           NEW i \in 1 .. Len(group), NEW part, AddedAgain(queue, group, i - 1, part)
    PROVE  AddedAgain(queue, group, i,
                      add_subnet_query(part, group[i].subnet, group[i].min_ttl,
                                       group[i].retries + 1))
<1>1. /\ Len(group) \in Nat /\ DOMAIN group = 1 .. Len(group) /\ group[i] \in SubnetQueries
      /\ MAX_DISCOVERY_RETRY \in Nat
  BY LenProperties, ElementOfSeq, DiscoveryAssumption
<1> PICK s, min_ttl, retries :
        s = group[i].subnet /\ min_ttl = group[i].min_ttl /\ retries = group[i].retries
  OBVIOUS
<1> PICK new : new = add_subnet_query(part, s, min_ttl, retries + 1)
  OBVIOUS
<1>2. s \in Subnets /\ min_ttl \in Instants /\ retries \in Nat
  BY <1>1 DEF SubnetQueries
<1>3. /\ part \in Seq(SubnetQueries) /\ Once(part)
      /\ \A t \in Subnets : Within(queue, t) => Within(part, t)
  BY DEF AddedAgain
<1>4. Added(part, s, retries + 1, new)
  BY <1>2, <1>3, AddQuery
<1>5. ASSUME NEW j \in 1 .. i, group[j].retries < MAX_DISCOVERY_RETRY
      PROVE  Within(new, group[j].subnet)
  <2>1. CASE j = i
    BY <1>1, <1>2, <1>4, <1>5, <2>1 DEF Added
  <2>2. CASE j # i
    <3>1. j \in 1 .. i - 1 /\ j \in 1 .. Len(group)
      BY <1>1, <2>2
    <3>2. Within(part, group[j].subnet)
      BY <1>5, <3>1 DEF AddedAgain
    <3>3. group[j].subnet \in Subnets
      <4>1. group[j] \in SubnetQueries
        BY <3>1, ElementOfSeq
      <4> QED BY <4>1 DEF SubnetQueries
    <3> QED BY <1>4, <3>2, <3>3 DEF Added
  <2> QED BY <2>1, <2>2
<1>6. ASSUME NEW k \in DOMAIN new
      PROVE  \/ \E j \in DOMAIN queue :
                    new[k].subnet = queue[j].subnet /\ new[k].retries = queue[j].retries
             \/ \E j \in DOMAIN group :
                    new[k].subnet = group[j].subnet /\ new[k].retries = group[j].retries + 1
  <2>1. CASE new[k].subnet = s /\ new[k].retries = retries + 1
    BY <1>1, <2>1
  <2>2. CASE \E j \in DOMAIN part :
                 new[k].subnet = part[j].subnet /\ new[k].retries = part[j].retries
    BY <2>2 DEF AddedAgain
  <2> QED BY <1>4, <2>1, <2>2 DEF Added
<1>7. AddedAgain(queue, group, i, new)
  BY <1>3, <1>4, <1>5, <1>6 DEF Added, AddedAgain
<1> QED BY <1>7

\* The recursion of Requeued.
RequeuedRule(f, queue, group, n) ==
    f = [i \in 0 .. n |->
            IF i = 0 THEN queue
            ELSE add_subnet_query(f[i - 1], group[i].subnet, group[i].min_ttl,
                                  group[i].retries + 1)]

\* It has a solution.
LEMMA RequeuedSolution ==
    ASSUME NEW queue \in Seq(SubnetQueries), Once(queue), NEW group \in Seq(SubnetQueries),
           NEW n \in Nat, n = Len(group)
    PROVE  \E f : RequeuedRule(f, queue, group, n)
<1> PICK S : S = {q \in Seq(SubnetQueries) : Once(q)}
  OBVIOUS
<1> PICK g : g = [x \in S \X (1 .. n) |->
                     add_subnet_query(x[1], group[x[2]].subnet, group[x[2]].min_ttl,
                                      group[x[2]].retries + 1)]
  OBVIOUS
<1>1. ASSUME NEW q \in S, NEW i \in 1 .. n
      PROVE  add_subnet_query(q, group[i].subnet, group[i].min_ttl, group[i].retries + 1) \in S
  <2>1. group[i] \in SubnetQueries
    BY ElementOfSeq
  <2>2. /\ group[i].subnet \in Subnets /\ group[i].min_ttl \in Instants
        /\ group[i].retries + 1 \in Nat
    BY <2>1, DiscoveryAssumption DEF SubnetQueries
  <2>3. q \in Seq(SubnetQueries) /\ Once(q)
    OBVIOUS
  <2>4. Added(q, group[i].subnet, group[i].retries + 1,
              add_subnet_query(q, group[i].subnet, group[i].min_ttl, group[i].retries + 1))
    BY <2>2, <2>3, AddQuery
  <2> QED BY <2>4 DEF Added
<1>2. g \in [S \X (1 .. n) -> S]
  BY <1>1
<1>3. queue \in S
  OBVIOUS
<1>4. PICK f \in [0 .. n -> S] : Solves(f, n, queue, g)
  BY <1>2, <1>3, RecursionExists
<1>5. ASSUME NEW i \in 1 .. n
      PROVE  f[i] = add_subnet_query(f[i - 1], group[i].subnet, group[i].min_ttl,
                                     group[i].retries + 1)
  <2>1. i - 1 \in 0 .. n
    OBVIOUS
  <2>2. <<f[i - 1], i>> \in S \X (1 .. n)
    BY <1>4, <2>1
  <2> QED BY <1>4, <2>2 DEF Solves
<1>6. \A i \in 0 .. n : f[i] = IF i = 0 THEN queue
                               ELSE add_subnet_query(f[i - 1], group[i].subnet,
                                                     group[i].min_ttl, group[i].retries + 1)
  <2>1. \A i \in 0 .. n : i = 0 \/ i \in 1 .. n
    OBVIOUS
  <2> QED BY <1>4, <1>5, <2>1 DEF Solves
<1>7. f = [i \in 0 .. n |-> f[i]]
  BY <1>4
<1>8. RequeuedRule(f, queue, group, n)
  BY <1>6, <1>7 DEF RequeuedRule
<1> QED BY <1>8

\* What Requeued computes: everything that waited still waits, each subnet once, and
\* what had a retry left waits again.
LEMMA RequeuedProperties ==
    ASSUME NEW queue \in Seq(SubnetQueries), Once(queue), NEW group \in Seq(SubnetQueries)
    PROVE  AddedAgain(queue, group, Len(group), Requeued(queue, group))
<1> DEFINE added[i \in 0 .. Len(group)] ==
               IF i = 0 THEN queue
               ELSE add_subnet_query(added[i - 1], group[i].subnet, group[i].min_ttl,
                                     group[i].retries + 1)
<1>1. Requeued(queue, group) = added[Len(group)] /\ Len(group) \in Nat
  BY LenProperties DEF Requeued
<1>2. added = [i \in 0 .. Len(group) |->
                  IF i = 0 THEN queue
                  ELSE add_subnet_query(added[i - 1], group[i].subnet, group[i].min_ttl,
                                        group[i].retries + 1)]
  <2>1. \E f : RequeuedRule(f, queue, group, Len(group))
    BY <1>1, RequeuedSolution
  <2>2. added = CHOOSE f : RequeuedRule(f, queue, group, Len(group))
    BY DEF RequeuedRule
  <2> HIDE DEF added
  <2>3. RequeuedRule(added, queue, group, Len(group))
    BY <2>1, <2>2
  <2> QED BY <2>3 DEF RequeuedRule
<1>3. PICK f, n : f = added /\ n = Len(group)
  OBVIOUS
<1> HIDE DEF added
<1>4. n \in Nat /\ f[0] = queue
  BY <1>1, <1>2, <1>3
<1>5. ASSUME NEW i \in 1 .. n
      PROVE  f[i] = add_subnet_query(f[i - 1], group[i].subnet, group[i].min_ttl,
                                     group[i].retries + 1)
  <2>1. i \in 0 .. n /\ i # 0
    BY <1>4
  <2> QED BY <1>2, <1>3, <2>1
<1> DEFINE G == {i \in 0 .. n : AddedAgain(queue, group, i, f[i])}
<1>6. 0 \in G
  <2>1. 1 .. 0 = {}
    OBVIOUS
  <2>2. AddedAgain(queue, group, 0, queue)
    BY <2>1 DEF AddedAgain
  <2> QED BY <1>4, <2>2
<1>7. ASSUME NEW i \in 1 .. n, i - 1 \in G PROVE i \in G
  <2>1. AddedAgain(queue, group, i - 1, f[i - 1])
    BY <1>7
  <2>2. AddedAgain(queue, group, i, f[i])
    BY <1>3, <1>5, <2>1, AddedAgainNext
  <2> QED BY <1>4, <2>2
<1>8. n \in G
  <2> HIDE DEF G
  <2> QED BY <1>4, <1>6, <1>7, UpTo
<1> QED BY <1>1, <1>3, <1>8

-----------------------------------------------------------------------------
(* The running queries.                                                    *)

\* Two sequences in a row.
LEMMA Joined ==
    ASSUME NEW S, NEW a \in Seq(S), NEW b \in Seq(S)
    PROVE  /\ a \o b \in Seq(S) /\ Len(a \o b) = Len(a) + Len(b)
           /\ \A j \in 1 .. Len(a) + Len(b) :
                  (a \o b)[j] = IF j <= Len(a) THEN a[j] ELSE b[j - Len(a)]
BY ConcatProperties

\* A sequence without one element.
LEMMA WithoutProperties ==
    ASSUME NEW S, NEW seq \in Seq(S), NEW i \in 1 .. Len(seq)
    PROVE  /\ Without(seq, i) \in Seq(S) /\ Len(Without(seq, i)) = Len(seq) - 1
           /\ \A j \in 1 .. Len(seq) - 1 :
                  Without(seq, i)[j] = IF j < i THEN seq[j] ELSE seq[j + 1]
<1> PICK n \in Nat : n = Len(seq)
  BY LenProperties
<1>0. PICK a, b : a = SubSeq(seq, 1, i - 1) /\ b = SubSeq(seq, i + 1, n)
  OBVIOUS
<1>1. /\ a \in Seq(S) /\ Len(a) = i - 1 /\ \A j \in 1 .. i - 1 : a[j] = seq[j]
  <2>1. 1 \in 1 .. n + 1 /\ i - 1 \in 1 - 1 .. n /\ i \in Nat
    OBVIOUS
  <2>2. /\ a \in Seq(S) /\ Len(a) = (IF 1 <= i - 1 THEN (i - 1) - 1 + 1 ELSE 0)
        /\ \A j \in 1 .. (i - 1) - 1 + 1 : a[j] = seq[1 + j - 1]
    BY <1>0, <2>1, SubSeqProperties
  <2> QED BY <2>1, <2>2
<1>2. /\ b \in Seq(S) /\ Len(b) = n - i /\ \A j \in 1 .. n - i : b[j] = seq[i + j]
  <2>1. i + 1 \in 1 .. n + 1 /\ n \in (i + 1) - 1 .. n /\ i \in Nat
    OBVIOUS
  <2>2. /\ b \in Seq(S) /\ Len(b) = (IF i + 1 <= n THEN n - (i + 1) + 1 ELSE 0)
        /\ \A j \in 1 .. n - (i + 1) + 1 : b[j] = seq[(i + 1) + j - 1]
    BY <1>0, <2>1, SubSeqProperties
  <2> QED BY <2>1, <2>2
<1>3. Without(seq, i) = a \o b
  BY <1>0 DEF Without
<1>4. /\ a \o b \in Seq(S) /\ Len(a \o b) = Len(a) + Len(b)
      /\ \A j \in 1 .. Len(a) + Len(b) :
             (a \o b)[j] = IF j <= Len(a) THEN a[j] ELSE b[j - Len(a)]
  <2>1. a \in Seq(S) /\ b \in Seq(S)
    BY <1>1, <1>2
  <2> QED BY <2>1, Joined
<1>5. Len(a \o b) = n - 1
  <2>1. i \in 1 .. n /\ (i - 1) + (n - i) = n - 1
    OBVIOUS
  <2> QED BY <1>1, <1>2, <1>4, <2>1
<1>6. ASSUME NEW j \in 1 .. n - 1
      PROVE  (a \o b)[j] = IF j < i THEN seq[j] ELSE seq[j + 1]
  <2>1. j \in 1 .. Len(a) + Len(b)
    BY <1>1, <1>2
  <2>2. CASE j < i
    BY <1>1, <1>4, <2>1, <2>2
  <2>3. CASE ~(j < i)
    <3>1. j - (i - 1) \in 1 .. n - i /\ i + (j - (i - 1)) = j + 1 /\ ~(j <= Len(a))
      BY <1>1, <2>3
    <3>2. (a \o b)[j] = b[j - (i - 1)]
      BY <1>1, <1>4, <2>1, <3>1
    <3> QED BY <1>2, <2>3, <3>1, <3>2
  <2> QED BY <2>2, <2>3
<1> QED BY <1>3, <1>4, <1>5, <1>6

\* The oldest of a sequence and the others, or the others and a new one: their elements.
LEMMA Elements ==
    ASSUME NEW S, NEW seq \in Seq(S)
    PROVE  /\ Len(seq) \in Nat /\ DOMAIN seq = 1 .. Len(seq)
           /\ \A i \in DOMAIN seq : seq[i] \in S
           /\ \A e \in S :
                  /\ Append(seq, e) \in Seq(S) /\ Len(Append(seq, e)) = Len(seq) + 1
                  /\ DOMAIN Append(seq, e) = 1 .. Len(seq) + 1
                  /\ Append(seq, e)[Len(seq) + 1] = e
                  /\ \A i \in 1 .. Len(seq) : Append(seq, e)[i] = seq[i]
           /\ seq # <<>> =>
                  /\ Len(seq) > 0 /\ Head(seq) \in S /\ Head(seq) = seq[1]
                  /\ Tail(seq) \in Seq(S) /\ DOMAIN Tail(seq) = 1 .. Len(seq) - 1
                  /\ \A i \in 1 .. Len(seq) - 1 : Tail(seq)[i] = seq[i + 1]
<1>1. Len(seq) \in Nat /\ DOMAIN seq = 1 .. Len(seq) /\ \A i \in DOMAIN seq : seq[i] \in S
  BY LenProperties, ElementOfSeq
<1>2. ASSUME NEW e \in S
      PROVE  /\ Append(seq, e) \in Seq(S) /\ Len(Append(seq, e)) = Len(seq) + 1
             /\ DOMAIN Append(seq, e) = 1 .. Len(seq) + 1
             /\ Append(seq, e)[Len(seq) + 1] = e
             /\ \A i \in 1 .. Len(seq) : Append(seq, e)[i] = seq[i]
  BY AppendProperties, LenProperties
<1>3. ASSUME seq # <<>>
      PROVE  /\ Len(seq) > 0 /\ Head(seq) \in S /\ Head(seq) = seq[1]
             /\ Tail(seq) \in Seq(S) /\ DOMAIN Tail(seq) = 1 .. Len(seq) - 1
             /\ \A i \in 1 .. Len(seq) - 1 : Tail(seq)[i] = seq[i + 1]
  BY <1>1, <1>3, HeadTailProperties, LenProperties, EmptySeq
<1> QED BY <1>1, <1>2, <1>3

\* The places where a subnet is known.
LEMMA KnownParts ==
    ASSUME NEW s
    PROVE  Known(s) <=> \/ Within(queued_queries, s) \/ Within(subnet_queries, s)
                        \/ \E k \in DOMAIN active_queries : Within(active_queries[k], s)
<1>1. DOMAIN FindPeers = {}
  BY EmptySeq DEF FindPeers
<1> QED BY <1>1 DEF Known, Grouped, Within

\* The same after a step.
LEMMA KnownPartsPrime ==
    ASSUME NEW s
    PROVE  Known(s)' <=> \/ Within(queued_queries', s) \/ Within(subnet_queries', s)
                         \/ \E k \in DOMAIN active_queries' : Within(active_queries'[k], s)
<1>1. DOMAIN FindPeers = {}
  BY EmptySeq DEF FindPeers
<1> QED BY <1>1 DEF Known, Grouped, Within

\* Below the limit there is room for one more query.
LEMMA BelowCapacity ==
    ASSUME DiscoveryTypeOK, ~at_capacity
    PROVE  Len(active_queries) + 1
               <= MAX_CONCURRENT_SUBNET_QUERIES + (IF find_peer_active THEN 1 ELSE 0)
<1>1. Len(active_queries) \in Nat /\ MAX_CONCURRENT_SUBNET_QUERIES \in Nat
  BY DiscoveryAssumption, LenProperties DEF DiscoveryTypeOK
<1>2. CASE find_peer_active
  <2>1. /\ Len(active_queries) >= 1 => Len(active_queries) - 1 < MAX_CONCURRENT_SUBNET_QUERIES
        /\ Len(active_queries) < 1 => 0 < MAX_CONCURRENT_SUBNET_QUERIES
    BY <1>1, <1>2, DiscoveryAssumption DEF at_capacity, ActiveSubnetQueries
  <2> QED BY <1>1, <1>2, <2>1
<1>3. CASE ~find_peer_active
  <2>1. Len(active_queries) < MAX_CONCURRENT_SUBNET_QUERIES
    BY <1>1, <1>3 DEF at_capacity, ActiveSubnetQueries
  <2> QED BY <1>1, <1>3, <2>1
<1> QED BY <1>2, <1>3

\* The invariant says what is to be shown.
LEMMA InvConsistent == DInv => QueriesConsistent
<1> SUFFICES ASSUME DInv PROVE QueriesConsistent
  OBVIOUS
<1>1. DiscoveryTypeOK /\ QueuedOnce /\ OneSearch /\ SubnetQueriesLimited
  BY DEF DInv
<1> PICK n, D : n = Len(active_queries) /\ D = DOMAIN active_queries
  OBVIOUS
<1> DEFINE find == {i \in DOMAIN active_queries : active_queries[i] = FindPeers}
           subnet == {i \in DOMAIN active_queries : active_queries[i] # FindPeers}
<1>2. n \in Nat /\ D = 1 .. n /\ MAX_CONCURRENT_SUBNET_QUERIES \in Nat
  BY <1>1, LenProperties, DiscoveryAssumption DEF DiscoveryTypeOK
<1>3. IsFiniteSet(D) /\ Cardinality(D) = n
  <2>1. IsFiniteSet(1 .. n) /\ Cardinality(1 .. n) = (IF 1 > n THEN 0 ELSE n - 1 + 1)
    <3>1. 1 \in Int /\ n \in Int
      BY <1>2
    <3> QED BY <3>1, FS_Interval
  <2> QED BY <1>2, <2>1
<1>4. CASE find_peer_active
  <2>1. PICK i \in D : active_queries[i] = FindPeers
    BY <1>1, <1>4 DEF OneSearch
  <2>2. find = {i} /\ subnet = D \ {i}
    BY <1>1, <2>1 DEF OneSearch
  <2>3. Cardinality(find) = 1 /\ Cardinality(subnet) = n - 1
    BY <1>3, <2>1, <2>2, FS_Singleton, FS_RemoveElement
  <2>4. n <= MAX_CONCURRENT_SUBNET_QUERIES + 1
    BY <1>1, <1>4 DEF SubnetQueriesLimited
  <2>5. FlagMeansSearch
    BY <1>4, <2>3 DEF FlagMeansSearch
  <2>6. n - 1 <= MAX_CONCURRENT_SUBNET_QUERIES
    BY <1>2, <2>4
  <2>7. WithinConcurrency
    BY <2>3, <2>4, <2>6 DEF WithinConcurrency
  <2> QED BY <1>1, <2>5, <2>7 DEF QueriesConsistent
<1>5. CASE ~find_peer_active
  <2>1. find = {} /\ subnet = D
    BY <1>1, <1>5 DEF OneSearch
  <2>2. Cardinality(find) = 0 /\ Cardinality(subnet) = n
    BY <1>3, <2>1, FS_EmptySet
  <2>3. n <= MAX_CONCURRENT_SUBNET_QUERIES + 0
    BY <1>1, <1>5 DEF SubnetQueriesLimited
  <2>4. FlagMeansSearch
    BY <1>5, <2>2 DEF FlagMeansSearch
  <2>5. n <= MAX_CONCURRENT_SUBNET_QUERIES /\ n <= MAX_CONCURRENT_SUBNET_QUERIES + 1
    BY <1>2, <2>3
  <2>6. WithinConcurrency
    BY <2>2, <2>5 DEF WithinConcurrency
  <2> QED BY <1>1, <2>4, <2>6 DEF QueriesConsistent
<1> QED BY <1>4, <1>5

-----------------------------------------------------------------------------
(* The steps.                                                              *)

\* What a subnet may be dropped for.
DroppedFor(s) ==
    \/ Expires(s)
    \/ ProcessQueue
    \/ \E i \in DOMAIN active_queries : QueryFails(i)
    \/ attempts[s] > MAX_DISCOVERY_RETRY

\* What NotForgotten says of a step.
RememberStep == \A s \in Subnets : Known(s) /\ ~Known(s)' => DroppedFor(s)

\* The search for peers starts.
LEMMA DiscoverPeersStep == ASSUME DInv, discover_peers PROVE DInv' /\ RememberStep
<1>1. /\ phase = "Waiting" /\ ~find_peer_active /\ find_peer_active' = TRUE
      /\ active_queries' = Append(active_queries, FindPeers)
      /\ UNCHANGED <<now, queued_queries, phase, subnet_queries, attempts>>
  BY DEF discover_peers
<1>2. DiscoveryTypeOK /\ active_queries \in Seq(Seq(SubnetQueries))
      /\ FindPeers \in Seq(SubnetQueries) /\ DOMAIN FindPeers = {}
  BY EmptySeq DEF DInv, DiscoveryTypeOK, FindPeers
<1> PICK n : n = Len(active_queries)
  OBVIOUS
<1>3. /\ n \in Nat /\ DOMAIN active_queries = 1 .. n
      /\ active_queries' \in Seq(Seq(SubnetQueries)) /\ Len(active_queries') = n + 1
      /\ DOMAIN active_queries' = 1 .. n + 1 /\ active_queries'[n + 1] = FindPeers
      /\ \A i \in 1 .. n : active_queries'[i] = active_queries[i]
  BY <1>1, <1>2, Elements
<1>4. DiscoveryTypeOK'
  <2>1. find_peer_active' \in BOOLEAN
    BY <1>1
  <2> QED BY <1>1, <1>2, <1>3, <2>1 DEF DiscoveryTypeOK
<1>5. OneSearch'
  <2>1. \A i \in 1 .. n : active_queries[i] # FindPeers
    BY <1>1, <1>3 DEF DInv, OneSearch
  <2>2. \A i \in 1 .. n + 1 : i = n + 1 \/ i \in 1 .. n
    BY <1>3
  <2>3. n + 1 \in 1 .. n + 1
    BY <1>3
  <2> QED BY <1>1, <1>3, <2>1, <2>2, <2>3 DEF OneSearch
<1>6. SubnetQueriesLimited'
  <2>1. n <= MAX_CONCURRENT_SUBNET_QUERIES + 0 /\ MAX_CONCURRENT_SUBNET_QUERIES \in Nat
    BY <1>1, DiscoveryAssumption DEF DInv, SubnetQueriesLimited
  <2>2. n + 1 <= MAX_CONCURRENT_SUBNET_QUERIES + 1
    BY <1>3, <2>1
  <2> QED BY <1>1, <1>3, <2>2 DEF SubnetQueriesLimited
<1>7. CollectedIsStarted' /\ QueuedOnce'
  BY <1>1 DEF DInv, CollectedIsStarted, QueuedOnce
<1>8. RetriesCounted'
  <2>1. ASSUME NEW k \in 1 .. n + 1 PROVE Tried(active_queries'[k], attempts, 1)
    <3>1. CASE k = n + 1
      BY <1>2, <1>3, <3>1 DEF Tried
    <3>2. CASE k # n + 1
      <4>1. k \in 1 .. n
        BY <1>3, <3>2
      <4> QED BY <1>3, <4>1 DEF DInv, RetriesCounted
    <3> QED BY <3>1, <3>2
  <2> QED BY <1>1, <1>3, <2>1 DEF DInv, RetriesCounted
<1>9. RememberStep
  <2>1. 1 .. n \subseteq 1 .. n + 1
    BY <1>3
  <2> QED BY <1>1, <1>3, <2>1, KnownParts, KnownPartsPrime DEF RememberStep
<1> QED BY <1>4, <1>5, <1>6, <1>7, <1>8, <1>9 DEF DInv

\* A subnet is requested.
LEMMA DiscoverSubnetStep ==
    ASSUME DInv, NEW s \in Subnets, NEW min_ttl \in Instants, discover_subnet_peers(s, min_ttl)
    PROVE  DInv' /\ RememberStep
<1>1. /\ phase = "Waiting"
      /\ queued_queries' = add_subnet_query(queued_queries, s, min_ttl, 0)
      /\ attempts' = Requested(s)
      /\ UNCHANGED <<now, active_queries, find_peer_active, phase, subnet_queries>>
  BY DEF discover_subnet_peers
<1>2. DiscoveryTypeOK /\ Once(queued_queries) /\ queued_queries \in Seq(SubnetQueries)
      /\ attempts \in [Subnets -> 0 .. MAX_DISCOVERY_RETRY + 1] /\ MAX_DISCOVERY_RETRY \in Nat
  BY DiscoveryAssumption DEF DInv, QueuedOnce, Once, DiscoveryTypeOK
<1>3. Added(queued_queries, s, 0, queued_queries')
  BY <1>1, <1>2, AddQuery
<1>4. attempts' \in [Subnets -> 0 .. MAX_DISCOVERY_RETRY + 1]
  BY <1>1, <1>2 DEF Requested
<1>5. DiscoveryTypeOK'
  <2>1. find_peer_active' \in BOOLEAN
    BY <1>1, <1>2 DEF DiscoveryTypeOK
  <2> QED BY <1>1, <1>2, <1>3, <1>4, <2>1 DEF DiscoveryTypeOK, Added
<1>6. QueuedOnce'
  BY <1>3 DEF Added, Once, QueuedOnce
<1>7. OneSearch' /\ SubnetQueriesLimited'
  BY <1>1 DEF DInv, OneSearch, SubnetQueriesLimited
<1>8. CollectedIsStarted'
  BY <1>1 DEF DInv, CollectedIsStarted
<1>9. \A t \in Subnets : attempts'[t] \in Nat /\ (Known(t) => attempts'[t] = attempts[t])
  BY <1>1, <1>2 DEF Requested
<1>10. ASSUME NEW seq \in Seq(SubnetQueries), NEW more \in Nat, Tried(seq, attempts, more),
              \A t \in Subnets : Within(seq, t) => Known(t)
       PROVE  Tried(seq, attempts', more)
  <2>1. ASSUME NEW i \in DOMAIN seq PROVE attempts'[seq[i].subnet] >= seq[i].retries + more
    <3>1. seq[i] \in SubnetQueries
      BY Elements
    <3>2. seq[i].subnet \in Subnets
      BY <3>1 DEF SubnetQueries
    <3>3. attempts'[seq[i].subnet] = attempts[seq[i].subnet]
      BY <1>9, <1>10, <3>2 DEF Within
    <3> QED BY <1>10, <3>3 DEF Tried
  <2> QED BY <2>1 DEF Tried
<1>11. RetriesCounted'
  <2>1. Tried(queued_queries', attempts', 0)
    <3>1. ASSUME NEW i \in DOMAIN queued_queries'
          PROVE  attempts'[queued_queries'[i].subnet] >= queued_queries'[i].retries + 0
      <4>1. queued_queries'[i] \in SubnetQueries
        BY <1>3, Elements DEF Added
      <4>2. queued_queries'[i].subnet \in Subnets
        BY <4>1 DEF SubnetQueries
      <4>3. CASE queued_queries'[i].subnet = s /\ queued_queries'[i].retries = 0
        BY <1>9, <4>3
      <4>4. CASE \E j \in DOMAIN queued_queries :
                     /\ queued_queries'[i].subnet = queued_queries[j].subnet
                     /\ queued_queries'[i].retries = queued_queries[j].retries
        <5>1. PICK j \in DOMAIN queued_queries :
                  /\ queued_queries'[i].subnet = queued_queries[j].subnet
                  /\ queued_queries'[i].retries = queued_queries[j].retries
          BY <4>4
        <5>2. attempts[queued_queries[j].subnet] >= queued_queries[j].retries + 0
          BY <5>1 DEF DInv, RetriesCounted, Tried
        <5>3. Known(queued_queries[j].subnet)
          BY <5>1 DEF Known
        <5> QED BY <1>9, <4>2, <5>1, <5>2, <5>3
      <4> QED BY <1>3, <4>3, <4>4 DEF Added
    <3> QED BY <3>1 DEF Tried
  <2>2. Tried(subnet_queries, attempts', 0)
    <3>1. subnet_queries \in Seq(SubnetQueries) /\ Tried(subnet_queries, attempts, 0)
      BY <1>2 DEF DInv, RetriesCounted, DiscoveryTypeOK
    <3>2. \A t \in Subnets : Within(subnet_queries, t) => Known(t)
      BY KnownParts
    <3> QED BY <1>10, <3>1, <3>2
  <2>3. ASSUME NEW k \in DOMAIN active_queries PROVE Tried(active_queries[k], attempts', 1)
    <3>1. active_queries[k] \in Seq(SubnetQueries) /\ Tried(active_queries[k], attempts, 1)
      BY <1>2, Elements DEF DInv, RetriesCounted, DiscoveryTypeOK
    <3>2. \A t \in Subnets : Within(active_queries[k], t) => Known(t)
      BY KnownParts
    <3> QED BY <1>10, <3>1, <3>2
  <2> QED BY <1>1, <2>1, <2>2, <2>3 DEF RetriesCounted
<1>12. RememberStep
  BY <1>1, <1>3, KnownParts, KnownPartsPrime DEF RememberStep, Added
<1> QED BY <1>5, <1>6, <1>7, <1>8, <1>11, <1>12 DEF DInv

\* Time passes, or poll ends.
LEMMA QuietStep == ASSUME DInv, Tick \/ PollEnd PROVE DInv' /\ RememberStep
<1>1. /\ phase # "Queue" /\ phase' = "Waiting" /\ now' \in 0 .. MaxTime
      /\ UNCHANGED <<queued_queries, active_queries, find_peer_active, subnet_queries, attempts>>
  BY DiscoveryAssumption DEF Tick, PollEnd, DInv, DiscoveryTypeOK
<1>2. DiscoveryTypeOK'
  <2>1. find_peer_active' \in BOOLEAN
    BY <1>1 DEF DInv, DiscoveryTypeOK
  <2> QED BY <1>1, <2>1 DEF DInv, DiscoveryTypeOK
<1>3. QueuedOnce' /\ OneSearch' /\ SubnetQueriesLimited' /\ RetriesCounted'
  BY <1>1 DEF DInv, QueuedOnce, OneSearch, SubnetQueriesLimited, RetriesCounted
<1>4. CollectedIsStarted'
  BY <1>1 DEF DInv, CollectedIsStarted
<1>5. RememberStep
  BY <1>1, KnownParts, KnownPartsPrime DEF RememberStep
<1> QED BY <1>2, <1>3, <1>4, <1>5 DEF DInv

\* process_queue drops what has expired.
LEMMA PollBeginStep == ASSUME DInv, PollBegin PROVE DInv' /\ RememberStep
<1> PICK wanted : wanted = {q \in SubnetQueries : ~expired(q)}
  OBVIOUS
<1>1. /\ phase = "Waiting" /\ phase' = "Queue"
      /\ queued_queries' = Retain(queued_queries, wanted)
      /\ UNCHANGED <<now, active_queries, find_peer_active, subnet_queries, attempts>>
  BY DEF PollBegin
<1>2. DiscoveryTypeOK /\ Once(queued_queries) /\ queued_queries \in Seq(SubnetQueries)
      /\ DOMAIN queued_queries = 1 .. Len(queued_queries)
      /\ \A i \in DOMAIN queued_queries : queued_queries[i] \in SubnetQueries
  BY Elements DEF DInv, QueuedOnce, Once, DiscoveryTypeOK
<1>3. Retained(queued_queries, wanted, Len(queued_queries), queued_queries')
  BY <1>1, <1>2, RetainProperties
<1>4. DiscoveryTypeOK'
  <2>1. find_peer_active' \in BOOLEAN
    BY <1>1, <1>2 DEF DiscoveryTypeOK
  <2> QED BY <1>1, <1>2, <1>3, <2>1 DEF DiscoveryTypeOK, Retained
<1>5. QueuedOnce'
  BY <1>2, <1>3 DEF Retained, Once, QueuedOnce
<1>6. OneSearch' /\ SubnetQueriesLimited'
  BY <1>1 DEF DInv, OneSearch, SubnetQueriesLimited
<1>7. CollectedIsStarted'
  BY <1>1 DEF DInv, CollectedIsStarted
<1>8. RetriesCounted'
  <2>1. ASSUME NEW i \in DOMAIN queued_queries'
        PROVE  attempts[queued_queries'[i].subnet] >= queued_queries'[i].retries + 0
    <3>1. PICK j \in DOMAIN queued_queries : queued_queries'[i] = queued_queries[j]
      BY <1>2, <1>3 DEF Retained
    <3> QED BY <3>1 DEF DInv, RetriesCounted, Tried
  <2>2. Tried(queued_queries', attempts, 0)
    BY <2>1 DEF Tried
  <2> QED BY <1>1, <2>2 DEF DInv, RetriesCounted
<1>9. ASSUME NEW s \in Subnets, Within(queued_queries, s), ~Expires(s)
      PROVE  Within(queued_queries', s)
  <2>1. PICK j \in DOMAIN queued_queries : queued_queries[j].subnet = s
    BY <1>9 DEF Within
  <2>2. ~expired(queued_queries[j])
    BY <1>1, <1>9, <2>1 DEF Expires
  <2>3. queued_queries[j] \in wanted
    BY <1>2, <2>1, <2>2
  <2>4. \E i \in DOMAIN queued_queries' : queued_queries'[i] = queued_queries[j]
    BY <1>2, <1>3, <2>1, <2>3 DEF Retained
  <2> QED BY <2>1, <2>4 DEF Within
<1>10. RememberStep
  BY <1>1, <1>9, KnownParts, KnownPartsPrime DEF RememberStep, DroppedFor
<1> QED BY <1>4, <1>5, <1>6, <1>7, <1>8, <1>10 DEF DInv

\* The loop of process_queue ends: nothing was collected that was not started.
LEMMA QueueDoneStep == ASSUME DInv, ProcessQueueDone PROVE DInv' /\ RememberStep
<1>1. /\ phase' = "Queries" /\ subnet_queries' = <<>> /\ subnet_queries = <<>>
      /\ UNCHANGED <<now, queued_queries, active_queries, find_peer_active, attempts>>
  BY DEF ProcessQueueDone, DInv, CollectedIsStarted
<1>2. DiscoveryTypeOK'
  <2>1. find_peer_active' \in BOOLEAN
    BY <1>1 DEF DInv, DiscoveryTypeOK
  <2>2. subnet_queries' \in Seq(SubnetQueries)
    BY <1>1 DEF DInv, DiscoveryTypeOK
  <2> QED BY <1>1, <2>1, <2>2 DEF DInv, DiscoveryTypeOK
<1>3. QueuedOnce' /\ OneSearch' /\ SubnetQueriesLimited' /\ RetriesCounted'
  BY <1>1 DEF DInv, QueuedOnce, OneSearch, SubnetQueriesLimited, RetriesCounted
<1>4. CollectedIsStarted'
  BY <1>1 DEF CollectedIsStarted
<1>5. RememberStep
  BY <1>1, KnownParts, KnownPartsPrime DEF RememberStep
<1> QED BY <1>2, <1>3, <1>4, <1>5 DEF DInv

\* The queries that were tried often enough stay so when the counts grow.
LEMMA TriedMore ==
    ASSUME NEW seq \in Seq(SubnetQueries), NEW more \in Nat,
           NEW a \in [Subnets -> Nat], NEW b \in [Subnets -> Nat],
           \A s \in Subnets : a[s] <= b[s], Tried(seq, a, more)
    PROVE  Tried(seq, b, more)
<1>1. ASSUME NEW i \in DOMAIN seq PROVE b[seq[i].subnet] >= seq[i].retries + more
  <2>1. seq[i] \in SubnetQueries
    BY Elements
  <2>2. seq[i].subnet \in Subnets /\ seq[i].retries \in Nat
    BY <2>1, DiscoveryAssumption DEF SubnetQueries
  <2>3. a[seq[i].subnet] >= seq[i].retries + more /\ a[seq[i].subnet] <= b[seq[i].subnet]
    BY <2>2 DEF Tried
  <2> QED BY <2>2, <2>3
<1> QED BY <1>1 DEF Tried

\* A query joins the group; a complete group is started without what has enough peers.
LEMMA ProcessQueueStep == ASSUME DInv, ProcessQueue PROVE DInv' /\ RememberStep
<1> PICK group, rest :
        group = Append(subnet_queries, Head(queued_queries)) /\ rest = Tail(queued_queries)
  OBVIOUS
<1>1. /\ phase = "Queue" /\ ~at_capacity /\ queued_queries # <<>> /\ queued_queries' = rest
      /\ UNCHANGED <<now, find_peer_active, phase>>
      /\ \/ GroupComplete(group, rest) /\ subnet_queries' = <<>> /\ StartSubnetQuery(group)
         \/ /\ ~GroupComplete(group, rest) /\ subnet_queries' = group
            /\ UNCHANGED <<active_queries, attempts>>
  BY DEF ProcessQueue
<1>2. /\ DiscoveryTypeOK /\ QueuedOnce /\ OneSearch /\ SubnetQueriesLimited /\ RetriesCounted
      /\ queued_queries \in Seq(SubnetQueries) /\ subnet_queries \in Seq(SubnetQueries)
      /\ active_queries \in Seq(Seq(SubnetQueries))
      /\ attempts \in [Subnets -> 0 .. MAX_DISCOVERY_RETRY + 1] /\ MAX_DISCOVERY_RETRY \in Nat
  BY DiscoveryAssumption DEF DInv, DiscoveryTypeOK
<1>3. /\ Len(queued_queries) \in Nat \ {0} /\ DOMAIN queued_queries = 1 .. Len(queued_queries)
      /\ Head(queued_queries) \in SubnetQueries /\ Head(queued_queries) = queued_queries[1]
      /\ rest \in Seq(SubnetQueries) /\ DOMAIN rest = 1 .. Len(queued_queries) - 1
      /\ \A i \in 1 .. Len(queued_queries) - 1 : rest[i] = queued_queries[i + 1]
  BY <1>1, <1>2, Elements
<1>4. /\ group \in Seq(SubnetQueries) /\ Len(subnet_queries) \in Nat
      /\ DOMAIN group = 1 .. Len(subnet_queries) + 1
      /\ DOMAIN subnet_queries = 1 .. Len(subnet_queries)
      /\ group[Len(subnet_queries) + 1] = Head(queued_queries)
      /\ \A i \in 1 .. Len(subnet_queries) : group[i] = subnet_queries[i]
  BY <1>2, <1>3, Elements
<1>5. ASSUME NEW i \in DOMAIN rest PROVE i + 1 \in DOMAIN queued_queries /\ rest[i] = queued_queries[i + 1]
  BY <1>3
<1>6. QueuedOnce'
  <2>1. ASSUME NEW i \in DOMAIN rest, NEW j \in DOMAIN rest, rest[i].subnet = rest[j].subnet
        PROVE  i = j
    <3>1. i + 1 = j + 1
      <4>1. /\ i + 1 \in DOMAIN queued_queries /\ rest[i] = queued_queries[i + 1]
            /\ j + 1 \in DOMAIN queued_queries /\ rest[j] = queued_queries[j + 1]
        BY <1>5
      <4> QED BY <1>2, <2>1, <4>1 DEF QueuedOnce
    <3> QED BY <1>3, <3>1
  <2> QED BY <1>1, <2>1 DEF QueuedOnce
<1>7. Tried(rest, attempts, 0)
  BY <1>2, <1>5 DEF RetriesCounted, Tried
<1>8. Tried(group, attempts, 0)
  <2>1. ASSUME NEW i \in DOMAIN group PROVE attempts[group[i].subnet] >= group[i].retries + 0
    <3>1. CASE i = Len(subnet_queries) + 1
      <4>1. 1 \in DOMAIN queued_queries
        BY <1>3
      <4>2. attempts[queued_queries[1].subnet] >= queued_queries[1].retries + 0
        BY <1>2, <4>1 DEF RetriesCounted, Tried
      <4> QED BY <1>3, <1>4, <3>1, <4>2
    <3>2. CASE i # Len(subnet_queries) + 1
      <4>1. i \in DOMAIN subnet_queries /\ group[i] = subnet_queries[i]
        BY <1>4, <3>2
      <4> QED BY <1>2, <4>1 DEF RetriesCounted, Tried
    <3> QED BY <3>1, <3>2
  <2> QED BY <2>1 DEF Tried
<1>9. find_peer_active' \in BOOLEAN
  BY <1>1, <1>2 DEF DiscoveryTypeOK
<1>10. RememberStep
  BY DEF RememberStep, DroppedFor
<1>11. CASE /\ ~GroupComplete(group, rest) /\ subnet_queries' = group
            /\ UNCHANGED <<active_queries, attempts>>
  <2>1. DiscoveryTypeOK'
    BY <1>1, <1>2, <1>3, <1>4, <1>9, <1>11 DEF DiscoveryTypeOK
  <2>2. OneSearch' /\ SubnetQueriesLimited'
    BY <1>1, <1>2, <1>11 DEF OneSearch, SubnetQueriesLimited
  <2>3. CollectedIsStarted'
    BY <1>1, <1>11 DEF CollectedIsStarted, GroupComplete, at_capacity, ActiveSubnetQueries
  <2>4. RetriesCounted'
    BY <1>1, <1>2, <1>7, <1>8, <1>11 DEF RetriesCounted
  <2> QED BY <1>6, <1>10, <2>1, <2>2, <2>3, <2>4 DEF DInv
<1>12. CASE subnet_queries' = <<>> /\ StartSubnetQuery(group)
  <2> DEFINE Needed(enough) == Retain(group, {q \in SubnetQueries : q.subnet \notin enough})
  <2>1. PICK enough \in SUBSET {group[i].subnet : i \in DOMAIN group} :
            /\ active_queries' = IF Needed(enough) = <<>> THEN active_queries
                                 ELSE Append(active_queries, Needed(enough))
            /\ attempts' = [s \in Subnets |->
                   IF \E i \in DOMAIN Needed(enough) : Needed(enough)[i].subnet = s
                   THEN CountedTo(attempts[s] + 1) ELSE attempts[s]]
    BY <1>12 DEF StartSubnetQuery
  <2> PICK wanted : wanted = {q \in SubnetQueries : q.subnet \notin enough}
    OBVIOUS
  <2> PICK needed : needed = Needed(enough)
    OBVIOUS
  <2>2. /\ active_queries' = IF needed = <<>> THEN active_queries
                             ELSE Append(active_queries, needed)
        /\ attempts' = [s \in Subnets |->
               IF Within(needed, s) THEN CountedTo(attempts[s] + 1) ELSE attempts[s]]
        /\ needed = Retain(group, wanted)
    BY <2>1 DEF Within
  <2> HIDE DEF Needed
  <2>3. Retained(group, wanted, Len(group), needed)
    BY <1>4, <2>2, RetainProperties
  <2>4. /\ needed \in Seq(SubnetQueries)
        /\ \A i \in DOMAIN needed : \E j \in DOMAIN group : needed[i] = group[j]
    <3>1. DOMAIN group = 1 .. Len(group)
      BY <1>4, Elements
    <3>2. needed \in Seq(SubnetQueries)
      BY <2>3 DEF Retained
    <3>3. \A i \in DOMAIN needed : \E j \in 1 .. Len(group) : needed[i] = group[j]
      BY <2>3 DEF Retained
    <3> QED BY <3>1, <3>2, <3>3
  <2>5. ASSUME NEW s \in Subnets
        PROVE  /\ attempts[s] \in Nat /\ attempts'[s] \in 0 .. MAX_DISCOVERY_RETRY + 1
               /\ attempts[s] <= attempts'[s]
               /\ Within(needed, s) /\ attempts[s] <= MAX_DISCOVERY_RETRY
                      => attempts'[s] = attempts[s] + 1
               /\ Within(needed, s) /\ attempts[s] > MAX_DISCOVERY_RETRY
                      => attempts'[s] = MAX_DISCOVERY_RETRY + 1
    <3>1. attempts[s] \in 0 .. MAX_DISCOVERY_RETRY + 1
      BY <1>2
    <3>2. CASE Within(needed, s)
      <4>1. attempts'[s] = IF attempts[s] + 1 > MAX_DISCOVERY_RETRY THEN MAX_DISCOVERY_RETRY + 1
                           ELSE attempts[s] + 1
        BY <2>2, <3>2 DEF CountedTo
      <4> QED BY <1>2, <3>1, <4>1
    <3>3. CASE ~Within(needed, s)
      <4>1. attempts'[s] = attempts[s]
        BY <2>2, <3>3
      <4> QED BY <1>2, <3>1, <3>3, <4>1
    <3> QED BY <3>2, <3>3
  <2>6. /\ attempts' \in [Subnets -> 0 .. MAX_DISCOVERY_RETRY + 1]
        /\ attempts \in [Subnets -> Nat] /\ attempts' \in [Subnets -> Nat]
    <3>1. attempts' = [s \in Subnets |-> attempts'[s]]
      BY <2>2
    <3>2. 0 .. MAX_DISCOVERY_RETRY + 1 \subseteq Nat
      BY <1>2
    <3> QED BY <1>2, <2>5, <3>1, <3>2
  <2>7. Tried(needed, attempts', 1)
    <3>1. ASSUME NEW i \in DOMAIN needed
          PROVE  attempts'[needed[i].subnet] >= needed[i].retries + 1
      <4>1. needed[i] \in SubnetQueries
        BY <2>4, Elements
      <4>2. /\ needed[i].subnet \in Subnets /\ needed[i].retries \in Nat
            /\ needed[i].retries <= MAX_DISCOVERY_RETRY
        BY <1>2, <4>1 DEF SubnetQueries
      <4>3. Within(needed, needed[i].subnet)
        BY DEF Within
      <4>4. attempts[needed[i].subnet] >= needed[i].retries + 0
        BY <1>8, <2>4 DEF Tried
      <4>5. PICK s \in Subnets, r \in Nat : s = needed[i].subnet /\ r = needed[i].retries
        BY <4>2
      <4>6. /\ attempts[s] \in Nat /\ attempts'[s] \in 0 .. MAX_DISCOVERY_RETRY + 1
            /\ attempts[s] <= MAX_DISCOVERY_RETRY => attempts'[s] = attempts[s] + 1
            /\ attempts[s] > MAX_DISCOVERY_RETRY => attempts'[s] = MAX_DISCOVERY_RETRY + 1
        BY <2>5, <4>3, <4>5
      <4>7. r <= MAX_DISCOVERY_RETRY /\ attempts[s] >= r + 0
        BY <4>2, <4>4, <4>5
      <4>8. attempts'[s] >= r + 1
        BY <1>2, <4>6, <4>7
      <4> QED BY <4>5, <4>8
    <3> QED BY <3>1 DEF Tried
  <2> PICK n : n = Len(active_queries)
    OBVIOUS
  <2>8. /\ n \in Nat /\ DOMAIN active_queries = 1 .. n
        /\ \A k \in 1 .. n : active_queries[k] \in Seq(SubnetQueries)
    BY <1>2, Elements
  <2>9. ASSUME NEW k \in 1 .. n PROVE Tried(active_queries[k], attempts', 1)
    <3>1. Tried(active_queries[k], attempts, 1)
      BY <1>2, <2>8 DEF RetriesCounted
    <3> QED BY <2>5, <2>6, <2>8, <3>1, TriedMore
  <2>10. Tried(rest, attempts', 0)
    BY <1>3, <1>7, <2>5, <2>6, TriedMore
  <2>11. CollectedIsStarted' /\ Tried(subnet_queries', attempts', 0)
         /\ subnet_queries' \in Seq(SubnetQueries)
    <3>1. DOMAIN <<>> = {} /\ <<>> \in Seq(SubnetQueries)
      BY EmptySeq
    <3> QED BY <1>12, <3>1 DEF CollectedIsStarted, Tried
  <2>12. CASE needed = <<>>
    <3>1. active_queries' = active_queries
      BY <2>2, <2>12
    <3>2. DiscoveryTypeOK'
      BY <1>1, <1>2, <1>3, <1>9, <2>6, <2>11, <3>1 DEF DiscoveryTypeOK
    <3>3. OneSearch' /\ SubnetQueriesLimited'
      BY <1>1, <1>2, <3>1 DEF OneSearch, SubnetQueriesLimited
    <3>4. RetriesCounted'
      BY <1>1, <2>8, <2>9, <2>10, <2>11, <3>1 DEF RetriesCounted
    <3> QED BY <1>6, <1>10, <2>11, <3>2, <3>3, <3>4 DEF DInv
  <2>13. CASE needed # <<>>
    <3>1. active_queries' = Append(active_queries, needed)
      BY <2>2, <2>13
    <3>2. /\ active_queries' \in Seq(Seq(SubnetQueries)) /\ Len(active_queries') = n + 1
          /\ DOMAIN active_queries' = 1 .. n + 1 /\ active_queries'[n + 1] = needed
          /\ \A k \in 1 .. n : active_queries'[k] = active_queries[k]
      BY <1>2, <2>4, <3>1, Elements
    <3>3. DiscoveryTypeOK'
      BY <1>1, <1>2, <1>3, <1>9, <2>6, <2>11, <3>2 DEF DiscoveryTypeOK
    <3>4. \A k \in 1 .. n + 1 : k = n + 1 \/ k \in 1 .. n
      BY <2>8
    <3>5. 1 .. n \subseteq 1 .. n + 1
      BY <2>8
    <3>6. OneSearch'
      BY <1>1, <1>2, <2>8, <2>13, <3>2, <3>4, <3>5 DEF OneSearch, FindPeers
    <3>7. SubnetQueriesLimited'
      BY <1>1, <1>2, <3>2, BelowCapacity DEF SubnetQueriesLimited
    <3>8. RetriesCounted'
      BY <1>1, <2>7, <2>9, <2>10, <2>11, <3>2, <3>4 DEF RetriesCounted
    <3> QED BY <1>6, <1>10, <2>11, <3>3, <3>6, <3>7, <3>8 DEF DInv
  <2> QED BY <2>12, <2>13
<1> QED BY <1>1, <1>11, <1>12

\* A query leaves the running ones: what its end does to all but the queue.
LEMMA QueryRemoved ==
    ASSUME DInv, NEW i \in DOMAIN active_queries, NEW found, SearchEnded(i, found),
           active_queries' = Without(active_queries, i)
    PROVE  /\ active_queries' \in Seq(Seq(SubnetQueries)) /\ find_peer_active' \in BOOLEAN
           /\ OneSearch' /\ SubnetQueriesLimited'
           /\ \A k \in DOMAIN active_queries' :
                  \E j \in DOMAIN active_queries : active_queries'[k] = active_queries[j]
           /\ \A j \in DOMAIN active_queries : j # i =>
                  \E k \in DOMAIN active_queries' : active_queries'[k] = active_queries[j]
<1> PICK n : n = Len(active_queries)
  OBVIOUS
<1>1. /\ active_queries \in Seq(Seq(SubnetQueries)) /\ n \in Nat
      /\ DOMAIN active_queries = 1 .. n /\ i \in 1 .. n
      /\ OneSearch /\ SubnetQueriesLimited
  BY Elements DEF DInv, DiscoveryTypeOK
<1>2. /\ active_queries' \in Seq(Seq(SubnetQueries)) /\ Len(active_queries') = n - 1
      /\ \A j \in 1 .. n - 1 :
             active_queries'[j] = IF j < i THEN active_queries[j] ELSE active_queries[j + 1]
  BY <1>1, WithoutProperties
<1>3. DOMAIN active_queries' = 1 .. n - 1
  BY <1>2, LenProperties
<1>4. ASSUME NEW k \in 1 .. n - 1
      PROVE  \E j \in 1 .. n : /\ j # i /\ active_queries'[k] = active_queries[j]
                               /\ j = IF k < i THEN k ELSE k + 1
  <2>1. CASE k < i
    BY <1>1, <1>2, <2>1
  <2>2. CASE ~(k < i)
    <3>1. k + 1 \in 1 .. n /\ k + 1 # i
      BY <1>1, <2>2
    <3> QED BY <1>2, <2>2, <3>1
  <2> QED BY <2>1, <2>2
<1>5. ASSUME NEW j \in 1 .. n, j # i
      PROVE  \E k \in 1 .. n - 1 : active_queries'[k] = active_queries[j]
  <2>1. CASE j < i
    <3>1. j \in 1 .. n - 1
      BY <1>1, <2>1
    <3> QED BY <1>2, <2>1, <3>1
  <2>2. CASE j > i
    <3>1. j - 1 \in 1 .. n - 1 /\ ~(j - 1 < i) /\ (j - 1) + 1 = j
      BY <1>1, <2>2
    <3> QED BY <1>2, <3>1
  <2> QED BY <1>1, <1>5, <2>1, <2>2
<1>6. find_peer_active' \in BOOLEAN
      /\ (find_peer_active' <=> find_peer_active /\ active_queries[i] # FindPeers)
  BY DEF SearchEnded
<1>7. \A k, l \in 1 .. n - 1 :
          active_queries'[k] = FindPeers /\ active_queries'[l] = FindPeers => k = l
  <2>1. ASSUME NEW k \in 1 .. n - 1, NEW l \in 1 .. n - 1,
               active_queries'[k] = FindPeers, active_queries'[l] = FindPeers
        PROVE  k = l
    <3>1. PICK a \in 1 .. n : active_queries'[k] = active_queries[a] /\ a = IF k < i THEN k ELSE k + 1
      BY <1>4
    <3>2. PICK b \in 1 .. n : active_queries'[l] = active_queries[b] /\ b = IF l < i THEN l ELSE l + 1
      BY <1>4
    <3>3. a = b
      BY <1>1, <2>1, <3>1, <3>2 DEF OneSearch
    <3> QED BY <1>1, <3>1, <3>2, <3>3
  <2> QED BY <2>1
<1>8. OneSearch'
  <2>1. ASSUME find_peer_active' PROVE \E k \in 1 .. n - 1 : active_queries'[k] = FindPeers
    <3>1. PICK j \in 1 .. n : active_queries[j] = FindPeers
      BY <1>1, <1>6, <2>1 DEF OneSearch
    <3>2. j # i
      BY <1>6, <2>1, <3>1
    <3> QED BY <1>5, <3>1, <3>2
  <2>2. ASSUME ~find_peer_active', NEW k \in 1 .. n - 1 PROVE active_queries'[k] # FindPeers
    <3>1. PICK j \in 1 .. n : j # i /\ active_queries'[k] = active_queries[j]
      BY <1>4
    <3>2. CASE ~find_peer_active
      BY <1>1, <3>1, <3>2 DEF OneSearch
    <3>3. CASE active_queries[i] = FindPeers
      BY <1>1, <3>1, <3>3 DEF OneSearch
    <3> QED BY <1>6, <2>2, <3>2, <3>3
  <2> QED BY <1>3, <1>7, <2>1, <2>2 DEF OneSearch
<1>9. SubnetQueriesLimited'
  <2>1. MAX_CONCURRENT_SUBNET_QUERIES \in Nat
    BY DiscoveryAssumption
  <2>2. CASE find_peer_active'
    <3>1. find_peer_active
      BY <1>6, <2>2
    <3>2. n <= MAX_CONCURRENT_SUBNET_QUERIES + 1
      BY <1>1, <3>1 DEF SubnetQueriesLimited
    <3>3. n - 1 <= MAX_CONCURRENT_SUBNET_QUERIES + 1
      BY <1>1, <2>1, <3>2
    <3> QED BY <1>2, <2>2, <3>3 DEF SubnetQueriesLimited
  <2>3. CASE ~find_peer_active'
    <3>1. n <= MAX_CONCURRENT_SUBNET_QUERIES + 1 \/ n <= MAX_CONCURRENT_SUBNET_QUERIES + 0
      BY <1>1 DEF SubnetQueriesLimited
    <3>2. n - 1 <= MAX_CONCURRENT_SUBNET_QUERIES + 0
      BY <1>1, <2>1, <3>1
    <3> QED BY <1>2, <2>3, <3>2 DEF SubnetQueriesLimited
  <2> QED BY <2>2, <2>3
<1>10. \A k \in DOMAIN active_queries' :
           \E j \in DOMAIN active_queries : active_queries'[k] = active_queries[j]
  BY <1>1, <1>3, <1>4, Zenon
<1>11. \A j \in DOMAIN active_queries : j # i =>
           \E k \in DOMAIN active_queries' : active_queries'[k] = active_queries[j]
  BY <1>1, <1>3, <1>5, Zenon
<1>12. active_queries' \in Seq(Seq(SubnetQueries)) /\ find_peer_active' \in BOOLEAN
  BY <1>2, <1>6, Zenon
<1> QED BY <1>8, <1>9, <1>10, <1>11, <1>12, Zenon

\* A query ends, with or without peers, or fails.
LEMMA CompletesStep ==
    ASSUME DInv, NEW i \in DOMAIN active_queries, Completes(i)
    PROVE  DInv' /\ RememberStep
<1>1. /\ DiscoveryTypeOK /\ QueuedOnce /\ RetriesCounted /\ CollectedIsStarted
      /\ Once(queued_queries) /\ queued_queries \in Seq(SubnetQueries)
      /\ active_queries \in Seq(Seq(SubnetQueries))
      /\ active_queries[i] \in Seq(SubnetQueries)
  BY Elements DEF DInv, QueuedOnce, Once, DiscoveryTypeOK
<1>2. ASSUME NEW found, SearchEnded(i, found), active_queries' = Without(active_queries, i),
             phase = "Queries", phase' \in {"Waiting", "Queries"},
             UNCHANGED <<now, subnet_queries, attempts>>,
             queued_queries' \in Seq(SubnetQueries), Once(queued_queries'),
             Tried(queued_queries', attempts, 0)
      PROVE  DInv'
  <2>1. /\ active_queries' \in Seq(Seq(SubnetQueries)) /\ find_peer_active' \in BOOLEAN
        /\ OneSearch' /\ SubnetQueriesLimited'
        /\ \A k \in DOMAIN active_queries' :
               \E j \in DOMAIN active_queries : active_queries'[k] = active_queries[j]
    BY <1>2, QueryRemoved
  <2>2. DiscoveryTypeOK'
    BY <1>1, <1>2, <2>1 DEF DiscoveryTypeOK
  <2>3. QueuedOnce'
    BY <1>2 DEF QueuedOnce, Once
  <2>4. CollectedIsStarted'
    BY <1>1, <1>2 DEF CollectedIsStarted
  <2>5. RetriesCounted'
    BY <1>1, <1>2, <2>1 DEF RetriesCounted
  <2> QED BY <2>1, <2>2, <2>3, <2>4, <2>5 DEF DInv
<1>3. CASE QueryFails(i)
  <2>1. DInv'
    BY <1>1, <1>2, <1>3 DEF QueryFails, RetriesCounted
  <2>2. RememberStep
    BY <1>3 DEF RememberStep, DroppedFor
  <2> QED BY <2>1, <2>2
<1>4. ASSUME NEW found \in BOOLEAN, QueryEnds(i, found) PROVE DInv' /\ RememberStep
  <2> PICK group : group = active_queries[i]
    OBVIOUS
  <2>1. /\ phase = "Queries" /\ SearchEnded(i, found)
        /\ active_queries' = Without(active_queries, i)
        /\ queued_queries' = Requeued(queued_queries, group)
        /\ phase' \in {"Waiting", "Queries"}
        /\ UNCHANGED <<now, subnet_queries, attempts>>
    BY <1>4 DEF QueryEnds
  <2>2. AddedAgain(queued_queries, group, Len(group), queued_queries')
    BY <1>1, <2>1, RequeuedProperties
  <2>3. Tried(queued_queries', attempts, 0)
    <3>1. ASSUME NEW k \in DOMAIN queued_queries'
          PROVE  attempts[queued_queries'[k].subnet] >= queued_queries'[k].retries + 0
      <4>1. queued_queries'[k] \in SubnetQueries
        BY <2>2, Elements DEF AddedAgain
      <4>2. queued_queries'[k].retries \in Nat
        BY <4>1, DiscoveryAssumption DEF SubnetQueries
      <4>3. CASE \E j \in DOMAIN queued_queries :
                     /\ queued_queries'[k].subnet = queued_queries[j].subnet
                     /\ queued_queries'[k].retries = queued_queries[j].retries
        BY <1>1, <4>3 DEF RetriesCounted, Tried
      <4>4. CASE \E j \in DOMAIN group :
                     /\ queued_queries'[k].subnet = group[j].subnet
                     /\ queued_queries'[k].retries = group[j].retries + 1
        <5>1. PICK j \in DOMAIN group : /\ queued_queries'[k].subnet = group[j].subnet
                                        /\ queued_queries'[k].retries = group[j].retries + 1
          BY <4>4
        <5>2. attempts[group[j].subnet] >= group[j].retries + 1
          BY <1>1, <5>1 DEF RetriesCounted, Tried
        <5> QED BY <4>2, <5>1, <5>2
      <4> QED BY <2>2, <4>3, <4>4 DEF AddedAgain
    <3> QED BY <3>1 DEF Tried
  <2>4. DInv'
    BY <1>2, <2>1, <2>2, <2>3 DEF AddedAgain
  <2>5. ASSUME NEW s \in Subnets, Known(s), ~Known(s)' PROVE attempts[s] > MAX_DISCOVERY_RETRY
    <3>1. /\ ~Within(queued_queries, s) /\ ~Within(subnet_queries, s)
          /\ ~Within(queued_queries', s)
          /\ \A k \in DOMAIN active_queries' : ~Within(active_queries'[k], s)
      BY <2>1, <2>2, <2>5, KnownPartsPrime DEF AddedAgain
    <3>2. PICK j \in DOMAIN active_queries : Within(active_queries[j], s)
      BY <2>5, <3>1, KnownParts
    <3>3. \A k \in DOMAIN active_queries : k # i =>
              \E l \in DOMAIN active_queries' : active_queries'[l] = active_queries[k]
      BY <2>1, QueryRemoved
    <3>4. j = i
      BY <3>1, <3>2, <3>3
    <3>5. PICK l \in DOMAIN group : group[l].subnet = s
      BY <3>2, <3>4 DEF Within
    <3>6. l \in 1 .. Len(group) /\ group[l] \in SubnetQueries
      BY <1>1, <3>5, Elements
    <3>7. ~(group[l].retries < MAX_DISCOVERY_RETRY)
      BY <2>2, <3>1, <3>5, <3>6 DEF AddedAgain
    <3>8. attempts[s] >= group[l].retries + 1
      BY <1>1, <3>5 DEF RetriesCounted, Tried
    <3>9. attempts[s] \in Nat /\ MAX_DISCOVERY_RETRY \in Nat /\ group[l].retries \in Nat
      BY <1>1, <3>6, DiscoveryAssumption DEF DiscoveryTypeOK, SubnetQueries
    <3> QED BY <3>7, <3>8, <3>9
  <2>6. RememberStep
    BY <2>5 DEF RememberStep, DroppedFor
  <2> QED BY <2>4, <2>6
<1> QED BY <1>3, <1>4 DEF Completes

\* Every step.
LEMMA DiscoveryStep ==
    ASSUME DInv, [DiscoveryNext]_discoveryVars
    PROVE  DInv' /\ [RememberStep]_discoveryVars
<1>1. CASE UNCHANGED discoveryVars
  <2>1. DInv'
    <3>1. find_peer_active' \in BOOLEAN
      BY <1>1 DEF discoveryVars, DInv, DiscoveryTypeOK
    <3> QED BY <1>1, <3>1
        DEF discoveryVars, DInv, DiscoveryTypeOK, QueuedOnce, OneSearch, SubnetQueriesLimited,
            CollectedIsStarted, RetriesCounted, at_capacity, ActiveSubnetQueries
  <2> QED BY <1>1, <2>1
<1>2. CASE DiscoveryNext
  BY <1>2, DiscoverPeersStep, DiscoverSubnetStep, QuietStep, PollBeginStep, ProcessQueueStep,
     QueueDoneStep, CompletesStep DEF DiscoveryNext
<1> QED BY <1>1, <1>2

\* What Network::new starts with.
LEMMA DiscoveryInitInv == DiscoveryInit => DInv
<1> SUFFICES ASSUME DiscoveryInit PROVE DInv
  OBVIOUS
<1>1. /\ <<>> \in Seq(SubnetQueries) /\ DOMAIN <<>> = {} /\ FindPeers \in Seq(SubnetQueries)
  BY EmptySeq DEF FindPeers
<1>2. /\ active_queries \in Seq(Seq(SubnetQueries)) /\ DOMAIN active_queries = {1}
      /\ Len(active_queries) = 1 /\ active_queries[1] = FindPeers /\ find_peer_active = TRUE
  BY <1>1 DEF DiscoveryInit
<1>3. DiscoveryTypeOK
  <2>1. find_peer_active \in BOOLEAN
    BY <1>2
  <2>2. attempts \in [Subnets -> 0 .. MAX_DISCOVERY_RETRY + 1] /\ now \in 0 .. MaxTime
    BY DiscoveryAssumption DEF DiscoveryInit
  <2> QED BY <1>1, <1>2, <2>1, <2>2 DEF DiscoveryInit, DiscoveryTypeOK
<1>4. OneSearch
  BY <1>2 DEF OneSearch
<1>5. SubnetQueriesLimited
  <2>1. 1 <= MAX_CONCURRENT_SUBNET_QUERIES + 1
    BY DiscoveryAssumption
  <2> QED BY <1>2, <2>1 DEF SubnetQueriesLimited
<1>6. QueuedOnce /\ CollectedIsStarted /\ RetriesCounted
  BY <1>1, <1>2 DEF DiscoveryInit, QueuedOnce, CollectedIsStarted, RetriesCounted, Tried, FindPeers
<1> QED BY <1>3, <1>4, <1>5, <1>6 DEF DInv

\* The inductive invariant holds.
LEMMA DInvHolds == DiscoverySpec => []DInv
<1>1. DInv /\ [DiscoveryNext]_discoveryVars => DInv'
  BY DiscoveryStep
<1> QED BY <1>1, DiscoveryInitInv, PTL DEF DiscoverySpec

\* The flag find_peer_active stands for the one search for peers, at most
\* MAX_CONCURRENT_SUBNET_QUERIES others run, and every subnet waits in the queue once,
\* whatever is requested, merged, retried, dropped or ends, for any subnets and limits.
THEOREM QueriesAlwaysConsistent == DiscoverySpec => []QueriesConsistent
<1> QED BY DInvHolds, InvConsistent, PTL

\* A requested subnet is dropped only because its request expired, it has enough peers, its
\* query failed, or it was searched for as often as the retries allow: no group that
\* process_queue collects is lost, and no retry is cut short by a new request.
THEOREM NeverForgotten == DiscoverySpec => NotForgotten
<1>1. DInv /\ [DiscoveryNext]_discoveryVars => [RememberStep]_discoveryVars
  BY DiscoveryStep
<1>2. DiscoverySpec => [][RememberStep]_discoveryVars
  BY <1>1, DInvHolds, PTL DEF DiscoverySpec
<1> QED BY <1>2 DEF NotForgotten, RememberStep, DroppedFor
=============================================================================
