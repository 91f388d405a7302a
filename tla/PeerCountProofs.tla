-------------------------- MODULE PeerCountProofs --------------------------
(***************************************************************************)
(* Proofs about PeerCount, for any peers, profiles, subnets, target and    *)
(* factors: prune_excess_peers undercuts none of its minima, takes and     *)
(* spares peers for a reason, and without peers for a duty the number of   *)
(* peers to search for does not wrap around.                               *)
(***************************************************************************)
EXTENDS PeerCount, FiniteSetTheorems, TLAPS

\* What holds of the locals before the third step of prune_excess_peers.
Ungrouped ==
    /\ prune = "Idle" => peers_to_prune = {}
    /\ prune \in {"Idle", "Score", "NoSubnet"} =>
           /\ \A s \in AttSubnets : subnet_to_peer[s] = {}
           /\ \A c \in SyncSubnets : sync_at_first[c] = 0

\* The lists of the third step hold no pruned peer, and its counts are those of the
\* peers that remain.
Grouping ==
    /\ \A s \in AttSubnets : subnet_to_peer[s] \subseteq Remaining
    /\ prune = "Grouped" =>
           \A c \in SyncSubnets : sync_committee_peer_count[c] = OnCommittee(c, Remaining)

\* What a step has left nothing of, later steps leave nothing of.
StepsDone ==
    /\ prune \in {"NoSubnet", "Grouped"} => Negative = {}
    /\ prune = "Grouped" => WithoutSubnet = {}

\* The first two steps take no peer with a duty, the third does when they are done.
DutyInv ==
    (\E p \in peers_to_prune : info[p].duty) =>
        /\ prune \in {"Grouped", "Disconnect"}
        /\ Negative = {} /\ WithoutSubnet = {}

\* A peer that remains is still on a list of the third step, or is left for a reason.
Kept(p) ==
    \/ ~SparesOutbound(info[p])
    \/ ~SparesCommittees(info[p])
    \/ /\ long_lived_attnets(info[p]) = {}
       /\ info[p].duty \/ OnSubnets(info[p]) \/ StaleEnr(info[p])

Listed(p) == \E s \in AttSubnets : p \in subnet_to_peer[s]

ListedOrKept == prune = "Grouped" => \A p \in Remaining : Listed(p) \/ Kept(p)

\* Whom has_long_lived_subnet spares.
LEMMA SparedForSubnets ==
    ASSUME NEW i, has_long_lived_subnet(i)
    PROVE  OnSubnets(i) \/ StaleEnr(i)
BY DEF has_long_lived_subnet, OnSubnets, StaleEnr, long_lived_attnets

\* The inductive invariant.
PInv ==
    /\ PruningSafe
    /\ Ungrouped
    /\ Grouping
    /\ StepsDone
    /\ DutyInv
    /\ ListedOrKept
    /\ StopsForAReason

-----------------------------------------------------------------------------
(* Counting.                                                               *)

\* The parts of a finite set of peers can be counted.
LEMMA PeersCounted ==
    ASSUME NEW S \in SUBSET Peers
    PROVE  IsFiniteSet(S) /\ Cardinality(S) \in 0 .. Cardinality(Peers)
           /\ Cardinality(Peers) \in Nat
BY FS_Subset, FS_CardinalityType, PeerCountAssumption

\* The limits are natural numbers.
LEMMA LimitsTyped ==
    /\ max_peers \in Nat /\ max_outbound_dialing_peers \in Nat
    /\ max_priority_peers \in Nat
    /\ target_outbound_peers \in Nat /\ min_outbound_only_peers \in Nat
<1>1. ASSUME NEW n \in Nat PROVE OfTarget(n) \in Nat
  BY <1>1, PeerCountAssumption DEF OfTarget
<1>2. PRIORITY_PEER_EXCESS \div 2 \in Nat
  BY PeerCountAssumption
<1> QED
  BY <1>1, <1>2, PeerCountAssumption DEF max_peers, max_outbound_dialing_peers,
     max_priority_peers, target_outbound_peers, min_outbound_only_peers

\* The number of peers that remain is what pruning has left.
LEMMA RemainingCounted ==
    ASSUME PeerCountTypeOK
    PROVE  /\ Cardinality(connected) \in Nat /\ Cardinality(peers_to_prune) \in Nat
           /\ Cardinality(Remaining) = Cardinality(connected) - Cardinality(peers_to_prune)
           /\ OutboundCount \in Nat /\ outbound_peers_pruned \in Nat
           /\ Cardinality(OutboundOnly(Remaining)) = OutboundCount - outbound_peers_pruned
           /\ Excess \in Nat
<1>1. connected \in SUBSET Peers /\ peers_to_prune \in SUBSET connected
  BY DEF PeerCountTypeOK
<1>2. IsFiniteSet(connected) /\ IsFiniteSet(peers_to_prune)
      /\ Cardinality(connected) \in Nat /\ Cardinality(peers_to_prune) \in Nat
  BY <1>1, PeersCounted
<1>3. Cardinality(Remaining) = Cardinality(connected) - Cardinality(peers_to_prune)
  <2>1. connected \cap peers_to_prune = peers_to_prune
    BY <1>1
  <2> QED
    BY <1>2, <2>1, FS_Difference DEF Remaining
<1>4. PICK O : O = OutboundOnly(connected)
  OBVIOUS
<1>5. PICK Q : Q = OutboundOnly(peers_to_prune)
  OBVIOUS
<1>6. Q \in SUBSET O /\ O \in SUBSET Peers /\ Q \in SUBSET Peers
  BY <1>1, <1>4, <1>5 DEF OutboundOnly
<1>7. OutboundOnly(Remaining) = O \ Q /\ O \cap Q = Q
  BY <1>1, <1>4, <1>5 DEF OutboundOnly, Remaining
<1>8. IsFiniteSet(O) /\ IsFiniteSet(Q) /\ Cardinality(O) \in Nat /\ Cardinality(Q) \in Nat
  BY <1>6, PeersCounted
<1>9. Cardinality(O \ Q) = Cardinality(O) - Cardinality(O \cap Q)
  BY <1>8, FS_Difference
<1>10. OutboundCount = Cardinality(O) /\ outbound_peers_pruned = Cardinality(Q)
  BY <1>4, <1>5 DEF OutboundCount, PeerCountTypeOK
<1>11. Excess \in Nat
  BY <1>2, PeerCountAssumption DEF Excess, SaturatingSub
<1> QED
  BY <1>2, <1>3, <1>7, <1>8, <1>9, <1>10, <1>11

\* The peers on a committee, with one peer more or less.
LEMMA CommitteeWithout ==
    ASSUME NEW S \in SUBSET Peers, NEW p \in S, NEW c
    PROVE  /\ OnCommittee(c, S) \in 0 .. Cardinality(Peers)
           /\ OnCommittee(c, S \ {p}) =
                  IF c \in info[p].syncnets THEN OnCommittee(c, S) - 1 ELSE OnCommittee(c, S)
           /\ c \in info[p].syncnets => OnCommittee(c, S) > 0
<1>1. PICK T : T = {q \in S : c \in info[q].syncnets}
  OBVIOUS
<1>2. T \in SUBSET Peers /\ OnCommittee(c, S) = Cardinality(T)
  BY <1>1 DEF OnCommittee
<1>3. IsFiniteSet(T) /\ Cardinality(T) \in 0 .. Cardinality(Peers)
      /\ Cardinality(Peers) \in Nat
  BY <1>2, PeersCounted
<1>4. CASE c \in info[p].syncnets
  <2>1. p \in T /\ {q \in S \ {p} : c \in info[q].syncnets} = T \ {p}
    BY <1>1, <1>4
  <2>2. Cardinality(T \ {p}) = Cardinality(T) - 1
    BY <1>3, <2>1, FS_RemoveElement
  <2>3. Cardinality(T \ {p}) \in Nat
    BY <1>3, FS_RemoveElement, FS_CardinalityType
  <2>4. OnCommittee(c, S \ {p}) = Cardinality(T \ {p})
    BY <2>1 DEF OnCommittee
  <2> QED
    BY <1>2, <1>3, <1>4, <2>2, <2>3, <2>4
<1>5. CASE c \notin info[p].syncnets
  <2>1. {q \in S \ {p} : c \in info[q].syncnets} = T
    BY <1>1, <1>5
  <2>2. OnCommittee(c, S \ {p}) = Cardinality(T)
    BY <2>1 DEF OnCommittee
  <2> QED
    BY <1>2, <1>3, <1>5, <2>2
<1> QED
  BY <1>4, <1>5

\* A committee's peers can be counted.
LEMMA CommitteeCounted ==
    ASSUME NEW S \in SUBSET Peers, NEW c
    PROVE  OnCommittee(c, S) \in 0 .. Cardinality(Peers)
<1>1. PICK T : T = {q \in S : c \in info[q].syncnets}
  OBVIOUS
<1>2. T \in SUBSET Peers /\ OnCommittee(c, S) = Cardinality(T)
  BY <1>1 DEF OnCommittee
<1> QED
  BY <1>2, PeersCounted

-----------------------------------------------------------------------------
(* Between two runs of prune_excess_peers.                                 *)

\* Initially nobody is connected.
LEMMA PInitInv == PeerCountInit => PInv
<1> SUFFICES ASSUME PeerCountInit PROVE PInv
  OBVIOUS
<1>1. connected = {} /\ Remaining = {} /\ prune = "Idle" /\ peers_to_prune = {}
  BY DEF PeerCountInit, Remaining, connected
<1>2. OutboundOnly(Remaining) = {} /\ OutboundOnly(connected) = {}
      /\ OutboundOnly(peers_to_prune) = {}
  BY <1>1 DEF OutboundOnly
<1>3. Cardinality({}) = 0 /\ Cardinality(Peers) \in Nat
  BY FS_EmptySet, FS_CardinalityType, PeerCountAssumption
<1>4. PeerCountTypeOK
  <2>1. 0 \in 0 .. Cardinality(Peers)
    BY <1>3
  <2>2. subnet_to_peer \in [AttSubnets -> SUBSET connected]
        /\ sync_committee_peer_count \in [SyncSubnets -> 0 .. Cardinality(Peers)]
        /\ sync_at_first \in [SyncSubnets -> 0 .. Cardinality(Peers)]
    BY <2>1 DEF PeerCountInit
  <2>3. outbound_peers_pruned = Cardinality(OutboundOnly(peers_to_prune))
    BY <1>2, <1>3 DEF PeerCountInit
  <2>4. dialing = {} /\ peers_to_dial = {}
    BY DEF PeerCountInit
  <2> QED
    BY <1>1, <2>2, <2>3, <2>4 DEF PeerCountTypeOK
<1>5. OutboundKept
  BY <1>2, <1>3, LimitsTyped DEF OutboundKept, AtLeast, OutboundCount
<1>6. PruningSafe
  BY <1>1, <1>4, <1>5 DEF PruningSafe, NeverBelowTarget, CommitteesKept
<1>7. Ungrouped /\ Grouping
  BY <1>1 DEF Ungrouped, Grouping, PeerCountInit
<1>8. StepsDone /\ DutyInv /\ ListedOrKept /\ StopsForAReason
  BY <1>1 DEF StepsDone, DutyInv, ListedOrKept, StopsForAReason
<1> QED
  BY <1>6, <1>7, <1>8 DEF PInv

\* Whatever happens to the connections while nothing is pruned; a heartbeat that finds
\* more peers than the target begins the first step.
LEMMA IdleStep ==
    ASSUME PInv, prune = "Idle", UNCHANGED localVars,
           connected' \subseteq Peers, \A p \in connected' : info'[p] \in Profiles,
           dialing' \subseteq Peers \ connected', peers_to_dial' \subseteq Peers,
           \/ prune' = "Idle"
           \/ prune' = "Score" /\ info' = info /\ Cardinality(connected) > TargetPeers
    PROVE  PInv'
<1>1. peers_to_prune = {} /\ peers_to_prune' = {} /\ Remaining' = connected'
      /\ Remaining = connected
  BY DEF PInv, Ungrouped, localVars, Remaining
<1>2. outbound_peers_pruned' = Cardinality(OutboundOnly(peers_to_prune))'
  <2>1. OutboundOnly(peers_to_prune)' = {} /\ OutboundOnly(peers_to_prune) = {}
    BY <1>1 DEF OutboundOnly
  <2> QED
    BY <2>1 DEF localVars, PInv, PruningSafe, PeerCountTypeOK
<1>3. PeerCountTypeOK'
  <2>1. subnet_to_peer' \in [AttSubnets -> SUBSET connected']
    <3>1. subnet_to_peer \in [AttSubnets -> SUBSET connected]
          /\ \A s \in AttSubnets : subnet_to_peer[s] = {}
      BY DEF PInv, PruningSafe, PeerCountTypeOK, Ungrouped
    <3> QED
      BY <3>1 DEF localVars
  <2> QED
    BY <1>1, <1>2, <2>1 DEF PeerCountTypeOK, PInv, PruningSafe, localVars
<1>4. OutboundKept'
  <2>1. PICK O : O = OutboundOnly(connected)'
    OBVIOUS
  <2>2. O \in SUBSET Peers
    BY <2>1 DEF OutboundOnly
  <2>3. Cardinality(O) \in Nat
    BY <2>2, PeersCounted
  <2>4. OutboundCount' = Cardinality(O) /\ Cardinality(OutboundOnly(Remaining))' = Cardinality(O)
    BY <1>1, <2>1 DEF OutboundCount, OutboundOnly
  <2> QED
    BY <2>3, <2>4, LimitsTyped DEF OutboundKept, AtLeast
<1>5. NeverBelowTarget'
  <2>1. CASE prune' = "Idle"
    BY <2>1 DEF NeverBelowTarget
  <2>2. CASE info' = info /\ Cardinality(connected) > TargetPeers
    <3>1. Remaining' = connected
      BY <1>1, <2>2 DEF connected
    <3>2. Cardinality(connected) \in Nat
      BY RemainingCounted DEF PInv, PruningSafe
    <3> QED
      BY <2>2, <3>1, <3>2, PeerCountAssumption DEF NeverBelowTarget
  <2> QED
    BY <2>1, <2>2
<1>6. PruningSafe'
  BY <1>3, <1>4, <1>5 DEF PruningSafe, CommitteesKept
<1>7. Ungrouped' /\ Grouping'
  BY <1>1 DEF Ungrouped, Grouping, PInv, localVars
<1>8. StepsDone' /\ DutyInv' /\ ListedOrKept' /\ StopsForAReason'
  BY <1>1 DEF StepsDone, DutyInv, ListedOrKept, StopsForAReason
<1> QED
  BY <1>6, <1>7, <1>8 DEF PInv

\* The handlers that change the connections and the dials.
Unpruned ==
    \/ \E results \in Answers : \E priority \in {{}, results} :
           peers_discovered(results, priority)
    \/ \E p \in Peers : Dial(p) \/ DialFails(p) \/ ConnectionClosed(p)
    \/ \E p \in Peers : \E i \in Profiles :
           ConnectionEstablished(p, i) \/ PeerChanges(p, i)
    \/ heartbeat

\* Each of them keeps the invariant.
LEMMA UnprunedInv == ASSUME PInv, Unpruned PROVE PInv'
<1> USE DEF connected
<1>1. PeerCountTypeOK
  BY DEF PInv, PruningSafe
<1>2. ASSUME NEW results \in Answers, NEW priority \in {{}, results},
             peers_discovered(results, priority)
      PROVE  PInv'
  <2>1. PICK dials \in Dialed(results, priority) : peers_to_dial' = peers_to_dial \cup dials
    BY <1>2 DEF peers_discovered
  <2>2. dials \subseteq Peers
    BY <2>1 DEF Dialed, Answers
  <2> QED
    BY <1>1, <1>2, <2>1, <2>2, IdleStep DEF peers_discovered, PeerCountTypeOK
<1>3. ASSUME NEW p \in Peers, Dial(p) PROVE PInv'
  BY <1>1, <1>3, IdleStep DEF Dial, PeerCountTypeOK
<1>4. ASSUME NEW p \in Peers, DialFails(p) PROVE PInv'
  BY <1>1, <1>4, IdleStep DEF DialFails, PeerCountTypeOK
<1>5. ASSUME NEW p \in Peers, ConnectionClosed(p) PROVE PInv'
  BY <1>1, <1>5, IdleStep DEF ConnectionClosed, PeerCountTypeOK
<1>6. ASSUME NEW p \in Peers, NEW i \in Profiles, ConnectionEstablished(p, i) PROVE PInv'
  BY <1>1, <1>6, IdleStep DEF ConnectionEstablished, PeerCountTypeOK
<1>7. ASSUME NEW p \in Peers, NEW i \in Profiles, PeerChanges(p, i) PROVE PInv'
  BY <1>1, <1>7, IdleStep DEF PeerChanges, PeerCountTypeOK
<1>8. ASSUME heartbeat PROVE PInv'
  <2>1. PICK timed_out \in SUBSET dialing : dialing' = dialing \ timed_out
    BY <1>8 DEF heartbeat
  <2>2. Cardinality(connected) \in Nat /\ TargetPeers \in Nat
    BY <1>1, RemainingCounted, PeerCountAssumption
  <2>3. prune' = "Idle" \/ (prune' = "Score" /\ Cardinality(connected) > TargetPeers)
    BY <1>8, <2>2 DEF heartbeat
  <2> QED
    BY <1>1, <1>8, <2>1, <2>3, IdleStep DEF heartbeat, PeerCountTypeOK
<1> QED
  BY <1>2, <1>3, <1>4, <1>5, <1>6, <1>7, <1>8 DEF Unpruned

-----------------------------------------------------------------------------
(* The steps of prune_excess_peers.                                        *)

\* What pruning one peer does, whichever step chose it.
LEMMA PruneEffect ==
    ASSUME PeerCountTypeOK, OutboundKept, UNCHANGED countVars,
           NEW p \in Remaining, ~Full, SparesOutbound(info[p]), Prune(p)
    PROVE  /\ Remaining' = Remaining \ {p} /\ peers_to_prune' = peers_to_prune \cup {p}
           /\ connected' = connected
           /\ outbound_peers_pruned' = Cardinality(OutboundOnly(peers_to_prune))'
           /\ Cardinality(Remaining)' >= TargetPeers
           /\ OutboundKept'
           /\ \A q \in connected : SparesOutbound(info[q])' => SparesOutbound(info[q])
<1> DEFINE more == IF info[p].outbound THEN 1 ELSE 0
<1>1. info' = info /\ connected' = connected /\ peers_to_prune' = peers_to_prune \cup {p}
      /\ outbound_peers_pruned' = outbound_peers_pruned + more
  BY DEF countVars, connected, Prune
<1>2. Remaining' = Remaining \ {p} /\ p \in connected /\ p \notin peers_to_prune
  BY <1>1 DEF Remaining
<1>3. connected \in SUBSET Peers /\ peers_to_prune \in SUBSET connected
  BY DEF PeerCountTypeOK
<1>4. more \in {0, 1} /\ outbound_peers_pruned \in Nat /\ OutboundCount \in Nat
      /\ OutboundCount' = OutboundCount
      /\ Cardinality(OutboundOnly(Remaining)) = OutboundCount - outbound_peers_pruned
  BY <1>1, RemainingCounted DEF OutboundCount, OutboundOnly
<1>5. outbound_peers_pruned' = Cardinality(OutboundOnly(peers_to_prune))'
  <2>1. PICK O : O = OutboundOnly(peers_to_prune)
    OBVIOUS
  <2>2. O \in SUBSET Peers /\ p \notin O /\ outbound_peers_pruned = Cardinality(O)
    BY <1>2, <1>3, <2>1 DEF OutboundOnly, PeerCountTypeOK
  <2>3. IsFiniteSet(O) /\ Cardinality(O) \in Nat
    BY <2>2, PeersCounted
  <2>4. OutboundOnly(peers_to_prune)' = IF info[p].outbound THEN O \cup {p} ELSE O
    BY <1>1, <2>1 DEF OutboundOnly
  <2>5. Cardinality(O \cup {p}) = Cardinality(O) + 1
    BY <2>2, <2>3, FS_AddElement
  <2> QED
    BY <1>1, <2>2, <2>3, <2>4, <2>5
<1>6. Cardinality(Remaining)' >= TargetPeers
  <2>1. Remaining \in SUBSET Peers
    BY <1>3 DEF Remaining
  <2>2. IsFiniteSet(Remaining) /\ Cardinality(Remaining) \in Nat
    BY <2>1, PeersCounted
  <2>3. Cardinality(Remaining \ {p}) = Cardinality(Remaining) - 1
    BY <2>2, FS_RemoveElement
  <2>4. Cardinality(Remaining) > TargetPeers
    BY RemainingCounted, PeerCountAssumption DEF Full, Excess, SaturatingSub
  <2> QED
    BY <1>2, <2>2, <2>3, <2>4, PeerCountAssumption
<1>7. OutboundKept'
  <2>1. PICK O : O = OutboundOnly(Remaining)
    OBVIOUS
  <2>2. O \in SUBSET Peers /\ OutboundOnly(Remaining)' = O \ {p}
        /\ (p \in O <=> info[p].outbound)
    BY <1>1, <1>2, <1>3, <2>1 DEF OutboundOnly, Remaining
  <2>3. IsFiniteSet(O) /\ Cardinality(O) \in Nat
    BY <2>2, PeersCounted
  <2>4. CASE info[p].outbound
    <3>1. Cardinality(O \ {p}) = Cardinality(O) - 1
      BY <2>2, <2>3, <2>4, FS_RemoveElement
    <3>2. target_outbound_peers + outbound_peers_pruned < OutboundCount
      BY <2>4 DEF SparesOutbound
    <3>3. Cardinality(OutboundOnly(Remaining)') = Cardinality(O) - 1
      BY <2>2, <3>1
    <3> QED
      BY <1>4, <2>1, <2>3, <3>2, <3>3, LimitsTyped DEF OutboundKept, AtLeast
  <2>5. CASE ~info[p].outbound
    <3>1. Cardinality(OutboundOnly(Remaining)') = Cardinality(O)
      <4>1. O \ {p} = O
        BY <2>2, <2>5
      <4> QED
        BY <2>2, <4>1
    <3> QED
      BY <1>4, <2>1, <3>1 DEF OutboundKept, AtLeast
  <2> QED
    BY <2>4, <2>5
<1>8. ASSUME NEW q \in connected, SparesOutbound(info[q])' PROVE SparesOutbound(info[q])
  <2>1. CASE ~info[q].outbound
    BY <2>1 DEF SparesOutbound
  <2>2. CASE info[q].outbound
    <3>1. target_outbound_peers + outbound_peers_pruned' < OutboundCount
      BY <1>1, <1>4, <1>8, <2>2 DEF SparesOutbound, target_outbound_peers, OfTarget
    <3>2. outbound_peers_pruned' = outbound_peers_pruned + more
      BY <1>1
    <3>3. target_outbound_peers + outbound_peers_pruned < OutboundCount
      <4> HIDE DEF more
      <4> QED BY <1>4, <3>1, <3>2, LimitsTyped
    <3> QED
      BY <3>3 DEF SparesOutbound
  <2> QED
    BY <2>1, <2>2
<1> QED
  BY <1>1, <1>2, <1>5, <1>6, <1>7, <1>8

\* What a step has left nothing of does not return while peers are pruned.
LEMMA StaysEmpty ==
    ASSUME UNCHANGED countVars, Remaining' \subseteq Remaining, Remaining \subseteq connected,
           \A q \in connected : SparesOutbound(info[q])' => SparesOutbound(info[q])
    PROVE  /\ Negative = {} => Negative' = {}
           /\ WithoutSubnet = {} => WithoutSubnet' = {}
BY DEF Negative, WithoutSubnet, Prunable, countVars, has_long_lived_subnet

\* The first two steps.
LEMMA PrunePeersInv ==
    ASSUME PInv, NEW step \in {"Score", "NoSubnet"}, NEW peers,
           PrunePeers(step, peers),
           \A p \in peers : p \in Remaining /\ ~info[p].duty /\ SparesOutbound(info[p])
    PROVE  PInv'
<1>1. PICK p \in peers : Prune(p)
  BY DEF PrunePeers
<1>2. PeerCountTypeOK /\ OutboundKept /\ UNCHANGED countVars /\ prune' = step /\ prune = step
      /\ p \in Remaining /\ ~Full /\ SparesOutbound(info[p]) /\ ~info[p].duty
  BY <1>1 DEF PInv, PruningSafe, PrunePeers
<1>3. /\ Remaining' = Remaining \ {p} /\ peers_to_prune' = peers_to_prune \cup {p}
      /\ connected' = connected
      /\ outbound_peers_pruned' = Cardinality(OutboundOnly(peers_to_prune))'
      /\ Cardinality(Remaining)' >= TargetPeers
      /\ OutboundKept'
      /\ \A q \in connected : SparesOutbound(info[q])' => SparesOutbound(info[q])
  BY <1>1, <1>2, PruneEffect
<1>4. info' = info /\ dialing' = dialing /\ peers_to_dial' = peers_to_dial
      /\ subnet_to_peer' = subnet_to_peer
      /\ sync_committee_peer_count' = sync_committee_peer_count
      /\ sync_at_first' = sync_at_first
  BY DEF PrunePeers, countVars
<1>5. PeerCountTypeOK'
  BY <1>2, <1>3, <1>4 DEF PeerCountTypeOK, Remaining
<1>6. PruningSafe'
  BY <1>2, <1>3, <1>5 DEF PruningSafe, NeverBelowTarget, CommitteesKept
<1>7. Ungrouped' /\ Grouping'
  BY <1>2, <1>3, <1>4 DEF PInv, Ungrouped, Grouping
<1>8. StepsDone'
  <2>1. Remaining' \subseteq Remaining /\ Remaining \subseteq connected
    BY <1>3 DEF Remaining
  <2>2. Negative = {} => Negative' = {}
    BY <1>2, <1>3, <2>1, StaysEmpty
  <2> QED
    BY <1>2, <2>2 DEF PInv, StepsDone
<1>9. DutyInv'
  BY <1>2, <1>3, <1>4 DEF PInv, DutyInv
<1>10. ListedOrKept' /\ StopsForAReason'
  BY <1>2 DEF ListedOrKept, StopsForAReason
<1> QED
  BY <1>6, <1>7, <1>8, <1>9, <1>10 DEF PInv

\* Going on to another step, or to the end, without a change.
LEMMA NextStepInv ==
    ASSUME PInv, PruneEnough \/ NoNegativeLeft \/ NoGroupLeft
    PROVE  PInv'
<1>1. info' = info /\ dialing' = dialing /\ peers_to_dial' = peers_to_dial
      /\ peers_to_prune' = peers_to_prune /\ outbound_peers_pruned' = outbound_peers_pruned
      /\ subnet_to_peer' = subnet_to_peer
      /\ sync_committee_peer_count' = sync_committee_peer_count
      /\ sync_at_first' = sync_at_first
  BY DEF PruneEnough, NoNegativeLeft, NoGroupLeft, countVars, localVars
<1>2. /\ connected' = connected /\ Remaining' = Remaining /\ Full' = Full
      /\ OutboundCount' = OutboundCount
      /\ OutboundOnly(Remaining)' = OutboundOnly(Remaining)
      /\ OutboundOnly(peers_to_prune)' = OutboundOnly(peers_to_prune)
      /\ \A c \in SyncSubnets : OnCommittee(c, Remaining)' = OnCommittee(c, Remaining)
  BY <1>1 DEF connected, Remaining, Full, Excess, OutboundCount, OutboundOnly, OnCommittee
<1>3. /\ Negative' = Negative /\ WithoutSubnet' = WithoutSubnet
      /\ \A p \in Remaining : (Kept(p)' <=> Kept(p)) /\ (Listed(p)' <=> Listed(p))
  BY <1>1, <1>2 DEF Negative, WithoutSubnet, Kept, Listed, Prunable, SparesOutbound,
     SparesCommittees, has_long_lived_subnet, OnSubnets, StaleEnr, long_lived_attnets
<1>4. /\ prune' # "Idle" /\ prune # "Idle" /\ prune' # "Grouped" /\ prune' # "Score"
      /\ prune' \in {"NoSubnet", "Disconnect"}
      /\ prune' = "NoSubnet" => prune = "Score" /\ Negative = {}
      /\ prune' = "Disconnect" =>
             \/ Full /\ prune \in {"Score", "NoSubnet", "Grouped"}
             \/ prune = "Grouped" /\ \A s \in AttSubnets : subnet_to_peer[s] = {}
  BY DEF PruneEnough, NoNegativeLeft, NoGroupLeft
<1>5. PeerCountTypeOK'
  BY <1>1, <1>2, <1>4 DEF PInv, PruningSafe, PeerCountTypeOK
<1>6. NeverBelowTarget' /\ OutboundKept'
  BY <1>2, <1>4 DEF PInv, PruningSafe, NeverBelowTarget, OutboundKept
<1>7. CommitteesKept'
  <2> SUFFICES ASSUME prune' = "Disconnect", NEW c \in SyncSubnets
               PROVE  AtLeast(MIN_SYNC_COMMITTEE_PEERS, sync_at_first[c],
                              OnCommittee(c, Remaining))
    BY <1>1, <1>2, <1>4 DEF CommitteesKept
  <2>1. CASE prune = "Grouped"
    BY <2>1 DEF PInv, PruningSafe, CommitteesKept
  <2>2. CASE prune \in {"Score", "NoSubnet"}
    <3>1. sync_at_first[c] = 0
      BY <2>2 DEF PInv, Ungrouped
    <3>2. Remaining \in SUBSET Peers
      BY DEF PInv, PruningSafe, PeerCountTypeOK, Remaining
    <3>3. OnCommittee(c, Remaining) \in 0 .. Cardinality(Peers)
      BY <3>2, CommitteeCounted
    <3>4. OnCommittee(c, Remaining) \in Nat
      BY <3>2, <3>3, PeersCounted
    <3> QED
      BY <3>1, <3>4, PeerCountAssumption DEF AtLeast
  <2> QED
    BY <1>4, <2>1, <2>2
<1>8. PruningSafe'
  BY <1>5, <1>6, <1>7 DEF PruningSafe
<1>9. Ungrouped' /\ Grouping'
  BY <1>1, <1>2, <1>4 DEF PInv, Ungrouped, Grouping
<1>10. StepsDone' /\ ListedOrKept'
  BY <1>3, <1>4 DEF StepsDone, ListedOrKept
<1>11. DutyInv'
  BY <1>1, <1>3, <1>4 DEF PInv, DutyInv
<1>12. StopsForAReason'
  <2> SUFFICES ASSUME prune' = "Disconnect", ~Full, NEW p \in Remaining
               PROVE  Kept(p)'
    BY <1>2 DEF StopsForAReason, Kept
  <2>1. Listed(p) \/ Kept(p)
    BY <1>4 DEF PInv, ListedOrKept
  <2>2. ~Listed(p)
    BY <1>4 DEF Listed
  <2> QED
    BY <1>3, <2>1, <2>2
<1> QED
  BY <1>8, <1>9, <1>10, <1>11, <1>12 DEF PInv

\* The third step begins: its lists hold every peer on a subnet.
LEMMA GroupBySubnetInv == ASSUME PInv, GroupBySubnet PROVE PInv'
<1>1. info' = info /\ dialing' = dialing /\ peers_to_dial' = peers_to_dial
      /\ peers_to_prune' = peers_to_prune /\ outbound_peers_pruned' = outbound_peers_pruned
      /\ prune = "NoSubnet" /\ prune' = "Grouped" /\ WithoutSubnet = {}
      /\ subnet_to_peer' = [s \in AttSubnets |->
             {p \in Remaining : s \in long_lived_attnets(info[p])}]
      /\ sync_committee_peer_count' = [c \in SyncSubnets |-> OnCommittee(c, Remaining)]
      /\ sync_at_first' = sync_committee_peer_count'
  BY DEF GroupBySubnet, countVars
<1>2. /\ connected' = connected /\ Remaining' = Remaining
      /\ OutboundCount' = OutboundCount
      /\ OutboundOnly(Remaining)' = OutboundOnly(Remaining)
      /\ OutboundOnly(peers_to_prune)' = OutboundOnly(peers_to_prune)
      /\ \A c \in SyncSubnets : OnCommittee(c, Remaining)' = OnCommittee(c, Remaining)
  BY <1>1 DEF connected, Remaining, OutboundCount, OutboundOnly, OnCommittee
<1>3. /\ Negative' = Negative /\ WithoutSubnet' = WithoutSubnet
      /\ \A p \in Remaining : SparesOutbound(info[p])' <=> SparesOutbound(info[p])
  BY <1>1, <1>2 DEF Negative, WithoutSubnet, Prunable, SparesOutbound, has_long_lived_subnet
<1>4. Remaining \in SUBSET Peers /\ Remaining \in SUBSET connected
  BY DEF PInv, PruningSafe, PeerCountTypeOK, Remaining
<1>5. \A c \in SyncSubnets : OnCommittee(c, Remaining) \in 0 .. Cardinality(Peers)
  BY <1>4, CommitteeCounted
<1>6. PeerCountTypeOK'
  <2>1. subnet_to_peer' \in [AttSubnets -> SUBSET connected]
    BY <1>1, <1>4
  <2>2. sync_committee_peer_count' \in [SyncSubnets -> 0 .. Cardinality(Peers)]
        /\ sync_at_first' \in [SyncSubnets -> 0 .. Cardinality(Peers)]
    BY <1>1, <1>5
  <2> QED
    BY <1>1, <1>2, <2>1, <2>2 DEF PInv, PruningSafe, PeerCountTypeOK
<1>7. NeverBelowTarget' /\ OutboundKept'
  BY <1>1, <1>2 DEF PInv, PruningSafe, NeverBelowTarget, OutboundKept
<1>8. CommitteesKept'
  <2> SUFFICES ASSUME NEW c \in SyncSubnets
               PROVE  AtLeast(MIN_SYNC_COMMITTEE_PEERS, sync_at_first'[c],
                              OnCommittee(c, Remaining))
    BY <1>2 DEF CommitteesKept
  <2>1. sync_at_first'[c] = OnCommittee(c, Remaining)
    BY <1>1
  <2>2. OnCommittee(c, Remaining) \in Nat
    BY <1>4, <1>5, PeersCounted
  <2> QED
    BY <2>1, <2>2, PeerCountAssumption DEF AtLeast
<1>9. PruningSafe'
  BY <1>6, <1>7, <1>8 DEF PruningSafe
<1>10. Ungrouped' /\ Grouping'
  BY <1>1, <1>2 DEF Ungrouped, Grouping
<1>11. StepsDone' /\ DutyInv' /\ StopsForAReason'
  BY <1>1, <1>3 DEF PInv, StepsDone, DutyInv, StopsForAReason
<1>12. ListedOrKept'
  <2> SUFFICES ASSUME NEW p \in Remaining, ~Listed(p)' PROVE Kept(p)'
    BY <1>2 DEF ListedOrKept
  <2>1. info[p] \in Infos
    BY <1>4, PeerCountAssumption DEF PInv, PruningSafe, PeerCountTypeOK
  <2>2. long_lived_attnets(info[p]) = {}
    <3>1. long_lived_attnets(info[p]) \subseteq AttSubnets
      BY <2>1 DEF Infos, long_lived_attnets
    <3> QED
      BY <1>1, <3>1 DEF Listed
  <2>3. p \notin WithoutSubnet
    BY <1>1
  <2>4. \/ info[p].duty \/ OnSubnets(info[p]) \/ StaleEnr(info[p])
        \/ ~SparesOutbound(info[p])
    BY <2>3, SparedForSubnets DEF WithoutSubnet, Prunable
  <2> QED
    BY <1>1, <1>3, <2>2, <2>4 DEF Kept, OnSubnets, StaleEnr, long_lived_attnets
<1> QED
  BY <1>9, <1>10, <1>11, <1>12 DEF PInv

\* A round of the third step that prunes a candidate.
LEMMA PruneCandidateInv ==
    ASSUME PInv, prune = "Grouped", prune' = "Grouped", ~Full, UNCHANGED countVars,
           NEW s \in AttSubnets, NEW p \in Candidates(s), Prune(p),
           subnet_to_peer' = [t \in AttSubnets |-> subnet_to_peer[t] \ {p}],
           sync_committee_peer_count' = Uncounted(p), sync_at_first' = sync_at_first
    PROVE  PInv'
<1>1. p \in Remaining /\ SparesOutbound(info[p]) /\ SparesCommittees(info[p])
  BY DEF Candidates, PInv, Grouping
<1>2. PeerCountTypeOK /\ OutboundKept /\ CommitteesKept
  BY DEF PInv, PruningSafe
<1>3. /\ Remaining' = Remaining \ {p} /\ peers_to_prune' = peers_to_prune \cup {p}
      /\ connected' = connected
      /\ outbound_peers_pruned' = Cardinality(OutboundOnly(peers_to_prune))'
      /\ Cardinality(Remaining)' >= TargetPeers
      /\ OutboundKept'
      /\ \A q \in connected : SparesOutbound(info[q])' => SparesOutbound(info[q])
  BY <1>1, <1>2, PruneEffect
<1>4. info' = info /\ dialing' = dialing /\ peers_to_dial' = peers_to_dial
  BY DEF countVars
<1>5. Remaining \in SUBSET Peers /\ Remaining \in SUBSET connected
  BY <1>2 DEF PeerCountTypeOK, Remaining
<1>6. ASSUME NEW c \in SyncSubnets
      PROVE  /\ OnCommittee(c, Remaining) \in 0 .. Cardinality(Peers)
             /\ sync_committee_peer_count[c] = OnCommittee(c, Remaining)
             /\ OnCommittee(c, Remaining)' = OnCommittee(c, Remaining \ {p})
             /\ sync_committee_peer_count'[c] = OnCommittee(c, Remaining)'
             /\ sync_committee_peer_count'[c] \in 0 .. Cardinality(Peers)
             /\ sync_committee_peer_count'[c] <= sync_committee_peer_count[c]
             /\ c \in info[p].syncnets =>
                    sync_committee_peer_count'[c] = sync_committee_peer_count[c] - 1
             /\ c \notin info[p].syncnets =>
                    sync_committee_peer_count'[c] = sync_committee_peer_count[c]
  <2>1. /\ OnCommittee(c, Remaining) \in 0 .. Cardinality(Peers)
        /\ OnCommittee(c, Remaining \ {p}) =
               IF c \in info[p].syncnets THEN OnCommittee(c, Remaining) - 1
               ELSE OnCommittee(c, Remaining)
        /\ c \in info[p].syncnets => OnCommittee(c, Remaining) > 0
    BY <1>1, <1>5, CommitteeWithout
  <2>2. sync_committee_peer_count[c] = OnCommittee(c, Remaining)
    BY DEF PInv, Grouping
  <2>3. OnCommittee(c, Remaining)' = OnCommittee(c, Remaining \ {p})
    BY <1>3, <1>4 DEF OnCommittee
  <2>4. sync_committee_peer_count'[c] =
            IF c \in info[p].syncnets THEN SaturatingSub(sync_committee_peer_count[c], 1)
            ELSE sync_committee_peer_count[c]
    BY DEF Uncounted
  <2>5. Cardinality(Peers) \in Nat
    BY <1>5, PeersCounted
  <2> QED
    BY <2>1, <2>2, <2>3, <2>4, <2>5 DEF SaturatingSub
<1>7. Cardinality(Peers) \in Nat
  BY <1>5, PeersCounted
<1>8. PeerCountTypeOK'
  <2>1. subnet_to_peer' \in [AttSubnets -> SUBSET connected]
    BY <1>2 DEF PeerCountTypeOK
  <2>2. sync_committee_peer_count' \in [SyncSubnets -> 0 .. Cardinality(Peers)]
    <3>1. sync_committee_peer_count' = [c \in SyncSubnets |-> sync_committee_peer_count'[c]]
      BY DEF Uncounted
    <3> QED
      BY <1>6, <3>1
  <2> QED
    BY <1>1, <1>2, <1>3, <1>4, <1>5, <2>1, <2>2 DEF PeerCountTypeOK
<1>9. CommitteesKept'
  <2> SUFFICES ASSUME NEW c \in SyncSubnets
               PROVE  AtLeast(MIN_SYNC_COMMITTEE_PEERS, sync_at_first[c],
                              sync_committee_peer_count'[c])
    BY <1>6 DEF CommitteesKept
  <2>1. AtLeast(MIN_SYNC_COMMITTEE_PEERS, sync_at_first[c], sync_committee_peer_count[c])
    BY <1>2, <1>6 DEF CommitteesKept
  <2>2. CASE c \in info[p].syncnets
    <3>1. sync_committee_peer_count[c] > MIN_SYNC_COMMITTEE_PEERS
      BY <1>1, <2>2 DEF SparesCommittees
    <3>2. sync_at_first[c] \in Nat /\ sync_committee_peer_count[c] \in Nat
      BY <1>2, <1>7 DEF PeerCountTypeOK
    <3> QED
      BY <1>6, <2>2, <3>1, <3>2, PeerCountAssumption DEF AtLeast
  <2>3. CASE c \notin info[p].syncnets
    BY <1>6, <2>1, <2>3
  <2> QED
    BY <2>2, <2>3
<1>10. PruningSafe'
  BY <1>3, <1>8, <1>9 DEF PruningSafe, NeverBelowTarget
<1>11. Ungrouped' /\ Grouping'
  BY <1>3, <1>6 DEF PInv, Ungrouped, Grouping
<1>12. Negative' = {} /\ WithoutSubnet' = {}
  BY <1>3, <1>5, StaysEmpty DEF PInv, StepsDone
<1>13. StepsDone' /\ DutyInv' /\ StopsForAReason'
  BY <1>12 DEF StepsDone, DutyInv, StopsForAReason
<1>14. ListedOrKept'
  <2> SUFFICES ASSUME NEW q \in Remaining, q # p PROVE Listed(q)' \/ Kept(q)'
    BY <1>3 DEF ListedOrKept
  <2>1. Listed(q) \/ Kept(q)
    BY DEF PInv, ListedOrKept
  <2>2. CASE Listed(q)
    BY <2>2 DEF Listed
  <2>3. CASE ~SparesOutbound(info[q])
    BY <1>3, <1>5, <2>3 DEF Kept
  <2>4. CASE ~SparesCommittees(info[q])
    <3>1. PICK c \in info[q].syncnets :
              ~(sync_committee_peer_count[c] > MIN_SYNC_COMMITTEE_PEERS)
      BY <2>4 DEF SparesCommittees
    <3>2. c \in SyncSubnets
      BY <1>2, <1>5, <3>1, PeerCountAssumption DEF PeerCountTypeOK, Infos
    <3>3. ~(sync_committee_peer_count'[c] > MIN_SYNC_COMMITTEE_PEERS)
      BY <1>2, <1>6, <1>7, <3>1, <3>2, PeerCountAssumption DEF PeerCountTypeOK
    <3>4. ~SparesCommittees(info[q])'
      BY <1>4, <3>1, <3>3 DEF SparesCommittees
    <3> QED
      BY <3>4 DEF Kept
  <2>5. CASE /\ long_lived_attnets(info[q]) = {}
             /\ info[q].duty \/ OnSubnets(info[q]) \/ StaleEnr(info[q])
    BY <1>4, <2>5 DEF Kept, OnSubnets, StaleEnr, long_lived_attnets
  <2> QED
    BY <2>1, <2>2, <2>3, <2>4, <2>5 DEF Kept
<1> QED
  BY <1>10, <1>11, <1>13, <1>14 DEF PInv

\* A round that finds no candidate on the largest subnet.
LEMMA PassOverInv ==
    ASSUME PInv, prune = "Grouped", prune' = "Grouped", UNCHANGED countVars,
           NEW s \in AttSubnets, Candidates(s) = {}, subnet_to_peer' = PassedOver(s),
           UNCHANGED <<peers_to_prune, outbound_peers_pruned, sync_committee_peer_count>>,
           sync_at_first' = sync_at_first
    PROVE  PInv'
<1>1. info' = info /\ dialing' = dialing /\ peers_to_dial' = peers_to_dial
      /\ peers_to_prune' = peers_to_prune /\ outbound_peers_pruned' = outbound_peers_pruned
      /\ sync_committee_peer_count' = sync_committee_peer_count
  BY DEF countVars
<1>2. /\ connected' = connected /\ Remaining' = Remaining
      /\ OutboundCount' = OutboundCount
      /\ OutboundOnly(Remaining)' = OutboundOnly(Remaining)
      /\ OutboundOnly(peers_to_prune)' = OutboundOnly(peers_to_prune)
      /\ \A c \in SyncSubnets : OnCommittee(c, Remaining)' = OnCommittee(c, Remaining)
  BY <1>1 DEF connected, Remaining, OutboundCount, OutboundOnly, OnCommittee
<1>3. /\ Negative' = Negative /\ WithoutSubnet' = WithoutSubnet
      /\ \A p \in Remaining : Kept(p)' <=> Kept(p)
  BY <1>1, <1>2 DEF Negative, WithoutSubnet, Kept, Prunable, SparesOutbound,
     SparesCommittees, has_long_lived_subnet, OnSubnets, StaleEnr, long_lived_attnets
<1>4. subnet_to_peer \in [AttSubnets -> SUBSET connected]
  BY DEF PInv, PruningSafe, PeerCountTypeOK
<1>5. /\ subnet_to_peer' \in [AttSubnets -> SUBSET connected]
      /\ subnet_to_peer'[s] = {}
      /\ \A t \in AttSubnets : t # s => subnet_to_peer'[t] = subnet_to_peer[t]
  BY <1>4 DEF PassedOver
<1>6. PruningSafe'
  BY <1>1, <1>2, <1>5 DEF PInv, PruningSafe, PeerCountTypeOK, NeverBelowTarget,
     OutboundKept, CommitteesKept
<1>7. Ungrouped' /\ Grouping'
  BY <1>1, <1>2, <1>5 DEF PInv, Ungrouped, Grouping
<1>8. StepsDone' /\ DutyInv' /\ StopsForAReason'
  BY <1>1, <1>3 DEF PInv, StepsDone, DutyInv, StopsForAReason
<1>9. ListedOrKept'
  <2> SUFFICES ASSUME NEW p \in Remaining, ~Kept(p) PROVE Listed(p)'
    BY <1>2, <1>3 DEF ListedOrKept
  <2>1. PICK t \in AttSubnets : p \in subnet_to_peer[t]
    BY DEF PInv, ListedOrKept, Listed
  <2>2. p \notin subnet_to_peer[s]
    BY DEF Candidates, Kept
  <2> QED
    BY <1>5, <2>1, <2>2 DEF Listed
<1> QED
  BY <1>6, <1>7, <1>8, <1>9 DEF PInv

\* A round of the third step.
LEMMA PruneGroupedInv == ASSUME PInv, NEW s \in AttSubnets, PruneGrouped(s) PROVE PInv'
<1>1. prune = "Grouped" /\ prune' = "Grouped" /\ ~Full /\ UNCHANGED countVars
      /\ sync_at_first' = sync_at_first
  BY DEF PruneGrouped
<1>2. CASE Candidates(s) = {}
  BY <1>1, <1>2, PassOverInv DEF PruneGrouped
<1>3. CASE Candidates(s) # {}
  <2>1. PICK p \in Candidates(s) :
            /\ Prune(p)
            /\ subnet_to_peer' = [t \in AttSubnets |-> subnet_to_peer[t] \ {p}]
            /\ sync_committee_peer_count' = Uncounted(p)
    BY <1>3 DEF PruneGrouped
  <2> QED
    BY <1>1, <2>1, PruneCandidateInv
<1> QED
  BY <1>2, <1>3

\* The pruned peers are disconnected, and the locals are gone.
LEMMA DisconnectPrunedInv == ASSUME PInv, DisconnectPruned PROVE PInv'
<1>1. PeerCountTypeOK
  BY DEF PInv, PruningSafe
<1>2. /\ prune' = "Idle" /\ peers_to_prune' = {} /\ outbound_peers_pruned' = 0
      /\ subnet_to_peer' = [s \in AttSubnets |-> {}]
      /\ sync_committee_peer_count' = [c \in SyncSubnets |-> 0]
      /\ sync_at_first' = [c \in SyncSubnets |-> 0]
      /\ dialing' = dialing /\ peers_to_dial' = peers_to_dial
      /\ info' = [p \in Remaining |-> info[p]]
  BY DEF DisconnectPruned, ResetLocals
<1>3. connected' = Remaining /\ Remaining' = connected' /\ Remaining \subseteq connected
      /\ connected' \subseteq Peers
  BY <1>1, <1>2 DEF connected, Remaining, PeerCountTypeOK
<1>4. PeerCountTypeOK'
  <2>1. OutboundOnly(peers_to_prune)' = {}
    BY <1>2 DEF OutboundOnly
  <2>2. Cardinality({}) = 0 /\ Cardinality(Peers) \in Nat
    BY FS_EmptySet, FS_CardinalityType, PeerCountAssumption
  <2>3. 0 \in 0 .. Cardinality(Peers)
    BY <2>2
  <2>4. /\ subnet_to_peer' \in [AttSubnets -> SUBSET connected']
        /\ sync_committee_peer_count' \in [SyncSubnets -> 0 .. Cardinality(Peers)]
        /\ sync_at_first' \in [SyncSubnets -> 0 .. Cardinality(Peers)]
    BY <1>2, <2>3
  <2>5. outbound_peers_pruned' = Cardinality(OutboundOnly(peers_to_prune)')
    BY <1>2, <2>1, <2>2
  <2>6. \A p \in connected' : info'[p] \in Profiles
    BY <1>1, <1>2, <1>3 DEF PeerCountTypeOK
  <2> QED
    BY <1>1, <1>2, <1>3, <2>4, <2>5, <2>6 DEF PeerCountTypeOK
<1>5. OutboundKept'
  <2>1. PICK O : O = OutboundOnly(connected)'
    OBVIOUS
  <2>2. O \in SUBSET Peers
    BY <1>3, <2>1 DEF OutboundOnly
  <2>3. Cardinality(O) \in Nat
    BY <2>2, PeersCounted
  <2>4. OutboundCount' = Cardinality(O) /\ Cardinality(OutboundOnly(Remaining))' = Cardinality(O)
    BY <1>3, <2>1 DEF OutboundCount, OutboundOnly
  <2> QED
    BY <2>3, <2>4, LimitsTyped DEF OutboundKept, AtLeast
<1>6. PruningSafe'
  BY <1>2, <1>4, <1>5 DEF PruningSafe, NeverBelowTarget, CommitteesKept
<1>7. Ungrouped' /\ Grouping'
  BY <1>2 DEF Ungrouped, Grouping
<1>8. StepsDone' /\ DutyInv' /\ ListedOrKept' /\ StopsForAReason'
  BY <1>2 DEF StepsDone, DutyInv, ListedOrKept, StopsForAReason
<1> QED
  BY <1>6, <1>7, <1>8 DEF PInv

\* Every step keeps the invariant.
LEMMA PNextInv == PInv /\ [PeerCountNext]_peerCountVars => PInv'
<1> SUFFICES ASSUME PInv, [PeerCountNext]_peerCountVars PROVE PInv'
  OBVIOUS
<1>1. CASE UNCHANGED peerCountVars
  <2>1. info' = info /\ dialing' = dialing /\ peers_to_dial' = peers_to_dial
        /\ prune' = prune /\ peers_to_prune' = peers_to_prune
        /\ outbound_peers_pruned' = outbound_peers_pruned
        /\ subnet_to_peer' = subnet_to_peer
        /\ sync_committee_peer_count' = sync_committee_peer_count
        /\ sync_at_first' = sync_at_first
    BY <1>1 DEF peerCountVars, countVars, localVars
  <2>2. connected' = connected /\ Remaining' = Remaining /\ Full' = Full
    BY <2>1 DEF connected, Remaining, Full, Excess
  <2>3. \A p \in Remaining : (SparesOutbound(info[p])' <=> SparesOutbound(info[p]))
        /\ (SparesCommittees(info[p])' <=> SparesCommittees(info[p]))
        /\ (Listed(p)' <=> Listed(p))
    BY <2>1, <2>2 DEF SparesOutbound, OutboundCount, OutboundOnly, SparesCommittees, Listed
  <2>4. Negative' = Negative /\ WithoutSubnet' = WithoutSubnet
    BY <2>1, <2>2, <2>3 DEF Negative, WithoutSubnet, Prunable, has_long_lived_subnet
  <2>5. PruningSafe'
    BY <2>1, <2>2 DEF PInv, PruningSafe, PeerCountTypeOK, NeverBelowTarget, OutboundKept,
       CommitteesKept, OutboundCount, OutboundOnly, OnCommittee
  <2>6. Ungrouped' /\ Grouping'
    BY <2>1, <2>2 DEF PInv, Ungrouped, Grouping, OnCommittee
  <2>7. StepsDone' /\ DutyInv' /\ ListedOrKept' /\ StopsForAReason'
    BY <2>1, <2>2, <2>3, <2>4 DEF PInv, StepsDone, DutyInv, ListedOrKept, StopsForAReason,
       Kept, OnSubnets, StaleEnr, long_lived_attnets
  <2> QED
    BY <2>5, <2>6, <2>7 DEF PInv
<1>2. CASE Unpruned
  BY <1>2, UnprunedInv
<1>3. CASE prune_excess_peers
  <2>1. CASE PrunePeers("Score", Negative)
    <3>1. \A p \in Negative : p \in Remaining /\ ~info[p].duty /\ SparesOutbound(info[p])
      BY DEF Negative, Prunable
    <3> QED BY <2>1, <3>1, PrunePeersInv
  <2>2. CASE PrunePeers("NoSubnet", WithoutSubnet)
    <3>1. \A p \in WithoutSubnet :
              p \in Remaining /\ ~info[p].duty /\ SparesOutbound(info[p])
      BY DEF WithoutSubnet, Prunable
    <3> QED BY <2>2, <3>1, PrunePeersInv
  <2>3. CASE PruneEnough \/ NoNegativeLeft \/ NoGroupLeft
    BY <2>3, NextStepInv
  <2>4. CASE GroupBySubnet
    BY <2>4, GroupBySubnetInv
  <2>5. CASE \E s \in AttSubnets : PruneGrouped(s)
    BY <2>5, PruneGroupedInv
  <2>6. CASE DisconnectPruned
    BY <2>6, DisconnectPrunedInv
  <2> QED
    BY <1>3, <2>1, <2>2, <2>3, <2>4, <2>5, <2>6 DEF prune_excess_peers
<1> QED
  BY <1>1, <1>2, <1>3 DEF PeerCountNext, Unpruned

\* The invariant holds always.
LEMMA AlwaysPInv == PeerCountSpec => []PInv
BY PInitInv, PNextInv, PTL DEF PeerCountSpec

\* At no point of its three steps does prune_excess_peers undercut the target, the minimum
\* of outbound peers or the minimum of a sync committee.
THEOREM PruningAlwaysSafe == PeerCountSpec => []PruningSafe
<1>1. PInv => PruningSafe
  BY DEF PInv
<1> QED
  BY <1>1, AlwaysPInv, PTL

\* Peers with a duty are pruned last, and prune_excess_peers stops above the target only
\* for a reason, where a stale ENR of a peer is one.
THEOREM AlwaysPrunedForAReason == PeerCountSpec => []PrunedForAReason
<1>1. ASSUME PInv PROVE DutyPrunedLast
  <2> SUFFICES ASSUME \E p \in peers_to_prune : info[p].duty, NEW q \in Remaining,
                      ~info[q].duty, SparesOutbound(info[q])
               PROVE  ~info[q].negative /\ (OnSubnets(info[q]) \/ StaleEnr(info[q]))
    BY DEF DutyPrunedLast
  <2>1. Negative = {} /\ WithoutSubnet = {}
    BY <1>1 DEF PInv, DutyInv
  <2> QED
    BY <2>1, SparedForSubnets DEF Negative, WithoutSubnet, Prunable
<1>2. PInv => PrunedForAReason
  BY <1>1 DEF PInv, PrunedForAReason
<1> QED
  BY <1>2, AlwaysPInv, PTL

-----------------------------------------------------------------------------
(* The number of peers to search for.                                      *)

\* The limits are in order.
LEMMA LimitsOrdered ==
    TargetPeers <= max_outbound_dialing_peers /\ max_peers <= max_outbound_dialing_peers
<1>1. PICK half \in Nat : half = PRIORITY_PEER_EXCESS \div 2
  BY PeerCountAssumption
<1>2. ASSUME NEW m \in Nat, NEW n \in Nat, m <= n PROVE OfTarget(m) <= OfTarget(n)
  <2>1. TargetPeers * m <= TargetPeers * n
    BY <1>2, PeerCountAssumption
  <2>2. PICK a \in Nat, b \in Nat : a = TargetPeers * m + 99 /\ b = TargetPeers * n + 99
    BY PeerCountAssumption
  <2>3. a <= b
    BY <2>1, <2>2, PeerCountAssumption
  <2>4. a \div 100 <= b \div 100
    BY <2>3
  <2> QED
    BY <2>2, <2>4 DEF OfTarget
<1>3. OfTarget(100) = TargetPeers
  BY PeerCountAssumption DEF OfTarget
<1> QED
  BY <1>1, <1>2, <1>3, PeerCountAssumption DEF max_peers, max_outbound_dialing_peers

\* A subtraction that is possible does not exceed its first operand.
LEMMA NoWrap ==
    ASSUME NEW a \in Nat, NEW b \in Nat, b <= a
    PROVE  WrappingSub(a, b) <= a
<1>1. UsizeValues \in Nat /\ UsizeValues > 0
  BY PeerCountAssumption
<1>2. PICK n \in Nat : n = a - b
  OBVIOUS
<1>3. (n + UsizeValues) % UsizeValues <= n
  BY <1>1
<1> QED
  BY <1>1, <1>2, <1>3 DEF WrappingSub

\* With room for the dials below the limit, the number is within the limit.
LEMMA WantedWithin ==
    ASSUME PeerCountTypeOK, NEW n \in Nat,
           n = 0 \/ connected_or_dialing + n <= max_outbound_dialing_peers
    PROVE  WantedPeers(n) <= max_outbound_dialing_peers
<1>1. connected_or_dialing \in Nat
  <2>1. connected \cup dialing \in SUBSET Peers
    BY DEF PeerCountTypeOK
  <2> QED
    BY <2>1, PeersCounted DEF connected_or_dialing
<1>2. PICK most \in Nat : most = max_outbound_dialing_peers
  BY LimitsTyped
<1>3. SaturatingSub(TargetPeers, n) \in Nat /\ SaturatingSub(TargetPeers, n) <= most
  BY <1>2, LimitsOrdered, PeerCountAssumption DEF SaturatingSub
<1>4. CASE connected_or_dialing < SaturatingSub(TargetPeers, n)
  BY <1>1, <1>2, <1>3, <1>4 DEF WantedPeers
<1>5. CASE /\ ~(connected_or_dialing < SaturatingSub(TargetPeers, n))
           /\ Cardinality(OutboundOnly(connected)) < min_outbound_only_peers
           /\ connected_or_dialing < most
  <2>1. SaturatingSub(most, n) \in Nat /\ SaturatingSub(most, n) <= most
        /\ connected_or_dialing <= SaturatingSub(most, n)
    BY <1>1, <1>2, <1>5 DEF SaturatingSub
  <2>2. WrappingSub(SaturatingSub(most, n), connected_or_dialing) <= SaturatingSub(most, n)
    BY <1>1, <2>1, NoWrap
  <2>3. WantedPeers(n) = WrappingSub(SaturatingSub(most, n), connected_or_dialing)
    BY <1>2, <1>5 DEF WantedPeers
  <2>4. WrappingSub(SaturatingSub(most, n), connected_or_dialing) \in Int
    BY <1>1, <2>1, PeerCountAssumption DEF WrappingSub
  <2> QED
    BY <1>2, <2>1, <2>2, <2>3, <2>4
<1>6. CASE /\ ~(connected_or_dialing < SaturatingSub(TargetPeers, n))
           /\ ~(/\ Cardinality(OutboundOnly(connected)) < min_outbound_only_peers
                /\ connected_or_dialing < most)
  <2>1. WantedPeers(n) = 0
    BY <1>2, <1>6 DEF WantedPeers
  <2> QED
    BY <1>2, <2>1
<1> QED
  BY <1>4, <1>5, <1>6

\* The search that a heartbeat or an answer without peers for a duty asks for never
\* wraps around.
THEOREM NeverWrapsWithoutDuty == PeerCountSpec => []NoWrapWithoutDuty
<1>1. ASSUME PeerCountTypeOK, NEW results \in Answers, NEW dials \in Dialed(results, {})
      PROVE  WantedPeers(Cardinality(dials)) <= max_outbound_dialing_peers
  <2>1. dials \in SUBSET Peers
    BY DEF Dialed, Answers
  <2>2. PICK n \in Nat : n = Cardinality(dials)
    BY <2>1, PeersCounted
  <2>3. CASE dials = {}
    BY <1>1, <2>2, <2>3, FS_EmptySet, WantedWithin
  <2>4. CASE dials # {}
    <3>1. dials \ {} = dials
      OBVIOUS
    <3>2. Dialable(FALSE, Cardinality(dials \ {}) - 1)
      BY <2>4, <3>1 DEF Dialed
    <3>3. connected_or_dialing + (n - 1) < max_peers
      BY <2>2, <3>1, <3>2 DEF Dialable
    <3>4. connected_or_dialing \in Nat
      <4>1. connected \cup dialing \in SUBSET Peers
        BY <1>1 DEF PeerCountTypeOK
      <4> QED
        BY <4>1, PeersCounted DEF connected_or_dialing
    <3>5. connected_or_dialing + n <= max_outbound_dialing_peers
      BY <2>2, <3>3, <3>4, LimitsOrdered, LimitsTyped
    <3> QED
      BY <1>1, <2>2, <3>5, WantedWithin
  <2> QED
    BY <2>3, <2>4
<1>2. PeerCountTypeOK => NoWrapWithoutDuty
  <2> SUFFICES ASSUME PeerCountTypeOK PROVE NoWrapWithoutDuty
    OBVIOUS
  <2>1. WantedPeers(0) <= max_outbound_dialing_peers
    BY WantedWithin
  <2> QED
    BY <1>1, <2>1 DEF NoWrapWithoutDuty
<1>3. PInv => PeerCountTypeOK
  BY DEF PInv, PruningSafe
<1> QED
  BY <1>2, <1>3, AlwaysPInv, PTL
=============================================================================
