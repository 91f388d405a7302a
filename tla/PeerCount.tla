------------------------------ MODULE PeerCount ------------------------------
(***************************************************************************)
(* How many peers the peer manager keeps (peer_manager/mod.rs): the limits  *)
(* on new connections, the dials of discovered peers, the search for more,  *)
(* and the heartbeat's pruning of peers above the target.                   *)
(*                                                                         *)
(* prune_excess_peers runs in one go; prune says which of its loops is      *)
(* running, and nothing else happens meanwhile.                             *)
(***************************************************************************)
EXTENDS Naturals, FiniteSets

CONSTANTS
    Peers,
    Profiles,       \* what the code may know of a connected peer, see Infos
    AttSubnets,     \* attestation subnets
    SyncSubnets,    \* sync committee subnets
    TargetPeers,
    \* The factors of the code, in percent.
    PEER_EXCESS_FACTOR, PRIORITY_PEER_EXCESS,
    MIN_OUTBOUND_ONLY_FACTOR, TARGET_OUTBOUND_ONLY_FACTOR,
    MIN_SYNC_COMMITTEE_PEERS,
    UsizeValues     \* 2^w for the width w of usize

\* What is known of a peer: whether its score is below 0, its direction, whether we
\* need it for a duty, whether it sent its metadata, the attestation subnets of that and
\* of its ENR, the sync committees of its metadata or, without it, of its ENR, and
\* whether gossipsub told us of some subnet.
Infos ==
    [negative : BOOLEAN, outbound : BOOLEAN, duty : BOOLEAN, metadata : BOOLEAN,
     attnets : SUBSET AttSubnets, enr_attnets : SUBSET AttSubnets,
     syncnets : SUBSET SyncSubnets, gossip : BOOLEAN]

ASSUME PeerCountAssumption ==
    /\ IsFiniteSet(Peers)
    /\ Profiles \subseteq Infos
    /\ TargetPeers \in Nat \ {0}
    /\ PEER_EXCESS_FACTOR \in Nat /\ PRIORITY_PEER_EXCESS \in Nat
    /\ MIN_OUTBOUND_ONLY_FACTOR \in Nat
    /\ TARGET_OUTBOUND_ONLY_FACTOR \in Nat
    /\ MIN_SYNC_COMMITTEE_PEERS \in Nat
    /\ UsizeValues \in Nat \ {0}

VARIABLES
    info,               \* the information on the connected peers
    dialing,            \* the peers being dialed
    peers_to_dial,      \* the peers queued to be dialed
    prune,              \* where prune_excess_peers is
    \* The locals of prune_excess_peers.
    peers_to_prune, outbound_peers_pruned, subnet_to_peer,
    sync_committee_peer_count,
    sync_at_first       \* history: the committees' peers when the third step began

countVars == <<info, dialing, peers_to_dial>>
localVars == <<peers_to_prune, outbound_peers_pruned, subnet_to_peer,
               sync_committee_peer_count, sync_at_first>>
peerCountVars == <<countVars, prune, localVars>>

connected == DOMAIN info
connected_or_dialing == Cardinality(connected \cup dialing)
OutboundOnly(peers) == {p \in peers : info[p].outbound}

\* The locals of prune_excess_peers have their types; a peer that is pruned is
\* connected, and outbound_peers_pruned is how many of those are outbound.
PeerCountTypeOK ==
    /\ connected \subseteq Peers
    /\ \A p \in connected : info[p] \in Profiles
    /\ dialing \subseteq Peers \ connected
    /\ peers_to_dial \subseteq Peers
    /\ prune \in {"Idle", "Score", "NoSubnet", "Grouped", "Disconnect"}
    /\ peers_to_prune \subseteq connected
    /\ outbound_peers_pruned = Cardinality(OutboundOnly(peers_to_prune))
    /\ subnet_to_peer \in [AttSubnets -> SUBSET connected]
    /\ sync_committee_peer_count \in [SyncSubnets -> 0 .. Cardinality(Peers)]
    /\ sync_at_first \in [SyncSubnets -> 0 .. Cardinality(Peers)]

ResetLocals ==
    /\ peers_to_prune' = {}
    /\ outbound_peers_pruned' = 0
    /\ subnet_to_peer' = [s \in AttSubnets |-> {}]
    /\ sync_committee_peer_count' = [c \in SyncSubnets |-> 0]
    /\ sync_at_first' = [c \in SyncSubnets |-> 0]

PeerCountInit ==
    /\ info = [p \in {} |-> {}]
    /\ dialing = {} /\ peers_to_dial = {}
    /\ prune = "Idle"
    /\ peers_to_prune = {}
    /\ outbound_peers_pruned = 0
    /\ subnet_to_peer = [s \in AttSubnets |-> {}]
    /\ sync_committee_peer_count = [c \in SyncSubnets |-> 0]
    /\ sync_at_first = [c \in SyncSubnets |-> 0]

-----------------------------------------------------------------------------

\* target_peers times a factor, rounded up.
OfTarget(percent) == (TargetPeers * percent + 99) \div 100

max_peers == OfTarget(100 + PEER_EXCESS_FACTOR)
max_priority_peers == OfTarget(100 + PEER_EXCESS_FACTOR + PRIORITY_PEER_EXCESS)
max_outbound_dialing_peers ==
    OfTarget(100 + PEER_EXCESS_FACTOR + PRIORITY_PEER_EXCESS \div 2)
min_outbound_only_peers == OfTarget(MIN_OUTBOUND_ONLY_FACTOR)
target_outbound_peers == OfTarget(TARGET_OUTBOUND_ONLY_FACTOR)

SaturatingSub(a, b) == IF a < b THEN 0 ELSE a - b

\* A subtraction of usize: it wraps in a release build.
WrappingSub(a, b) == (a + UsizeValues - b) % UsizeValues

\* maintain_peer_count: the peers that DiscoverPeers asks for, given the dials just
\* queued; for 0 there is no such event.
WantedPeers(dials) ==
    LET peer_count == connected_or_dialing
        target == SaturatingSub(TargetPeers, dials)
    IN  IF peer_count < target THEN target - peer_count
        ELSE IF /\ Cardinality(OutboundOnly(connected)) < min_outbound_only_peers
                /\ peer_count < max_outbound_dialing_peers
        THEN WrappingSub(SaturatingSub(max_outbound_dialing_peers, dials), peer_count)
        ELSE 0

\* Mutant: the dials of this answer are not counted.
Dialable_NotCounted(priority, dials) ==
    connected_or_dialing < IF priority THEN max_priority_peers ELSE max_peers

\* Whether a discovered peer is dialed beside those of the same answer.
Dialable(priority, dials) ==
    \/ priority /\ connected_or_dialing + dials < max_priority_peers
    \/ connected_or_dialing + dials < max_peers

\* The peers of an answer that may be dialed together, taken in any order; should_dial
\* refuses those that are connected or being dialed.  The ones in priority have a
\* min_ttl: we need them for a duty.
Dialed(results, priority) ==
    LET dialable == results \ (connected \cup dialing)
    IN  {dials \in SUBSET dialable :
            LET others == dials \ priority
                n == Cardinality(dials)
            IN  /\ others # {} => Dialable(FALSE, Cardinality(others) - 1)
                /\ dials # others => Dialable(TRUE, n - 1)
                /\ \A p \in dialable \ dials : ~Dialable(p \in priority, n)}

\* peers_discovered and the dial_peer of each peer it returns.  The search it asks for
\* is WantedPeers(Cardinality(dials)).
peers_discovered(results, priority) ==
    /\ prune = "Idle"
    /\ \E dials \in Dialed(results, priority) :
           peers_to_dial' = peers_to_dial \cup dials
    /\ UNCHANGED <<info, dialing, prune, localVars>>

\* A queued dial is started (inject_dialing).
Dial(p) ==
    /\ prune = "Idle"
    /\ p \in peers_to_dial
    /\ peers_to_dial' = peers_to_dial \ {p}
    /\ dialing' = dialing \cup ({p} \ connected)
    /\ UNCHANGED <<info, prune, localVars>>

DialFails(p) ==
    /\ prune = "Idle"
    /\ p \in dialing
    /\ dialing' = dialing \ {p}
    /\ UNCHANGED <<info, peers_to_dial, prune, localVars>>

\* inject_connection_established: over the limit, only a peer with a duty is kept.
peer_limit_reached(count_dialing) ==
    IF count_dialing THEN connected_or_dialing >= max_peers
    ELSE Cardinality(connected) >= max_outbound_dialing_peers

ConnectionEstablished(p, i) ==
    /\ prune = "Idle"
    /\ p \notin connected
    /\ dialing' = dialing \ {p}
    /\ info' = IF peer_limit_reached(~i.outbound) /\ ~i.duty THEN info
               ELSE [q \in connected \cup {p} |-> IF q = p THEN i ELSE info[q]]
    /\ UNCHANGED <<peers_to_dial, prune, localVars>>

ConnectionClosed(p) ==
    /\ prune = "Idle"
    /\ p \in connected
    /\ info' = [q \in connected \ {p} |-> info[q]]
    /\ UNCHANGED <<dialing, peers_to_dial, prune, localVars>>

\* A report, a metadata response, a subscription or the end of a duty changes what
\* is known of a connected peer.
PeerChanges(p, i) ==
    /\ prune = "Idle"
    /\ p \in connected
    /\ i.outbound = info[p].outbound
    /\ info' = [info EXCEPT ![p] = i]
    /\ UNCHANGED <<dialing, peers_to_dial, prune, localVars>>

\* heartbeat: it asks for WantedPeers(0), ends the dials that took too long and, after
\* the scores, which PeerChanges stands for, starts the pruning.
heartbeat ==
    /\ prune = "Idle"
    /\ \E timed_out \in SUBSET dialing : dialing' = dialing \ timed_out
    /\ prune' = IF Cardinality(connected) <= TargetPeers THEN "Idle" ELSE "Score"
    /\ UNCHANGED <<info, peers_to_dial, localVars>>

-----------------------------------------------------------------------------

\* The attestation subnets among long_lived_subnets.
long_lived_attnets(i) == IF i.metadata THEN i.attnets ELSE i.enr_attnets

\* The ENR counts even if there is metadata.
has_long_lived_subnet(i) ==
    \/ i.metadata /\ i.attnets # {} /\ i.gossip
    \/ i.metadata /\ i.syncnets # {}
    \/ i.enr_attnets # {} /\ i.gossip

Excess == SaturatingSub(Cardinality(connected), TargetPeers)

\* There are enough peers to prune.
Full == Cardinality(peers_to_prune) >= Excess

Remaining == connected \ peers_to_prune
OutboundCount == Cardinality(OutboundOnly(connected))

\* Mutant: the outbound peers that are pruned already are not counted.
SparesOutbound_NotCounted(i) == i.outbound => target_outbound_peers < OutboundCount

\* Pruning the peer would leave enough outbound peers.
SparesOutbound(i) ==
    i.outbound => target_outbound_peers + outbound_peers_pruned < OutboundCount

\* The filter of the prune_peers! macro.
Prunable(p, filter) == ~info[p].duty /\ filter /\ SparesOutbound(info[p])

Negative == {p \in Remaining : Prunable(p, info[p].negative)}
WithoutSubnet == {p \in Remaining : Prunable(p, ~has_long_lived_subnet(info[p]))}

Prune(p) ==
    /\ peers_to_prune' = peers_to_prune \cup {p}
    /\ outbound_peers_pruned' = outbound_peers_pruned + (IF info[p].outbound THEN 1 ELSE 0)

\* One of the first two steps, for a peer of the kind it looks for; peers with a bad
\* score are of equal rank here.
PrunePeers(step, peers) ==
    /\ prune = step /\ ~Full
    /\ \E p \in peers : Prune(p)
    /\ UNCHANGED <<countVars, prune, subnet_to_peer, sync_committee_peer_count,
                   sync_at_first>>

\* Whichever step found the last of the peers, the others are left out.
PruneEnough ==
    /\ prune \in {"Score", "NoSubnet", "Grouped"} /\ Full
    /\ prune' = "Disconnect"
    /\ UNCHANGED <<countVars, localVars>>

NoNegativeLeft ==
    /\ prune = "Score" /\ ~Full /\ Negative = {}
    /\ prune' = "NoSubnet"
    /\ UNCHANGED <<countVars, localVars>>

OnCommittee(c, peers) == Cardinality({p \in peers : c \in info[p].syncnets})

\* The third step begins by sorting the peers that remain by their subnets.
GroupBySubnet ==
    /\ prune = "NoSubnet" /\ ~Full /\ WithoutSubnet = {}
    /\ prune' = "Grouped"
    /\ subnet_to_peer' =
           [s \in AttSubnets |-> {p \in Remaining : s \in long_lived_attnets(info[p])}]
    /\ sync_committee_peer_count' = [c \in SyncSubnets |-> OnCommittee(c, Remaining)]
    /\ sync_at_first' = sync_committee_peer_count'
    /\ UNCHANGED <<countVars, peers_to_prune, outbound_peers_pruned>>

\* Pruning the peer leaves enough peers on each of its sync committees.
SparesCommittees(i) ==
    \A c \in i.syncnets : sync_committee_peer_count[c] > MIN_SYNC_COMMITTEE_PEERS

Largest(s) ==
    \A t \in AttSubnets : Cardinality(subnet_to_peer[t]) <= Cardinality(subnet_to_peer[s])

Candidates(s) ==
    {p \in subnet_to_peer[s] : SparesOutbound(info[p]) /\ SparesCommittees(info[p])}

\* The counts of the sync committees without the peer.
Uncounted(p) ==
    [c \in SyncSubnets |->
        IF c \in info[p].syncnets THEN SaturatingSub(sync_committee_peer_count[c], 1)
        ELSE sync_committee_peer_count[c]]

\* Mutant: no other subnet is tried.
PassedOver_All(s) == [t \in AttSubnets |-> {}]

\* Mutant: the subnet keeps its peers, and is the largest again.
PassedOver_None(s) == subnet_to_peer

PassedOver(s) == [subnet_to_peer EXCEPT ![s] = {}]

\* The third step's loop, on one of the subnets with the most peers: a candidate
\* with the fewest subnets goes, or, without one, all its peers are passed over.
PruneGrouped(s) ==
    /\ prune = "Grouped" /\ ~Full
    /\ Largest(s) /\ subnet_to_peer[s] # {}
    /\ \/ \E p \in Candidates(s) :
              /\ \A q \in Candidates(s) :
                     Cardinality(long_lived_attnets(info[p]))
                         <= Cardinality(long_lived_attnets(info[q]))
              /\ Prune(p)
              /\ subnet_to_peer' = [t \in AttSubnets |-> subnet_to_peer[t] \ {p}]
              /\ sync_committee_peer_count' = Uncounted(p)
       \/ /\ Candidates(s) = {}
          /\ subnet_to_peer' = PassedOver(s)
          /\ UNCHANGED <<peers_to_prune, outbound_peers_pruned, sync_committee_peer_count>>
    /\ UNCHANGED <<countVars, prune, sync_at_first>>

NoGroupLeft ==
    /\ prune = "Grouped" /\ ~Full
    /\ \A s \in AttSubnets : subnet_to_peer[s] = {}
    /\ prune' = "Disconnect"
    /\ UNCHANGED <<countVars, localVars>>

\* disconnect_peer of every pruned peer: it does not count as connected any more.
DisconnectPruned ==
    /\ prune = "Disconnect"
    /\ info' = [p \in Remaining |-> info[p]]
    /\ prune' = "Idle"
    /\ ResetLocals
    /\ UNCHANGED <<dialing, peers_to_dial>>

prune_excess_peers ==
    \/ PrunePeers("Score", Negative)
    \/ PrunePeers("NoSubnet", WithoutSubnet)
    \/ PruneEnough
    \/ NoNegativeLeft
    \/ GroupBySubnet
    \/ \E s \in AttSubnets : PruneGrouped(s)
    \/ NoGroupLeft
    \/ DisconnectPruned

Answers == {results \in SUBSET Peers : Cardinality(results) \in 1 .. 3}

PeerCountNext ==
    \/ \E results \in Answers : \E priority \in {{}, results} :
           peers_discovered(results, priority)
    \/ \E p \in Peers : Dial(p) \/ DialFails(p) \/ ConnectionClosed(p)
    \/ \E p \in Peers : \E i \in Profiles :
           ConnectionEstablished(p, i) \/ PeerChanges(p, i)
    \/ heartbeat
    \/ prune_excess_peers

PeerCountSpec == PeerCountInit /\ [][PeerCountNext]_peerCountVars

\* The loops of prune_excess_peers run to their end.
PeerCountFairSpec == PeerCountSpec /\ WF_peerCountVars(prune_excess_peers)

-----------------------------------------------------------------------------

AtLeast(n, m, count) == count >= IF n < m THEN n ELSE m

\* The documentation of prune_excess_peers: "Do not prune more peers than our target
\* peer count", over its three steps together.
NeverBelowTarget == prune # "Idle" => Cardinality(Remaining) >= TargetPeers

\* Its documentation, "Do not prune outbound peers to exceed our outbound target": the
\* steps share one count of outbound peers, and their guards differ in form.
OutboundKept ==
    AtLeast(target_outbound_peers, OutboundCount, Cardinality(OutboundOnly(Remaining)))

\* Its documentation, "do not prune a peer that would lower us below the
\* MIN_SYNC_COMMITTEE_PEERS peer count" when pruning by subnets: the third step leaves
\* every committee its minimum of peers, or those it had.
CommitteesKept ==
    prune \in {"Grouped", "Disconnect"} =>
        \A c \in SyncSubnets :
            AtLeast(MIN_SYNC_COMMITTEE_PEERS, sync_at_first[c], OnCommittee(c, Remaining))

\* No minimum is undercut, at any point of the three steps.
PruningSafe == PeerCountTypeOK /\ NeverBelowTarget /\ OutboundKept /\ CommitteesKept

\* What long_lived_subnets tells of the peer shows it to be of use.
OnSubnets(i) ==
    \/ long_lived_attnets(i) # {} /\ i.gossip
    \/ i.metadata /\ i.syncnets # {}

\* The peer's ENR has subnets that its metadata has not: the second step takes it for a
\* peer with subnets, the third for one without.
StaleEnr(i) == i.metadata /\ i.attnets = {} /\ i.enr_attnets # {} /\ i.gossip

\* A peer with a duty is pruned, if at all, only when no other peer with a bad score or
\* without subnets is left that could go instead, unless a stale ENR protects it.
DutyPrunedLast ==
    (\E p \in peers_to_prune : info[p].duty) =>
        \A q \in Remaining :
            \/ info[q].duty
            \/ ~info[q].negative /\ (OnSubnets(info[q]) \/ StaleEnr(info[q]))
            \/ ~SparesOutbound(info[q])

\* Pruning stops above the target only for a reason: each peer that is left is
\* needed as an outbound peer or on its sync committees, or is on no attestation subnet
\* and was passed over by the first two steps for a duty, for a sync committee or for a
\* stale ENR.
StopsForAReason ==
    prune = "Disconnect" /\ ~Full =>
        \A p \in Remaining :
            \/ ~SparesOutbound(info[p])
            \/ ~SparesCommittees(info[p])
            \/ /\ long_lived_attnets(info[p]) = {}
               /\ info[p].duty \/ OnSubnets(info[p]) \/ StaleEnr(info[p])

\* Who is pruned, and who is not, can be accounted for.
PrunedForAReason == DutyPrunedLast /\ StopsForAReason

\* The loop of the third step, which ends only when every list of peers is empty or
\* enough peers are found, comes to an end.
PruningEnds == prune # "Idle" ~> prune = "Idle"

\* An answer without peers for a duty, and a heartbeat, never make the number of peers
\* to search for wrap around: the limits of dials and of searches are ordered.
NoWrapWithoutDuty ==
    /\ WantedPeers(0) <= max_outbound_dialing_peers
    /\ \A results \in Answers : \A dials \in Dialed(results, {}) :
           WantedPeers(Cardinality(dials)) <= max_outbound_dialing_peers
=============================================================================
