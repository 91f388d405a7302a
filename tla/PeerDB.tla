------------------------------- MODULE PeerDB -------------------------------
(***************************************************************************)
(* The peer database (peer_manager/peerdb.rs): what the node remembers of  *)
(* every peer, and the three counters it keeps beside the map.             *)
(*                                                                         *)
(* The database is a value, and every method of PeerDB that changes it is  *)
(* an operator from databases to databases, so that a handler of the peer  *)
(* manager that calls several of them under its lock is one composition.   *)
(*                                                                         *)
(* Three data abstractions:                                                *)
(*  - a score is the state the code derives from it (ScoreState), or "Max" *)
(*    for Score::Max; which state a penalty or a decay leads to is a       *)
(*    parameter, bounded by PenaltyScores, DecayedScores, GossipsubScores;  *)
(*  - the instants `since` of disconnected and banned peers are only ever  *)
(*    compared, so the database keeps the relation "was set no later";     *)
(*  - a peer that is not in the map has status "Absent" and default fields.*)
(***************************************************************************)
EXTENDS Naturals, FiniteSets

CONSTANTS
    Peers,                          \* peer identities
    Ips,                            \* IP addresses
    Ports,                          \* TCP ports
    MAX_DC_PEERS,                   \* disconnected peers to remember
    MAX_BANNED_PEERS,               \* banned peers to remember
    BANNED_PEERS_PER_IP_THRESHOLD   \* an IP with more is banned

ASSUME PeersAssumption == IsFiniteSet(Peers)

ASSUME AddressesAssumption == IsFiniteSet(Ips) /\ IsFiniteSet(Ports)

ASSUME LimitsAssumption ==
    /\ MAX_DC_PEERS \in Nat
    /\ MAX_BANNED_PEERS \in Nat
    /\ BANNED_PEERS_PER_IP_THRESHOLD \in Nat

Sockets == [ip : Ips, port : Ports]

\* PeerConnectionStatus; Disconnecting { to_ban } is two values.
Statuses == {"Absent", "Unknown", "Dialing", "Connected", "Disconnecting",
             "DisconnectingToBan", "Disconnected", "Banned"}

\* ScoreState, from best to worst, below the score that nothing changes.
Scores == {"Max", "Healthy", "Disconnected", "Banned"}

Rank(sc) ==
    CASE sc = "Max" -> 3 [] sc = "Healthy" -> 2
      [] sc = "Disconnected" -> 1 [] sc = "Banned" -> 0

Databases ==
    [status : [Peers -> Statuses],
     score : [Peers -> Scores],
     trusted : [Peers -> BOOLEAN],
     seen : [Peers -> SUBSET Sockets],
     older : SUBSET (Peers \X Peers),
     disconnected_peers : Nat,
     banned_peers : Nat,
     banned_peers_per_ip : [Ips -> Nat]]

-----------------------------------------------------------------------------
(* Queries.                                                                *)

InState(d, S) == {p \in Peers : d.status[p] \in S}

Connected(d) == InState(d, {"Connected"})
Dialing(d) == InState(d, {"Dialing"})
Disconnected(d) == InState(d, {"Disconnected"})
Banned(d) == InState(d, {"Banned"})

\* Mutant: a peer that is only being dialed counts as connected.
is_connected_WhenDialing(d, p) == d.status[p] \in {"Connected", "Dialing"}

is_connected(d, p) == d.status[p] = "Connected"

is_connected_or_disconnecting(d, p) ==
    d.status[p] \in {"Connected", "Disconnecting", "DisconnectingToBan"}

is_ip_banned(d, ip) ==
    d.banned_peers_per_ip[ip] > BANNED_PEERS_PER_IP_THRESHOLD

\* PeerDB::ip_is_banned: one of the addresses the peer was seen on.
SeenOnBannedIp(d, p) == \E s \in d.seen[p] : is_ip_banned(d, s.ip)

\* Mutant: only the address is checked.
ban_status_ScoreIgnored(d, p) ==
    IF SeenOnBannedIp(d, p) THEN "BannedIp" ELSE "NotBanned"

ban_status(d, p) ==
    CASE d.status[p] = "Absent" -> "NotBanned"
      [] d.status[p] # "Absent" /\ d.score[p] = "Banned" -> "BadScore"
      [] d.status[p] # "Absent" /\ d.score[p] # "Banned" ->
            IF SeenOnBannedIp(d, p) THEN "BannedIp" ELSE "NotBanned"

should_dial(d, p) ==
    /\ d.status[p] \in {"Disconnected", "Unknown", "Absent"}
    /\ d.status[p] # "Absent" =>
         d.score[p] \notin {"Banned", "Disconnected"} /\ ~SeenOnBannedIp(d, p)

-----------------------------------------------------------------------------
(* The counters.  Subtraction saturates, as in the code.                   *)

SatSub(m, n) == IF m >= n THEN m - n ELSE 0

\* The addresses of the peers in S with this IP: seen_ip_addresses yields an
\* IP once for every port the peer was seen on.
SeenOn(d, S, ip) ==
    Cardinality({ps \in S \X Sockets : ps[2] \in d.seen[ps[1]] /\ ps[2].ip = ip})

add_banned_peer(d, p) ==
    [d EXCEPT !.banned_peers = @ + 1,
              !.banned_peers_per_ip =
                  [ip \in Ips |-> @[ip] + SeenOn(d, {p}, ip)]]

\* Mutant: an IP is discounted once per peer, however many addresses it has.
RemoveBanned_OncePerPeer(d, S) ==
    [d EXCEPT !.banned_peers = SatSub(@, Cardinality(S)),
              !.banned_peers_per_ip =
                  [ip \in Ips |->
                      SatSub(@[ip], Cardinality({p \in S : SeenOn(d, {p}, ip) > 0}))]]

\* remove_banned_peer for each peer of S.
RemoveBanned(d, S) ==
    [d EXCEPT !.banned_peers = SatSub(@, Cardinality(S)),
              !.banned_peers_per_ip =
                  [ip \in Ips |-> SatSub(@[ip], SeenOn(d, S, ip))]]

-----------------------------------------------------------------------------
(* Changing the connection state of one peer.                              *)

Forget(r, S) == {pq \in r : pq[1] \notin S /\ pq[2] \notin S}

\* The peers whose state carries an instant that shrink_to_fit compares.
Timed(d) == InState(d, {"Disconnected", "Banned"})

\* The peers of S enter such a state now: the other ones are older, and the
\* order within S is not determined.
Stamp(d, S) == Forget(d.older, S) \cup ((Timed(d) \cup S) \X S)

SetStatus(d, p, st) ==
    [d EXCEPT !.status[p] = st, !.older = Forget(@, {p})]

StampStatus(d, p, st) ==
    [d EXCEPT !.status[p] = st, !.older = Stamp(d, {p})]

\* Mutant: the counter is left alone.
OneLessDisconnected_Missing(d) == d

OneLessDisconnected(d) ==
    [d EXCEPT !.disconnected_peers = SatSub(@, 1)]

\* update_min_ttl for each peer of S: the entry is created if need be.  The
\* ttl itself is an input of the actions that read it (has_future_duty).
update_min_ttl(d, S) ==
    [d EXCEPT !.status = [p \in Peers |->
                              IF p \in S /\ @[p] = "Absent" THEN "Unknown" ELSE @[p]]]

\* What leaving its old state for Connected or Dialing does to the counters.
Leave(d, p) ==
    CASE d.status[p] = "Disconnected" -> OneLessDisconnected(d)
      [] d.status[p] = "Banned" -> RemoveBanned(d, {p})
      [] d.status[p] \notin {"Disconnected", "Banned"} -> d

ToConnected(d, p, socket) ==
    [SetStatus(Leave(d, p), p, "Connected") EXCEPT !.seen[p] = @ \cup {socket}]

\* set_dialing_peer refuses a peer that is connected, dialing or
\* disconnecting; the peer becomes trusted all the same.
ToDialing(d, p, trusted) ==
    LET tagged ==
            [d EXCEPT !.score[p] = IF d.status[p] = "Absent" /\ trusted THEN "Max" ELSE @,
                      !.trusted[p] = @ \/ trusted]
    IN  IF d.status[p] \in {"Absent", "Unknown", "Disconnected", "Banned"}
        THEN SetStatus(Leave(tagged, p), p, "Dialing")
        ELSE tagged

ToDisconnected(d, p) ==
    CASE d.status[p] \in {"Banned", "Disconnected"} -> d
      [] d.status[p] = "DisconnectingToBan" ->
            StampStatus(add_banned_peer(d, p), p, "Banned")
      [] d.status[p] \in {"Absent", "Unknown", "Dialing", "Connected",
                          "Disconnecting"} ->
            [StampStatus(d, p, "Disconnected") EXCEPT !.disconnected_peers = @ + 1]

ToDisconnecting(d, p) ==
    IF d.status[p] = "Disconnected"
    THEN SetStatus(OneLessDisconnected(d), p, "Disconnecting")
    ELSE SetStatus(d, p, "Disconnecting")

\* NewConnectionState::Banned is only requested for a peer whose score has
\* just become "Banned", which is never "Absent".
ToBanned(d, p) ==
    CASE d.status[p] = "Disconnected" ->
            OneLessDisconnected(StampStatus(add_banned_peer(d, p), p, "Banned"))
      [] d.status[p] \in {"Disconnecting", "DisconnectingToBan", "Connected",
                          "Dialing"} ->
            SetStatus(d, p, "DisconnectingToBan")
      [] d.status[p] = "Unknown" ->
            StampStatus(add_banned_peer(d, p), p, "Banned")
      [] d.status[p] \in {"Banned", "Absent"} -> d

\* Mutant: a connected peer is taken for one that is already disconnecting.
BanOperation_NoDisconnect(d, p) ==
    IF d.status[p] \in {"Disconnected", "Unknown", "Banned", "Absent"}
    THEN "ReadyToBan" ELSE "PeerDisconnecting"

\* The BanOperation that a request to ban returns to the peer manager.
BanOperation(d, p) ==
    CASE d.status[p] \in {"Disconnected", "Unknown", "Banned", "Absent"} -> "ReadyToBan"
      [] d.status[p] \in {"Disconnecting", "DisconnectingToBan"} -> "PeerDisconnecting"
      [] d.status[p] \in {"Connected", "Dialing"} -> "DisconnectThePeer"

\* NewConnectionState::Unbanned for each peer of S: a banned peer becomes a
\* disconnected one and keeps its instant; no other state changes.
ToUnbanned(d, S) ==
    LET B == S \cap Banned(d)
    IN  [RemoveBanned(d, B) EXCEPT
            !.status = [p \in Peers |-> IF p \in B THEN "Disconnected" ELSE @[p]],
            !.disconnected_peers = @ + Cardinality(B)]

-----------------------------------------------------------------------------
(* shrink_to_fit: the oldest banned, then the oldest disconnected peers are *)
(* dropped until the counters are back at their limits.                     *)

Drop(d, S) ==
    [d EXCEPT !.status = [p \in Peers |-> IF p \in S THEN "Absent" ELSE @[p]],
              !.score = [p \in Peers |-> IF p \in S THEN "Healthy" ELSE @[p]],
              !.trusted = [p \in Peers |-> p \notin S /\ @[p]],
              !.seen = [p \in Peers |-> IF p \in S THEN {} ELSE @[p]],
              !.older = Forget(@, S)]

\* Mutant: the newest peers.
Oldest_Newest(d, S, k) ==
    {R \in SUBSET S :
        /\ \/ Cardinality(R) = k
           \/ R = S /\ Cardinality(S) < k
        /\ \A r \in R, s \in S \ R : <<s, r>> \in d.older}

\* What a loop that removes the oldest peer of S, k times, can remove.
Oldest(d, S, k) ==
    {R \in SUBSET S :
        /\ \/ Cardinality(R) = k
           \/ R = S /\ Cardinality(S) < k
        /\ \A r \in R, s \in S \ R : <<r, s>> \in d.older}

ExcessBanned(d) == SatSub(d.banned_peers, MAX_BANNED_PEERS)

ExcessDisconnected(d) == SatSub(d.disconnected_peers, MAX_DC_PEERS)

\* With fewer banned peers in the map than the counter claims, the loop ends
\* by resetting the counters.
DropBanned(d, R) ==
    IF Cardinality(R) = ExcessBanned(d)
    THEN Drop(RemoveBanned(d, R), R)
    ELSE [Drop(d, R) EXCEPT !.banned_peers = 0,
                            !.banned_peers_per_ip = [ip \in Ips |-> 0]]

DropDisconnected(d, R) ==
    [Drop(d, R) EXCEPT !.disconnected_peers = SatSub(@, ExcessDisconnected(d))]

\* RB and RD are the banned and the disconnected peers that are purged.
shrink_to_fit(d, RB, RD) == DropDisconnected(DropBanned(d, RB), RD)

-----------------------------------------------------------------------------
(* Scores.                                                                 *)

\* A penalty never touches a trusted peer or Score::Max, and a decay neither.
Exempt(d, p) == d.trusted[p] \/ d.score[p] = "Max"

\* The states a PeerAction can lead to: the same or a worse one.
PenaltyScores(d, p) ==
    IF Exempt(d, p) \/ d.status[p] = "Absent" THEN {d.score[p]}
    ELSE {sc \in Scores \ {"Max"} : Rank(sc) <= Rank(d.score[p])}

\* PeerAction::Fatal leads to the worst.
FatalScore(d, p) ==
    IF Exempt(d, p) \/ d.status[p] = "Absent" THEN d.score[p] ELSE "Banned"

\* What a decay of every known peer can lead to: the same or better states.
DecayedScores(d) ==
    {sc \in [Peers -> Scores] : \A p \in Peers :
        IF Exempt(d, p) \/ d.status[p] = "Absent" THEN sc[p] = d.score[p]
        ELSE sc[p] # "Max" /\ Rank(sc[p]) >= Rank(d.score[p])}

\* Gossipsub's scores of the connected peers move them either way; here being
\* trusted is no exemption, only Score::Max is.
GossipsubScores(d) ==
    {sc \in [Peers -> Scores] : \A p \in Peers :
        IF d.status[p] # "Connected" \/ d.score[p] = "Max" THEN sc[p] = d.score[p]
        ELSE sc[p] # "Max"}

handle_score_transition(old, new, status) ==
    CASE new = "Banned" /\ old \in {"Max", "Healthy", "Disconnected"} -> "Banned"
      [] new = "Disconnected" /\ old \in {"Banned", "Healthy", "Max"} ->
            IF status \in {"Connected", "Dialing"} THEN "Disconnected"
            ELSE IF old = "Banned" THEN "Unbanned" ELSE "NoAction"
      [] new \in {"Healthy", "Max"} /\ old = "Banned" -> "Unbanned"
      [] new = old \/ (new \in {"Healthy", "Max"} /\ old # "Banned") -> "NoAction"

\* The transitions that the new scores sc of the peers in S amount to.
Transition(d, sc, S, result) ==
    {p \in S : handle_score_transition(d.score[p], sc[p], d.status[p]) = result}

SetScores(d, sc, S) ==
    [d EXCEPT !.score = [p \in Peers |-> IF p \in S THEN sc[p] ELSE @[p]]]

report_peer(d, p, sc) ==
    LET scored == [d EXCEPT !.score[p] = sc]
        result == handle_score_transition(d.score[p], sc, d.status[p])
    IN  CASE result = "Banned" -> ToBanned(scored, p)
          [] result = "Disconnected" -> ToDisconnecting(scored, p)
          [] result \in {"NoAction", "Unbanned"} -> scored

\* The ScoreUpdateResult of that report, the ban operations spelled out.
ReportResult(d, p, sc) ==
    LET result == handle_score_transition(d.score[p], sc, d.status[p])
    IN  CASE result = "Banned" -> BanOperation(d, p)
          [] result = "Disconnected" -> "Disconnect"
          [] result \in {"NoAction", "Unbanned"} -> "NoAction"

\* Every known peer decays; the ones that leave the banned state are unbanned.
Known(d) == {p \in Peers : d.status[p] # "Absent"}

update_scores(d, sc) ==
    ToUnbanned(SetScores(d, sc, Known(d)), Transition(d, sc, Known(d), "Unbanned"))

\* Every connected peer takes the score gossipsub gives it.
update_gossipsub_scores(d, sc) ==
    LET to_ban == Transition(d, sc, Connected(d), "Banned")
        to_disconnect == Transition(d, sc, Connected(d), "Disconnected")
    IN  [SetScores(d, sc, Connected(d)) EXCEPT
            !.status = [p \in Peers |->
                           IF p \in to_ban THEN "DisconnectingToBan"
                           ELSE IF p \in to_disconnect THEN "Disconnecting"
                           ELSE @[p]]]

-----------------------------------------------------------------------------
(* cleanup_dialing_peers, for the peers T whose dial has timed out.         *)

cleanup_dialing_peers(d, T) ==
    [d EXCEPT !.status = [p \in Peers |-> IF p \in T THEN "Disconnected" ELSE @[p]],
              !.older = Stamp(d, T),
              !.disconnected_peers = @ + Cardinality(T)]

\* notify_disconnecting(_, false), for the connected peers of S.
ToDisconnectingAll(d, S) ==
    [d EXCEPT !.status = [p \in Peers |-> IF p \in S THEN "Disconnecting" ELSE @[p]]]

NewDatabase(trusted_peers) ==
    [status |-> [p \in Peers |-> IF p \in trusted_peers THEN "Unknown" ELSE "Absent"],
     score |-> [p \in Peers |-> IF p \in trusted_peers THEN "Max" ELSE "Healthy"],
     trusted |-> [p \in Peers |-> p \in trusted_peers],
     seen |-> [p \in Peers |-> {}],
     older |-> {},
     disconnected_peers |-> 0,
     banned_peers |-> 0,
     banned_peers_per_ip |-> [ip \in Ips |-> 0]]
=============================================================================
