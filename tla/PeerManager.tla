---------------------------- MODULE PeerManager ----------------------------
(***************************************************************************)
(* The peer manager (peer_manager/mod.rs, network_behaviour.rs) on top of  *)
(* the peer database, between the libp2p swarm below it and the network    *)
(* service above it (network/mod.rs, inject_pm_event).                     *)
(*                                                                         *)
(* Everything runs in one task: a handler is one action.  Between two      *)
(* handlers the swarm can open, refuse and close connections, so the state *)
(* of the swarm (conn, closing, dials, swarm_banned) is part of the model, *)
(* as an environment.  What the peer manager decides reaches the swarm     *)
(* later, through the queue `events` and the queue `peers_to_dial`.        *)
(***************************************************************************)
EXTENDS PeerDB, Sequences

CONSTANTS
    TargetPeers,            \* target_peers
    ReportAnyPeer,          \* may the application report any peer at any time?
    Backpressure,           \* may a connection event overtake queued events?
    BanOutlastsDisconnect,  \* is a disconnection shorter than BANNED_BEFORE_DECAY?
    MaxEvents,              \* bound on the events waiting when a handler runs
    MaxQueuedDials,         \* bound on peers_to_dial
    MaxDials                \* bound on the dials queued and in progress to a peer

ASSUME TargetAssumption == TargetPeers \in Nat

ASSUME FlagsAssumption ==
    {ReportAnyPeer, Backpressure, BanOutlastsDisconnect} \subseteq BOOLEAN

ASSUME BoundsAssumption ==
    MaxEvents \in Nat \ {0} /\ MaxQueuedDials \in Nat /\ MaxDials \in Nat

VARIABLES
    db,             \* network_globals.peers
    events,         \* PeerManager::events
    peers_to_dial,  \* PeerManager::peers_to_dial
    ping_peers,     \* inbound_ping_peers and outbound_ping_peers
    status_peers,   \* status_peers
    conn,           \* the peers with an established connection
    closing,        \* those whose connection is being shut down
    dials,          \* the number of dials in progress, per peer
    swarm_banned,   \* Swarm::banned_peers
    informed        \* the peers the application was told are connected

pmVars == <<db, events, peers_to_dial, ping_peers, status_peers>>
swarmVars == <<conn, closing, dials, swarm_banned>>
vars == <<db, events, peers_to_dial, ping_peers, status_peers,
          conn, closing, dials, swarm_banned, informed>>

\* PeerManagerEvent, without the requests (Ping, Status, MetaData, Discover*)
\* that leave every variable of this module alone.
EventKinds == {"PeerConnected", "PeerDisconnected", "DisconnectPeer", "Banned", "UnBanned"}

Events == [kind : EventKinds, peer : Peers]

Event(kind, p) == [kind |-> kind, peer |-> p]

\* Every variable keeps its type; in particular only an existing connection is
\* being shut down, whatever goodbyes and swarm bans the queue still holds.
TypeOK ==
    /\ db \in Databases
    /\ events \in Seq(Events)
    /\ peers_to_dial \in Seq([peer : Peers, trusted : BOOLEAN])
    /\ ping_peers \subseteq Peers
    /\ status_peers \subseteq Peers
    /\ conn \subseteq Peers
    /\ closing \subseteq conn
    /\ dials \in [Peers -> Nat]
    /\ swarm_banned \subseteq Peers
    /\ informed \subseteq Peers

\* The configuration may name trusted peers.
Init ==
    /\ \E trusted \in SUBSET Peers : db = NewDatabase(trusted)
    /\ events = <<>>
    /\ peers_to_dial = <<>>
    /\ ping_peers = {}
    /\ status_peers = {}
    /\ conn = {}
    /\ closing = {}
    /\ dials = [p \in Peers |-> 0]
    /\ swarm_banned = {}
    /\ informed = {}

-----------------------------------------------------------------------------
(* The limits: fractions of target_peers, rounded up.                      *)

max_peers == (11 * TargetPeers + 9) \div 10
max_outbound_dialing_peers == (12 * TargetPeers + 9) \div 10
max_priority_peers == (13 * TargetPeers + 9) \div 10

connected_peers(d) == Cardinality(Connected(d))
connected_or_dialing_peers(d) == Cardinality(InState(d, {"Connected", "Dialing"}))

peer_limit_reached(d, incoming) ==
    IF incoming THEN connected_or_dialing_peers(d) >= max_peers
    ELSE connected_peers(d) >= max_outbound_dialing_peers

-----------------------------------------------------------------------------
(* The queue of events.  A handler that iterates over a hash map pushes the *)
(* events of the peers it meets in any order.                               *)

Orders(S) ==
    {o \in [1 .. Cardinality(S) -> S] :
        \A i, j \in 1 .. Cardinality(S) : o[i] = o[j] => i = j}

EventsOf(kind, order) == [i \in DOMAIN order |-> Event(kind, order[i])]

\* Mutant: nobody is told.
UnbanEvents_Missing(order) == <<>>

\* The peers of a purge or of a decay whose swarm ban is lifted.
UnbanEvents(order) == EventsOf("UnBanned", order)

\* Mutant: the queue is a stack.
Push_Front(evs) ==
    /\ Len(events) < MaxEvents
    /\ events' = evs \o events

\* A handler runs, and pushes all its events, while fewer than MaxEvents wait.
Push(evs) ==
    /\ Len(events) < MaxEvents
    /\ events' = events \o evs

\* Connection events are delivered once the behaviours have nothing left to
\* do, unless the channel to a connection's handler is full.
SwarmMayDeliver == Backpressure \/ (events = <<>> /\ peers_to_dial = <<>>)

-----------------------------------------------------------------------------
(* Penalties.                                                              *)

\* handle_score_action and handle_ban_operation.
handle_score_action(p, result) ==
    /\ Push(CASE result \in {"DisconnectThePeer", "Disconnect"} -> <<Event("DisconnectPeer", p)>>
              [] result = "ReadyToBan" -> <<Event("Banned", p)>>
              [] result \in {"PeerDisconnecting", "NoAction"} -> <<>>)
    /\ ping_peers' = IF result = "Disconnect" THEN ping_peers \ {p} ELSE ping_peers

ReportWithScore(p, sc) ==
    /\ db' = report_peer(db, p, sc)
    /\ handle_score_action(p, ReportResult(db, p, sc))

\* goodbye_peer: a report with PeerAction::Fatal.
goodbye_peer(p) == ReportWithScore(p, FatalScore(db, p))

\* report_peer, goodbye_peer and handle_rpc_error.  The peer manager's own
\* callers react to what a connected peer sent.
ReportPeer(p) ==
    /\ ReportAnyPeer \/ p \in conn
    /\ \E sc \in PenaltyScores(db, p) : ReportWithScore(p, sc)
    /\ UNCHANGED <<peers_to_dial, status_peers, swarmVars, informed>>

\* update_gossipsub_scores.
UpdateGossipsubScores ==
    \E sc \in GossipsubScores(db) :
        LET banned == Transition(db, sc, Connected(db), "Banned")
            disconnected == Transition(db, sc, Connected(db), "Disconnected")
            unbanned == Transition(db, sc, Connected(db), "Unbanned")
        IN  /\ db' = update_gossipsub_scores(db, sc)
            /\ \E o \in Orders(banned \cup disconnected \cup unbanned) :
                   Push([i \in DOMAIN o |->
                           Event(IF o[i] \in unbanned THEN "UnBanned" ELSE "DisconnectPeer", o[i])])
            /\ ping_peers' = ping_peers \ disconnected
            /\ UNCHANGED <<peers_to_dial, status_peers, swarmVars, informed>>

-----------------------------------------------------------------------------
(* Connections.                                                            *)

inject_peer_connection(p, socket) ==
    /\ db' = ToConnected(db, p, socket)
    /\ ping_peers' = ping_peers \cup {p}
    /\ status_peers' = status_peers \cup {p}

disconnect_peer(p) ==
    /\ Push(<<Event("DisconnectPeer", p)>>)
    /\ db' = ToDisconnecting(db, p)

\* inject_connection_established.  has_future_duty of a known peer depends on
\* the clock.
ConnectionEstablished(p, incoming, socket) ==
    /\ conn' = conn \cup {p}
    /\ UNCHANGED <<peers_to_dial, closing, swarm_banned, informed>>
    /\ \/ /\ ban_status(db, p) # "NotBanned"
          /\ goodbye_peer(p)
          /\ UNCHANGED status_peers
       \/ /\ ban_status(db, p) = "NotBanned"
          /\ peer_limit_reached(db, incoming)
          /\ disconnect_peer(p)
          /\ UNCHANGED <<ping_peers, status_peers>>
       \/ /\ ban_status(db, p) = "NotBanned"
          /\ peer_limit_reached(db, incoming) => db.status[p] # "Absent"
          /\ inject_peer_connection(p, socket)
          /\ Push(<<Event("PeerConnected", p)>>)

\* A peer dials us.  The swarm allows one connection per peer.
IncomingConnection(p) ==
    /\ SwarmMayDeliver
    /\ p \notin conn \cup swarm_banned
    /\ \E socket \in Sockets : ConnectionEstablished(p, TRUE, socket)
    /\ UNCHANGED dials

DialDone(p) == dials[p] > 0 /\ dials' = [dials EXCEPT ![p] = @ - 1]

DialSucceeds(p) ==
    /\ SwarmMayDeliver
    /\ p \notin conn \cup swarm_banned
    /\ DialDone(p)
    /\ \E socket \in Sockets : ConnectionEstablished(p, FALSE, socket)

\* The swarm closes a connection to a banned peer and tells no behaviour.
DialReachesBannedPeer(p) ==
    /\ SwarmMayDeliver
    /\ p \in swarm_banned \ conn
    /\ DialDone(p)
    /\ UNCHANGED <<pmVars, conn, closing, swarm_banned, informed>>

\* Mutant: the ban that was waiting for the disconnection is not passed on.
PendingBan_Missing(d, p) == <<>>

\* The BanOperation of a peer that was awaiting a ban.
PendingBan(d, p) ==
    IF d.status[p] = "DisconnectingToBan" THEN <<Event("Banned", p)>> ELSE <<>>

\* inject_disconnect on the database d, after the events `first` of its caller.
InjectDisconnect(d, p, first) ==
    LET gone == ToDisconnected(d, p)
    IN  \E RB \in Oldest(gone, Banned(gone), ExcessBanned(gone)),
           RD \in Oldest(gone, Disconnected(gone), ExcessDisconnected(gone)) :
        \E o \in Orders(RB) :
        /\ db' = shrink_to_fit(gone, RB, RD)
        /\ Push(first
                \o PendingBan(d, p)
                \o UnbanEvents(o))
        /\ ping_peers' = ping_peers \ {p}
        /\ status_peers' = status_peers \ {p}

\* inject_connection_closed: either side may close at any time.
ConnectionClosed(p) ==
    /\ SwarmMayDeliver
    /\ p \in conn
    /\ conn' = conn \ {p}
    /\ closing' = closing \ {p}
    /\ InjectDisconnect(db, p, IF is_connected_or_disconnecting(db, p)
                               THEN <<Event("PeerDisconnected", p)>> ELSE <<>>)
    /\ UNCHANGED <<peers_to_dial, dials, swarm_banned, informed>>

\* inject_dial_failure on the database d.
InjectDialFailure(d, p) ==
    \/ /\ is_connected(d, p)
       /\ db' = d
       /\ UNCHANGED <<events, ping_peers, status_peers>>
    \/ /\ ~is_connected(d, p)
       /\ InjectDisconnect(d, p, <<>>)

DialFails(p) ==
    /\ SwarmMayDeliver
    /\ DialDone(p)
    /\ InjectDialFailure(db, p)
    /\ UNCHANGED <<peers_to_dial, conn, closing, swarm_banned, informed>>

-----------------------------------------------------------------------------
(* Dialing.                                                                *)

QueueDials(order, trusted) ==
    /\ Len(peers_to_dial) + Len(order) <= MaxQueuedDials
    /\ \A i \in DOMAIN order :
         Cardinality({j \in DOMAIN peers_to_dial : peers_to_dial[j].peer = order[i]})
             + dials[order[i]] < MaxDials
    /\ peers_to_dial' = peers_to_dial \o
           [i \in DOMAIN order |-> [peer |-> order[i], trusted |-> trusted]]

\* inject_discovery_event: peers_discovered, then dial_peer.  The peers of
\* `found` come in an arbitrary order, those of `needed` with a min_ttl;
\* `order` is the order in which the ones that pass are queued.
DialLimit(needed, p) == IF p \in needed THEN max_priority_peers ELSE max_peers

PeersDiscovered(found, needed) ==
    LET count == connected_or_dialing_peers(db)
        suitable == {p \in found : should_dial(db, p)}
    IN  \E D \in SUBSET suitable : \E order \in Orders(D) :
            /\ \A i \in DOMAIN order : count + i - 1 < DialLimit(needed, order[i])
            /\ \A p \in suitable \ D : count + Cardinality(D) >= DialLimit(needed, p)
            /\ db' = update_min_ttl(db, D \cap needed)
            /\ QueueDials(order, FALSE)
            /\ UNCHANGED <<events, ping_peers, status_peers, swarmVars, informed>>

\* dial_cached_enrs_in_subnet, for one cached peer.
DialCachedEnr(p) ==
    /\ should_dial(db, p)
    /\ QueueDials(<<p>>, FALSE)
    /\ UNCHANGED <<db, events, ping_peers, status_peers, swarmVars, informed>>

\* poll, when there are no events: the next dial is handed to the swarm, which
\* refuses at once to dial a peer that is connected or banned.
PollDial ==
    /\ events = <<>>
    /\ peers_to_dial # <<>>
    /\ peers_to_dial' = Tail(peers_to_dial)
    /\ LET p == Head(peers_to_dial).peer
           d == ToDialing(db, p, Head(peers_to_dial).trusted)
       IN  \/ /\ p \in conn \cup swarm_banned
              /\ InjectDialFailure(d, p)
              /\ UNCHANGED dials
           \/ /\ p \notin conn \cup swarm_banned
              /\ dials' = [dials EXCEPT ![p] = @ + 1]
              /\ db' = d
              /\ UNCHANGED <<events, ping_peers, status_peers>>
    /\ UNCHANGED <<conn, closing, swarm_banned, informed>>

-----------------------------------------------------------------------------
(* The network service handles the next event (inject_pm_event).  A goodbye *)
(* to a peer without a connection is lost; a swarm ban closes a connection. *)

\* Mutant: the goodbye is kept for the next connection.
GoodbyeTo_Unconnected(kind, p) == IF kind \in {"DisconnectPeer", "Banned"} THEN {p} ELSE {}

GoodbyeTo(kind, p) == IF kind \in {"DisconnectPeer", "Banned"} THEN {p} \cap conn ELSE {}

PollEvent ==
    /\ events # <<>>
    /\ events' = Tail(events)
    /\ LET kind == Head(events).kind
           p == Head(events).peer
       IN  /\ swarm_banned' = CASE kind = "Banned" -> swarm_banned \cup {p}
                                [] kind = "UnBanned" -> swarm_banned \ {p}
                                [] kind \notin {"Banned", "UnBanned"} -> swarm_banned
           /\ closing' = closing \cup GoodbyeTo(kind, p)
           /\ informed' = CASE kind = "PeerConnected" -> informed \cup {p}
                            [] kind = "PeerDisconnected" -> informed \ {p}
                            [] kind \notin {"PeerConnected", "PeerDisconnected"} -> informed
    /\ UNCHANGED <<db, peers_to_dial, ping_peers, status_peers, conn, dials>>

\* Mutant: messages of a peer that is gone are handled too.
RpcRequest_FromAnyPeer(p) ==
    /\ db.status[p] # "Absent"
    /\ ping_peers' = ping_peers \cup {p}
    /\ UNCHANGED <<db, events, peers_to_dial, status_peers, swarmVars, informed>>

\* inject_rpc_event: a PING restarts the ping timer, a STATUS the status timer.
\* The RPC behaviour may still have messages of a peer that is gone.
RpcRequest(p) ==
    /\ is_connected(db, p)
    /\ \/ ping_peers' = ping_peers \cup {p} /\ UNCHANGED status_peers
       \/ status_peers' = status_peers \cup {p} /\ UNCHANGED ping_peers
    /\ UNCHANGED <<db, events, peers_to_dial, swarmVars, informed>>

-----------------------------------------------------------------------------
(* The heartbeat: dials that timed out, decayed scores, excess peers.       *)

\* prune_excess_peers, without its choice among the connected peers.
Prunable(d, P) ==
    /\ P \subseteq Connected(d)
    /\ Cardinality(P) <= SatSub(connected_peers(d), TargetPeers)

Heartbeat ==
    \E T \in SUBSET Dialing(db) :
        LET cleaned == cleanup_dialing_peers(db, T)
        IN  \E sc \in DecayedScores(cleaned) :
                LET decayed == update_scores(cleaned, sc)
                    unbanned == Transition(cleaned, sc, Known(cleaned), "Unbanned")
                IN  \E P \in SUBSET Connected(decayed) :
                    \E u \in Orders(unbanned), o \in Orders(P) :
                        /\ BanOutlastsDisconnect =>
                             \A p \in closing \cup InState(db, {"DisconnectingToBan"}) :
                                 db.score[p] = "Banned" => sc[p] = "Banned"
                        /\ Prunable(decayed, P)
                        /\ db' = ToDisconnectingAll(decayed, P)
                        /\ Push(UnbanEvents(u) \o EventsOf("DisconnectPeer", o))
                        /\ UNCHANGED <<peers_to_dial, ping_peers, status_peers,
                                       swarmVars, informed>>

-----------------------------------------------------------------------------

\* Every step but the one that hands an event to the application.
InnerNext ==
    \/ \E p \in Peers : ReportPeer(p)
    \/ UpdateGossipsubScores
    \/ \E p \in Peers : IncomingConnection(p)
    \/ \E p \in Peers : DialSucceeds(p)
    \/ \E p \in Peers : DialReachesBannedPeer(p)
    \/ \E p \in Peers : ConnectionClosed(p)
    \/ \E p \in Peers : DialFails(p)
    \/ \E found \in SUBSET Peers : \E needed \in SUBSET found : PeersDiscovered(found, needed)
    \/ \E p \in Peers : DialCachedEnr(p)
    \/ PollDial
    \/ \E p \in Peers : RpcRequest(p)
    \/ Heartbeat

Next == InnerNext \/ PollEvent

Spec == Init /\ [][Next]_vars

\* The task that polls the network never stops, so queues are drained, dials
\* end and a connection that is being shut down closes (the RPC handler gives
\* up after SHUTDOWN_TIMEOUT_SECS, the swarm at once).  Fairness is strong where
\* the queues of the behaviours come first: an event that is ready in the pool of
\* connections stays ready, and is not passed over each time they are empty.
Fairness ==
    /\ WF_vars(PollEvent)
    /\ WF_vars(PollDial)
    /\ \A p \in Peers :
         /\ SF_vars(DialSucceeds(p) \/ DialFails(p) \/ DialReachesBannedPeer(p))
         /\ SF_vars(p \in closing /\ ConnectionClosed(p))

FairSpec == Spec /\ Fairness

-----------------------------------------------------------------------------
(* Safety.                                                                 *)

\* The counter disconnected_peers is the number of disconnected peers in the
\* map, whatever the order of dials, closures, bans, decays and purges: the
\* saturating subtractions of update_connection_state never hide an error.
DisconnectedCounted == db.disconnected_peers = Cardinality(Disconnected(db))

\* BannedPeersCount agrees with the map: as many banned peers, and for every IP
\* as many addresses of banned peers.
BannedCounted ==
    /\ db.banned_peers = Cardinality(Banned(db))
    /\ \A ip \in Ips : db.banned_peers_per_ip[ip] = SeenOn(db, Banned(db), ip)

\* The last queued event for p with one of these kinds is of kind k.
LastQueued(p, kinds, k) ==
    \E i \in DOMAIN events :
        /\ events[i] = Event(k, p)
        /\ \A j \in DOMAIN events :
             events[j].peer = p /\ events[j].kind \in kinds => j <= i

NoneQueued(p, kinds) ==
    \A i \in DOMAIN events : ~(events[i].peer = p /\ events[i].kind \in kinds)

\* Once the queue is drained, the swarm refuses p.
WillBeBanned(p) ==
    LET kinds == {"Banned", "UnBanned"}
    IN  LastQueued(p, kinds, "Banned") \/ (NoneQueued(p, kinds) /\ p \in swarm_banned)

\* Every peer that the database calls banned is refused by the swarm as soon as
\* the queued events are handled, and has a banned score, whose decay is what
\* unbans it.
BanEnforced == \A p \in Banned(db) : WillBeBanned(p) /\ db.score[p] = "Banned"

\* A peer that the database calls connected has a connection, and neither a
\* banned score nor a swarm ban.
ConnectedIsConnected ==
    \A p \in Connected(db) :
        p \in conn /\ db.score[p] # "Banned" /\ ~WillBeBanned(p)

\* Ping and status timers run only for registered peers, so that none outlives
\* its connection, not even when RPC messages come late.
TimersFollowConnections ==
    ping_peers \cup status_peers
        \subseteq InState(db, {"Connected", "Disconnecting", "DisconnectingToBan"})

\* Once the queue is drained, the application takes p for connected.
WillBeInformed(p) ==
    LET kinds == {"PeerConnected", "PeerDisconnected"}
    IN  LastQueued(p, kinds, "PeerConnected") \/ (NoneQueued(p, kinds) /\ p \in informed)

\* The application learns of every connected peer, and no earlier
\* disconnection of that peer is reported after it.
ConnectedIsAnnounced == \A p \in Connected(db) : WillBeInformed(p)

-----------------------------------------------------------------------------
(* Action properties.                                                      *)

\* When a peer leaves the banned state because its score decayed or because it
\* is purged, the swarm's ban is lifted too.  (Dialing it is the other way out.)
UnbanIsPropagated ==
    [][peers_to_dial' = peers_to_dial =>
        \A p \in Banned(db) \ Banned(db)' : ~WillBeBanned(p)']_vars

\* The peer has a connection that is neither registered nor on its way out: no goodbye
\* is queued and nothing shuts it down.
Unattended(p) ==
    /\ p \in conn \ (Connected(db) \cup closing)
    /\ NoneQueued(p, {"DisconnectPeer", "Banned"})

\* No connection is left unattended, whether it is refused or its peer is disconnected,
\* banned, pruned, dialed or purged, with one exception: the goodbye to a peer that is
\* refused for its score or its address has no effect if the peer is exempt from
\* penalties.
NoForgottenConnection ==
    [][\A p \in Peers :
          ~Unattended(p) /\ Unattended(p)' =>
              p \notin conn /\ ban_status(db, p) # "NotBanned" /\ Exempt(db, p)]_vars

Forgotten(p) == db.status[p] # "Absent" /\ db'.status[p] = "Absent"

Kept(p, st) == db.status[p] = st /\ db'.status[p] = st

\* The numbers of peers kept by the database are within their limits.
WithinLimits(d) ==
    /\ Cardinality(Banned(d)) <= MAX_BANNED_PEERS
    /\ Cardinality(Disconnected(d)) <= MAX_DC_PEERS

\* shrink_to_fit: when a connection closes, the database is back within its limits,
\* and what is forgotten are, among the disconnected and among the banned peers, the
\* ones that have been so for longest.  (A dial that the swarm refuses at once
\* renews the instant of the peer in the same step.)
ShrinksToFit ==
    [][/\ conn' \subseteq conn /\ conn' # conn => WithinLimits(db)'
       /\ peers_to_dial' = peers_to_dial =>
            \A p, q \in Peers :
                /\ Forgotten(p)
                /\ db.status[p] \in {"Disconnected", "Banned"}
                /\ Kept(q, db.status[p])
                => <<p, q>> \in db.older]_vars

-----------------------------------------------------------------------------
(* Liveness.                                                               *)

\* A peer does not stay in the disconnecting state.
DisconnectingEnds ==
    \A p \in Peers :
        db.status[p] \in {"Disconnecting", "DisconnectingToBan"}
            ~> db.status[p] \notin {"Disconnecting", "DisconnectingToBan"}

\* A peer does not stay in the dialing state, which counts against the limits.
DialingEnds == \A p \in Peers : db.status[p] = "Dialing" ~> db.status[p] # "Dialing"

\* No peer is stuck between two connection states, although the results of dials and
\* disconnections come late, in any order, or for a connection that is gone.
PassingStatesEnd == DisconnectingEnds /\ DialingEnds

\* A peer with a banned score loses its connection.
BannedPeerIsDisconnected ==
    \A p \in Peers : p \in conn /\ db.score[p] = "Banned" ~> p \notin conn
=============================================================================
