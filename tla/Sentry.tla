------------------------------- MODULE Sentry -------------------------------
(***************************************************************************)
(* The sentry's main loop (sentry.rs, Sentry::start) on top of the peer     *)
(* manager: the commands that add and remove trusted peers, and the loop's  *)
(* reaction to the events of the network.                                   *)
(***************************************************************************)
EXTENDS PeerManager

VARIABLES
    trusted_peers,    \* the loop's own set
    explicit_peers    \* the explicit peers of gossipsub

sentryVars == <<trusted_peers, explicit_peers>>
allVars == <<vars, sentryVars>>

\* The types of the peer manager and of the loop's own sets, with commands from
\* the handle interleaved with every handler.
SentryTypeOK ==
    /\ TypeOK
    /\ trusted_peers \subseteq Peers
    /\ explicit_peers \subseteq Peers

SentryInit ==
    /\ Init
    /\ trusted_peers = {}
    /\ explicit_peers = {}

\* SentryCommand::AddTrusted.
AddTrusted(p) ==
    /\ \/ /\ ~is_connected(db, p)
          /\ QueueDials(<<p>>, TRUE)
          /\ trusted_peers' = trusted_peers \cup {p}
       \/ /\ is_connected(db, p)
          /\ UNCHANGED <<peers_to_dial, trusted_peers>>
    /\ UNCHANGED <<db, events, ping_peers, status_peers, swarmVars, informed, explicit_peers>>

\* SentryCommand::RemoveTrusted; remove_trusted untags the peer in the database.
RemoveTrusted(p) ==
    /\ \/ /\ p \in trusted_peers
          /\ trusted_peers' = trusted_peers \ {p}
          /\ explicit_peers' = explicit_peers \ {p}
          /\ db' = [db EXCEPT !.trusted[p] = FALSE]
       \/ /\ p \notin trusted_peers
          /\ UNCHANGED <<trusted_peers, explicit_peers, db>>
    /\ UNCHANGED <<events, peers_to_dial, ping_peers, status_peers, swarmVars, informed>>

\* Mutant: every peer that connects becomes an explicit peer.
NetworkEvent_AllExplicit ==
    /\ PollEvent
    /\ explicit_peers' =
           IF Head(events).kind = "PeerConnected"
           THEN explicit_peers \cup {Head(events).peer} ELSE explicit_peers
    /\ UNCHANGED trusted_peers

\* NetworkEvent::PeerConnectedIncoming and PeerConnectedOutgoing; the other
\* events change nothing here.
NetworkEvent ==
    /\ PollEvent
    /\ explicit_peers' =
           IF Head(events).kind = "PeerConnected"
           THEN explicit_peers \cup ({Head(events).peer} \cap trusted_peers)
           ELSE explicit_peers
    /\ UNCHANGED trusted_peers

SentryNext ==
    \/ InnerNext /\ UNCHANGED sentryVars
    \/ NetworkEvent
    \/ \E p \in Peers : AddTrusted(p)
    \/ \E p \in Peers : RemoveTrusted(p)

SentrySpec == SentryInit /\ [][SentryNext]_allVars

-----------------------------------------------------------------------------

\* Whatever the order of commands and connection events, gossipsub keeps no explicit
\* peer that the sentry does not trust, and a trusted peer that is connected is an
\* explicit one, or becomes one when the queued event that announces its connection
\* is handled.
ExplicitMatchTrusted ==
    /\ SentryTypeOK
    /\ explicit_peers \subseteq trusted_peers
    /\ \A p \in trusted_peers \cap Connected(db) :
           p \in explicit_peers \/ ~NoneQueued(p, {"PeerConnected"})
=============================================================================
