------------------------------- MODULE Gossip -------------------------------
(***************************************************************************)
(* What the network service does with gossipsub (network/mod.rs) and the    *)
(* cache of messages that could not be published (network/gossip_cache.rs). *)
(*                                                                         *)
(* Gossipsub knows which peers subscribe to which topics and reports every  *)
(* change in an event, which the service handles later: events is what is   *)
(* still to be handled.  The service notes the subnets of each peer in the  *)
(* peer database and, when a peer subscribes, tries the cached messages of  *)
(* the topic again.                                                         *)
(***************************************************************************)
EXTENDS Naturals, Sequences, FiniteSets, Functions

CONSTANTS
    Peers,
    Kinds,          \* the gossip kinds
    SubnetKinds,    \* the kinds of attestation and sync committee subnets
    Timeout,        \* per kind, the ticks a message is kept; 0 is None
    Forks,          \* the fork digests of the topics that are known
    OurFork,        \* the one of the local ENR
    Datas,
    MaxEvents       \* bound on the events that wait

ASSUME GossipAssumption ==
    /\ SubnetKinds \subseteq Kinds
    /\ Timeout \in [Kinds -> Nat]
    /\ OurFork \in Forks
    /\ IsFiniteSet(Kinds) /\ IsFiniteSet(Datas)
    /\ MaxEvents \in Nat

Topics == [kind : Kinds, fork_digest : Forks]

\* As many keys of the delay queue as it can ever need.
Keys == 1 .. Cardinality(Kinds) * Cardinality(Datas)

VARIABLES
    expirations,    \* the delay queue: what is stored under each key in use
    topic_msgs,     \* the cache: for a topic, the key of each message
    connected,      \* the peers gossipsub is connected to
    registered,     \* those that are connected in the peer database, too
    subscribed,     \* the topics gossipsub knows a peer subscribes to
    events,         \* gossipsub's events that are not handled yet
    subnets,        \* PeerInfo::subnets, for the peers of the database
    age,            \* history: ticks since a message last failed to be published
    dropped         \* history: the kinds whose last change was an unsubscription

gossipVars == <<expirations, topic_msgs, connected, registered, subscribed, events,
                subnets, age, dropped>>
cacheVars == <<expirations, topic_msgs, age>>
peerVars == <<connected, registered, subscribed, subnets, dropped>>

GossipEvents ==
    [type : {"Subscribed", "Unsubscribed"}, peer : Peers, topic : Topics]

\* Functions from some subset of S.
Partial(S, T) == UNION {[D -> T] : D \in SUBSET S}

\* The cache and the delay queue have their types; no topic is kept in the cache
\* once its last message has been retried or has expired.
GossipTypeOK ==
    /\ DOMAIN expirations \subseteq Keys
    /\ \A k \in DOMAIN expirations :
           expirations[k] \in [topic : Topics, data : Datas, left : Nat]
    /\ DOMAIN topic_msgs \subseteq Topics
    /\ \A t \in DOMAIN topic_msgs :
           /\ topic_msgs[t] \in Partial(Datas, Keys)
           /\ DOMAIN topic_msgs[t] # {}
    /\ connected \subseteq Peers /\ registered \subseteq connected
    /\ subscribed \in [Peers -> SUBSET Topics]
    /\ events \in Seq(GossipEvents) /\ Len(events) <= MaxEvents
    /\ subnets \in [Peers -> SUBSET SubnetKinds]
    /\ age \in [Topics \X Datas -> Nat]
    /\ dropped \in [Peers -> SUBSET Kinds]

Empty == [x \in {} |-> {}]

GossipInit ==
    /\ expirations = Empty
    /\ topic_msgs = Empty
    /\ connected = {} /\ registered = {}
    /\ subscribed = [p \in Peers |-> {}]
    /\ events = <<>>
    /\ subnets = [p \in Peers |-> {}]
    /\ age = [m \in Topics \X Datas |-> 0]
    /\ dropped = [p \in Peers |-> {}]

-----------------------------------------------------------------------------

Updated(f, x, y) == [z \in DOMAIN f \cup {x} |-> IF z = x THEN y ELSE f[z]]

\* Two keys never name the same message: DelayQueue::insert takes a free one.
FreeKey(queue) == CHOOSE k \in Keys : k \notin DOMAIN queue

Msgs(t) == IF t \in DOMAIN topic_msgs THEN topic_msgs[t] ELSE Empty

\* Mutant: a message that is in the cache already keeps its old time.
insert_NoReset(t, data) ==
    /\ age' = [age EXCEPT ![<<t, data>>] = 0]
    /\ IF Timeout[t.kind] = 0 \/ data \in DOMAIN Msgs(t)
       THEN UNCHANGED <<expirations, topic_msgs>>
       ELSE LET key == FreeKey(expirations)
                entry == [topic |-> t, data |-> data, left |-> Timeout[t.kind]]
            IN  /\ expirations' = Updated(expirations, key, entry)
                /\ topic_msgs' = Updated(topic_msgs, t, Updated(Msgs(t), data, key))

\* GossipCache::insert: a kind without a timeout is not kept; a message that is in
\* the cache already starts again.
insert(t, data) ==
    /\ age' = [age EXCEPT ![<<t, data>>] = 0]
    /\ IF Timeout[t.kind] = 0 THEN UNCHANGED <<expirations, topic_msgs>>
       ELSE LET key == IF data \in DOMAIN Msgs(t) THEN Msgs(t)[data]
                       ELSE FreeKey(expirations)
                entry == [topic |-> t, data |-> data, left |-> Timeout[t.kind]]
            IN  /\ expirations' = Updated(expirations, key, entry)
                /\ topic_msgs' = Updated(topic_msgs, t, Updated(Msgs(t), data, key))

\* Mutant: the delay queue keeps what was retrieved.
retrieve_KeepsTimers(t) ==
    /\ topic_msgs' = Restrict(topic_msgs, DOMAIN topic_msgs \ {t})
    /\ UNCHANGED <<expirations, age>>

\* GossipCache::retrieve.
retrieve(t) ==
    /\ expirations' = Restrict(expirations, DOMAIN expirations \ Range(Msgs(t)))
    /\ topic_msgs' = Restrict(topic_msgs, DOMAIN topic_msgs \ {t})
    /\ UNCHANGED age

\* The map without an expired message, and without the topic if it was its last.
Forgotten(t, data) ==
    LET rest == Restrict(Msgs(t), DOMAIN Msgs(t) \ {data})
    IN  topic_msgs' = IF DOMAIN rest = {}
                      THEN Restrict(topic_msgs, DOMAIN topic_msgs \ {t})
                      ELSE Updated(topic_msgs, t, rest)

\* Network::poll takes one expired message from the cache (GossipCache::poll_next).
Expire(k) ==
    /\ k \in DOMAIN expirations
    /\ expirations[k].left = 0
    /\ Forgotten(expirations[k].topic, expirations[k].data)
    /\ expirations' = Restrict(expirations, DOMAIN expirations \ {k})
    /\ UNCHANGED <<peerVars, events, age>>

\* Time passes for the delay queue; age counts only while a message is kept.
Tick ==
    /\ \E k \in DOMAIN expirations : expirations[k].left > 0
    /\ expirations' =
           [k \in DOMAIN expirations |->
               [expirations[k] EXCEPT !.left = IF @ = 0 THEN 0 ELSE @ - 1]]
    /\ age' = [m \in DOMAIN age |->
                  IF m[1] \in DOMAIN topic_msgs /\ m[2] \in DOMAIN Msgs(m[1])
                     /\ age[m] < Timeout[m[1].kind]
                  THEN age[m] + 1 ELSE age[m]]
    /\ UNCHANGED <<topic_msgs, peerVars, events>>

-----------------------------------------------------------------------------

\* Network::publish of one message: gossipsub takes it, refuses it for want of
\* peers, which scores can cause even with subscribers, or for another reason.
publish(kind, data) ==
    LET t == [kind |-> kind, fork_digest |-> OurFork]
    IN  /\ \/ insert(t, data)
           \/ UNCHANGED cacheVars
        /\ UNCHANGED <<peerVars, events>>

\* GossipsubEvent::Subscribed: the subnet is noted, and what waits for the topic is
\* published again; what fails again is lost.
HandleSubscribed(p, t) ==
    /\ subnets' = [subnets EXCEPT ![p] = @ \cup ({t.kind} \cap SubnetKinds)]
    /\ retrieve(t)

\* GossipsubEvent::Unsubscribed.
HandleUnsubscribed(p, t) ==
    /\ subnets' = [subnets EXCEPT ![p] = @ \ {t.kind}]
    /\ UNCHANGED cacheVars

\* inject_gs_event takes the oldest event.
InjectGsEvent ==
    /\ events # <<>>
    /\ events' = Tail(events)
    /\ LET e == Head(events)
       IN  \/ e.type = "Subscribed" /\ HandleSubscribed(e.peer, e.topic)
           \/ e.type = "Unsubscribed" /\ HandleUnsubscribed(e.peer, e.topic)
    /\ UNCHANGED <<connected, registered, subscribed, dropped>>

\* A connection is opened; the peer manager registers the peer, or refuses it and
\* leaves its record alone.
Connect(p) ==
    /\ p \notin connected
    /\ connected' = connected \cup {p}
    /\ registered' \in {registered, registered \cup {p}}
    /\ UNCHANGED <<cacheVars, subscribed, events, subnets, dropped>>

\* The peer manager disconnects or bans a peer: the connection lives on until the
\* goodbye is sent.
Unregister(p) ==
    /\ p \in registered
    /\ registered' = registered \ {p}
    /\ UNCHANGED <<cacheVars, connected, subscribed, events, subnets, dropped>>

\* Mutant: a dial that fails disconnects a peer that has connected meanwhile.
DialFailure_Connected(p) ==
    /\ subnets' = [subnets EXCEPT ![p] = {}]
    /\ UNCHANGED <<cacheVars, connected, registered, subscribed, events, dropped>>

\* A dial of the peer fails or times out: unless it is connected, its record becomes
\* that of a disconnected peer, even while an earlier connection is being closed.
DialFailure(p) ==
    /\ p \notin registered
    /\ subnets' = [subnets EXCEPT ![p] = {}]
    /\ UNCHANGED <<cacheVars, connected, registered, subscribed, events, dropped>>

\* The connection is closed: gossipsub and the peer database forget what the peer
\* subscribed to, but the events that wait stay.
Disconnect(p) ==
    /\ p \in connected
    /\ connected' = connected \ {p}
    /\ registered' = registered \ {p}
    /\ subscribed' = [subscribed EXCEPT ![p] = {}]
    /\ subnets' = [subnets EXCEPT ![p] = {}]
    /\ dropped' = [dropped EXCEPT ![p] = {}]
    /\ UNCHANGED <<cacheVars, events>>

\* A connected peer changes its subscriptions; gossipsub reports what is new.
PeerSubscribes(p, t) ==
    /\ p \in connected /\ t \notin subscribed[p] /\ Len(events) < MaxEvents
    /\ subscribed' = [subscribed EXCEPT ![p] = @ \cup {t}]
    /\ events' = Append(events, [type |-> "Subscribed", peer |-> p, topic |-> t])
    /\ dropped' = [dropped EXCEPT ![p] = @ \ {t.kind}]
    /\ UNCHANGED <<cacheVars, connected, registered, subnets>>

PeerUnsubscribes(p, t) ==
    /\ p \in connected /\ t \in subscribed[p] /\ Len(events) < MaxEvents
    /\ subscribed' = [subscribed EXCEPT ![p] = @ \ {t}]
    /\ events' = Append(events, [type |-> "Unsubscribed", peer |-> p, topic |-> t])
    /\ dropped' = [dropped EXCEPT ![p] = @ \cup {t.kind}]
    /\ UNCHANGED <<cacheVars, connected, registered, subnets>>

GossipNext ==
    \/ \E kind \in Kinds : \E data \in Datas : publish(kind, data)
    \/ \E k \in Keys : Expire(k)
    \/ Tick
    \/ InjectGsEvent
    \/ \E p \in Peers : Connect(p) \/ Unregister(p) \/ DialFailure(p) \/ Disconnect(p)
    \/ \E p \in Peers : \E t \in Topics : PeerSubscribes(p, t) \/ PeerUnsubscribes(p, t)

GossipSpec == GossipInit /\ [][GossipNext]_gossipVars

-----------------------------------------------------------------------------

Cached(t, data) == t \in DOMAIN topic_msgs /\ data \in DOMAIN topic_msgs[t]

\* The map and the delay queue name the same messages, key by key, whatever the
\* order of inserts, retries and expirations: otherwise DelayQueue::reset and remove
\* panic on a key that is gone, and poll_next on a topic that is.
KeysAgree ==
    /\ \A t \in DOMAIN topic_msgs : \A data \in DOMAIN topic_msgs[t] :
           LET k == topic_msgs[t][data]
           IN  /\ k \in DOMAIN expirations
               /\ expirations[k].topic = t
               /\ expirations[k].data = data
    /\ \A k \in DOMAIN expirations :
           LET e == expirations[k]
           IN  Cached(e.topic, e.data) /\ topic_msgs[e.topic][e.data] = k

\* The cache is consistent: the types and the keys of its two parts.
CacheConsistent == GossipTypeOK /\ KeysAgree

\* A message leaves the cache only to be published again, because the event of a
\* peer that subscribed to its topic is handled, or when its whole timeout has
\* passed since it last failed to be published.
KeptForItsTimeout ==
    [][\A t \in Topics : \A data \in Datas :
           Cached(t, data) /\ ~Cached(t, data)' =>
               \/ /\ events # <<>> /\ events' = Tail(events)
                  /\ Head(events).type = "Subscribed" /\ Head(events).topic = t
               \/ age[<<t, data>>] >= Timeout[t.kind]]_gossipVars

QueuedFor(p, kind) ==
    {i \in DOMAIN events : events[i].peer = p /\ events[i].topic.kind = kind}

\* PeerInfo::subnets is documented as the subnets the peer is connected to: a
\* subnet that gossipsub knows a connected peer subscribes to, under any fork digest,
\* is in the record of the peer, or the last event that waits for it will put it
\* there, unless the peer has unsubscribed from it under another digest since.
SubscribedIsRecorded ==
    \A p \in registered : \A t \in subscribed[p] :
        t.kind \in SubnetKinds \ dropped[p] =>
            LET queued == QueuedFor(p, t.kind)
            IN  /\ queued = {} => t.kind \in subnets[p]
                /\ \A i \in queued :
                       (\A j \in queued : j <= i) => events[i].type = "Subscribed"
=============================================================================
