# A TLA+ development of consentry

Consentry is an Ethereum consensus network sentry: a node that joins the libp2p
network of the beacon chain, keeps a bounded set of peers, listens to gossip and
answers a few RPC requests. Its network layer is adapted from `lighthouse_network`.
This directory holds TLA+ modules that model it, TLC configurations that check
them on small instances, and TLAPS proofs. `PROJECT.json` maps every definition to
the lines it models.

## 1. The system

All of the network code runs in one tokio task. `Sentry::start` (`sentry.rs`) loops over
a `select!` between commands of the `SentryHandle` and `Network::next_event`, which polls
the libp2p swarm; the swarm polls the composed behaviour (gossipsub, RPC, discovery, identify,
peer manager) and the connections. So handlers never run in parallel. What makes the
system hard is what lies *between* two handlers:

- decisions wait in queues (`PeerManager::events`, `peers_to_dial`, the RPC behaviour's and the
  handler's own queues) while the state they were taken from moves on;
- the swarm opens, refuses and closes connections on its own, and the result of a dial comes
  long after the dial, when the peer may have connected by itself or been banned;
- timers (heartbeat, dial timeout, ban decay, RPC timeouts, cache expirations) race with those results;
- discv5 changes the local ENR in a task of its own, and files are truncated before they are written;
- chunks, blocks and subscription events arrive in fragments, late and out of order;
- the peer database keeps counters *beside* its map and adjusts them with saturating
  subtraction, so a missed adjustment is never noticed where it happens.

### Components

| Component | State | Operations | What makes it correct |
|---|---|---|---|
| Peer database (`peer_manager/peerdb.rs`, `peer_info.rs`) | map of `PeerInfo` (connection state, score, seen addresses, trusted tag, `min_ttl`), `disconnected_peers`, `BannedPeersCount` (total and per IP) | `update_connection_state`, `report_peer`, `update_scores`, `update_gossipsub_scores`, `cleanup_dialing_peers`, `shrink_to_fit`, `dial_peer`, `set_trusted_peer`/`remove_trusted_peer` | counters equal what the map holds; limits are restored; the oldest entries are dropped; a ban stays until the score decays |
| Peer scores (`peerdb/score.rs`) | lighthouse score, gossipsub score, instant of the last update | penalties, decay with a half-life, 12 h before a banned score decays | state transitions follow thresholds; trusted peers are exempt |
| Peer manager (`peer_manager/mod.rs`, `network_behaviour.rs`) | `events`, `peers_to_dial`, ping and status timers | `report_peer`, `goodbye_peer`, `inject_connection_established/closed`, `inject_dial_failure`, `peers_discovered`, `dial_peer`, `poll`, `heartbeat` | bans and unbans reach the swarm; connected means connected; the application sees each connection and its end, in order; nobody stays dialing or disconnecting |
| Number of peers (`peer_manager/mod.rs`) | connected and dialing peers, the locals of `prune_excess_peers` | limits on connections, `peers_discovered`, `maintain_peer_count`, `prune_excess_peers` | pruning undercuts no minimum, ends, and takes the peers it is meant to take; the number of peers searched for is sensible |
| Network service (`network/mod.rs`) | the swarm, the subnets of peers | `inject_pm_event`, `inject_rpc_event`, `inject_discovery_event`, `inject_gs_event`, `publish` | events reach the component they are for; messages of gone peers are dropped; what gossipsub knows ends up in the peer database |
| Swarm (libp2p, external) | connections, dials, banned peers | connects, closes, refuses | one connection per peer (`network/utils.rs`, `MAX_CONNECTIONS_PER_PEER`) |
| Sentry loop (`sentry.rs`) | `trusted_peers`, gossipsub's explicit peers, chain status | `AddTrusted`, `RemoveTrusted`, reaction to events, `highest_status` | explicit peers are trusted, connected trusted peers are explicit; STATUS names real blocks and takes back nothing it said |
| RPC handler (`rpc/handler.rs`) | inbound and outbound substreams, `dial_queue`, `dial_negotiated`, `events_out`, shutdown state | `send_request`, `send_response`, `poll`, timeouts, retries, shutdown | every request has exactly one outcome; slots are returned; substreams do not leak |
| RPC behaviour, rate limiter (`rpc/mod.rs`, `rate_limiter.rs`) | GCRA bucket per peer and protocol | `allows`, `prune`, `inject_event`, `poll` | never more than the quota in a window; the wait that is told is right |
| RPC protocol and codec (`rpc/protocol.rs`, `codec/`) | read and write buffers, response code, context bytes and length of the current chunk | encode, decode | chunks are decoded in order, at once, with nothing of an earlier one; the reader never waits for what cannot come |
| Discovery (`discovery/mod.rs`) | `queued_queries`, `active_queries`, `find_peer_active`, cached ENRs | `discover_peers`, `add_subnet_query`, `process_queue`, `poll` | concurrency limit; retries are bounded; no request is forgotten; a search can always be started again |
| Local record (`discovery/enr.rs`, `discovery/mod.rs`, `network/utils.rs`, `network/mod.rs`) | key, ENR and metadata: in discv5, in `NetworkGlobals`, in three files | start-up, `update_enr_subnet`, `update_fork_version`, discv5's own updates | copies agree; a sequence number stands for one record, across restarts |
| Gossip cache (`network/gossip_cache.rs`) | messages per topic, delay queue | `insert`, `retrieve`, expiry | map and delay queue agree; a message is kept for its time |

Components interact by calls within the task and by shared state: `network_globals.peers`
(the peer database behind an `RwLock`) is read by RPC, discovery and the sentry loop and written
by the peer manager and by the sentry loop (`RemoveTrusted`). The peer manager speaks to the
network service only through `PeerManagerEvent`s; the network service turns them into
goodbyes, swarm bans and events for the sentry loop.

The hazards of the code, each at its line and with the properties that would catch it, are
listed in `PROJECT.json`.

## 2. Modules

| Module | Models | Extends |
|---|---|---|
| `PeerDB` | the peer database: operators from a database record to the next | |
| `PeerManager` | peer manager + network service + swarm: the state machine | `PeerDB` |
| `Sentry` | the sentry loop's trusted peers, composed with `PeerManager` | `PeerManager` |
| `PeerCount` | the number of peers: limits, dials, searches, the choice of `prune_excess_peers` | |
| `RequestLife` | what the RPC handler promises of a request: the responses it asked for, then its end | |
| `RpcHandler` | the RPC handler of one connection; shown to implement `RequestLife` | |
| `TokenBucket` | what the rate limiter promises: ideal buckets | |
| `RateLimiter` | the RPC behaviour's queue and its limiter; shown to implement `TokenBucket` | |
| `Codec` | one substream between an encoder and a decoder | |
| `Discovery` | the queries of discovery | |
| `LocalRecord` | the node's key, ENR and metadata, their files, crashes and restarts | |
| `Gossip` | publishing, the gossip cache, gossipsub's subscription events | |
| `ChainStatus` | the sentry loop's STATUS, composed with `Gossip` | `Gossip` |
| `MCPeerManager`, `MCSentry`, `MCRpcHandler`, `MCPeerCount`, `MCRateLimiter`, `MCCodec`, `MCChainStatus`, `MCLocalRecord` | instances for TLC: symmetry sets, functions and profiles | |
| `PeerManagerProofs` | what every operator of `PeerDB` does and preserves; the invariants and action properties of `PeerManager` and the invariant of `Sentry`, for all constants | `Sentry` |
| `PeerCountProofs` | the invariants of `PeerCount` | `PeerCount` |
| `RpcHandlerProofs` | the invariants of `RpcHandler` and its refinement | `RpcHandler` |
| `RateLimiterProofs` | the invariants of `RateLimiter` and its refinement, for all quotas | `RateLimiter` |
| `DiscoveryProofs` | the invariant and the action property of `Discovery` | `Discovery` |
| `ChainStatusProofs` | the invariants and action properties of `Gossip` and `ChainStatus` | `ChainStatus` |
| `LocalRecordProofs` | the invariants of `LocalRecord` | `LocalRecord` |
| `CodecProofs` | the invariants of `Codec`, for every compressor and all limits | `Codec` |

### PeerDB

A database is a record: per peer its `status` (`PeerConnectionStatus`, with `"Absent"` for a
peer that is not in the map and two values for `Disconnecting { to_ban }`), `score`, `seen`
addresses, `trusted` tag and `min_ttl`; the counters `disconnected_peers`, `banned_peers`,
`banned_peers_per_ip`; and `older`, the order of the instants stored in disconnected and banned
states. `update_connection_state` is split by its `NewConnectionState` argument:
`ToConnected`, `ToDialing`, `ToDisconnecting`, `ToDisconnected`, `ToBanned`, `ToUnbanned`.
`shrink_to_fit` takes the sets it removes, which the caller draws from `Oldest`. Subtraction of
counters saturates, as in the code.

Abstractions. A score is the `ScoreState` it amounts to (`Healthy`, `Disconnected`, `Banned`) or
`Max`; a penalty can lower it to any state, a decay can raise it, gossipsub's score can move it both
ways while the peer is connected (`PenaltyScores`, `DecayedScores`, `GossipsubScores`). Instants
are only ever compared, so the order is kept and the values are not. Fields that no decision
modelled here reads (client, sync status, metadata, ENR, subnets, listening addresses, the number of
connections) are left out.

### PeerManager

`db`, `events`, `peers_to_dial`, `ping_peers`, `status_peers` are fields of the peer manager; `conn`,
`closing`, `dials`, `swarm_banned` are the swarm; `informed` is what the application was told. At the start any peers may be
in the database as trusted ones (`config.trusted_peers`). One action per handler:

| Action | Code |
|---|---|
| `ReportPeer` | `report_peer`, `goodbye_peer`, `handle_rpc_error`, with the database's report, `handle_score_action` and the events they push |
| `UpdateGossipsubScores` | `update_gossipsub_scores` on the manager and the database |
| `IncomingConnection`, `DialSucceeds` | `inject_connection_established`: banned, over the limit, or registered |
| `DialReachesBannedPeer` | the swarm drops a connection of a banned peer (external) |
| `ConnectionClosed`, `DialFails` | `inject_connection_closed`, `inject_dial_failure`, both through `inject_disconnect` and `shrink_to_fit` |
| `PeersDiscovered`, `DialCachedEnr` | discovery results, `dial_cached_enrs_in_subnet` |
| `PollDial`, `PollEvent` | `poll` of the behaviour, and `inject_pm_event` |
| `RpcRequest` | the part of `inject_rpc_event` that restarts timers |
| `Heartbeat` | `cleanup_dialing_peers`, `update_scores`, `prune_excess_peers` |

Abstractions. Events that change nothing here (`Ping`, `Status`, `MetaData`, `Discover*`) are not
queued. A heartbeat prunes *any* set of connected peers within the code's bound: which ones
`prune_excess_peers` prefers depends on subnets, which `PeerCount` models. Limits are exact
fractions of `target_peers` rounded up where the code uses `f32`. Iteration over hash maps is in
any order.

The swarm is modelled from how the code uses it. It refuses at once to dial a peer
that is connected (`PeerCondition::Disconnected`) or banned; it closes connections of a banned peer; it
delivers connection events only after the behaviours have nothing left to do, except when a channel to a
connection's handler is full. `Backpressure` says whether that exception happens.

### Sentry

`trusted_peers` and `explicit_peers` (gossipsub's) are the loop's. `NetworkEvent` replaces `PollEvent`: the event goes through the network service
*and* the loop's reaction to it (a trusted peer that connects becomes explicit, and stays so until it is removed). `AddTrusted` and `RemoveTrusted` are the two commands, with the calls into the
database and the dial queue that they make.

### RequestLife and RpcHandler

The state of one `RPCHandler`, under its own names, with the swarm's side of it (`opening`, the upgrades in
progress) and three histories: `sent`, `reports` (what the application was told of each request, in order) and
`owed` (the chunks a peer's request may still be sent). Everything that is injected is one action: `SendRequest`, `SendResponse`,
`SendGoodbye` (`inject_event`), `OutboundNegotiated`, `DialUpgradeError`, `InboundNegotiated`, `InboundGoodbye`. `poll`
is a sequential function of 450 lines that returns at the first event it has; the variable `phase` is where it is, nothing is
injected before it is back in `"Waiting"`, and each step that depends on a timer or on a stream is an action of its phase:

| Phase | Actions | Code |
|---|---|---|
| `Waiting` | `PollEventsOut`, `PollShutdownTimer`, `PollBegin` | queued events first, then the shutdown timer |
| `Timers` | `ExpireInbound`, `ExpireOutbound`, `PollTimersDone` | the two delay queues |
| `Inbound` | `StartSending`, `SendingDone`, `SendingFails`, `PollInboundDone` | inbound substreams, driven until each blocks |
| `Outbound` | `ReceiveResponse`, `StreamEnds`, `StreamFails`, `SubstreamCloses`, `PollDialQueue`, `PollEnd` | outbound substreams, then the dial queue, then the end of a shutdown |

A stream that is not ready and a timer that has not expired are the steps that do not happen. A request stands for its substream, since it opens
at most one. A response is a success, an error or a termination; contents are left out. `StreamTermination` is never
received: the codec does not decode it. When `poll` returns `Close` the swarm drops the handler, so `"Deactivated"`
and `"Closed"` are final, and the code's branches for a deactivated handler are never reached. The loss of the connection is not a step: it
only ends the behaviour.

`RequestLife` has none of that. A request is `"New"`, `"Open"` when it was made, `"Ending"` when the last response it asked for or an error response has come, and
`"Over"`; `Ask`, `Respond`, `Refuse` (an error response), `Sent` (a goodbye), `Fail`, `EndEarly` and `End` say what the application is told at each change. `Stages` reads the stage from the place a request has in the
handler (`Stage(r)`: a closing substream is `"Ending"`, a request queued, upgrading, established or failed but not yet reported is `"Open"`), and `Life` is the instance of `RequestLife` with it. So queuing, retrying, shutting down and an error that waits in
`events_out` are stutters, and a timer that expires while a substream closes is a `Fail` after the response: the application may be told of an answer and then of a failure, and of nothing after that.

### PeerCount

`info` is what is known of each connected peer (sign of the score, direction, duty, the subnets of its metadata, those of its ENR, and whether gossipsub knows of one), `dialing` and
`peers_to_dial` the dials. The two functions on subnets differ as they do in the code: `long_lived_attnets` looks at the ENR only if there is no metadata, `has_long_lived_subnet` looks at both. `peers_discovered`, `Dial`, `DialFails`, `ConnectionEstablished`, `ConnectionClosed`, `PeerChanges` and
`heartbeat` are its actions; `WantedPeers` is the arithmetic of `maintain_peer_count`, with the subtraction that wraps. `prune_excess_peers` is a sequence of
loops over shared locals: `prune` says which loop runs, each round is an action, and nothing else happens before it is back at `"Idle"`.
Scores are ordered only by their sign, so that the order among negative ones is any; `f32` factors are percentages, rounded up.
`PeerManager` prunes any set within the same bound; `PeerCount` shows which.

### TokenBucket and RateLimiter

`RateLimiter` keeps the code's representation: one theoretical arrival time per bucket (`tat_per_key`), computed lazily, dropped by `Prune`, with the
interval of one token rounded down and the product of `rate_limiter.rs:272` taken modulo the width of the type, which requests of the instance exceed (`Exact` says which do not). `InjectRequest` is
`inject_event` with a request: charged, and queued for the application or answered with an error. `TokenBucket` has none of that: buckets that are
always there and drain with time. The refinement maps a bucket's debt to what its stored time still exceeds the clock by
(`DebtOfAll`). `since` and `used` are histories: an arbitrary beginning of an interval, and the tokens admitted from then on in requests whose cost did not wrap; `told` is the last wait a peer was told.
Time is a number of units, the answers are verdicts without texts.

### Codec

A substream is a protocol, a version and a direction. The writer's `encode` puts a chunk into `dst`, the network moves fragments of any
size to `src`, and `decode` consumes response code, context, length and body, keeping what it has of a chunk in three fields. A byte is its place in the
stream (`<<part, n>>`), so that a byte taken for the wrong part or the wrong chunk is seen; a payload is its length. Compressed sizes keep only the order
that matters: our encoder's (`Compressed`) are at most `max_compress_len` (`MaxCompressLen`), a foreign body may exceed it; a prefix takes `VarintLen` bytes, at most `MaxVarintLen`. `Send` and `Terminate` are our
encoder, `SendForeign` another program's, `Deliver`, `Cut`, `Eof` the network, `Poll` the reader's `Framed`, `TakeMetaData` the request without bytes.
The protocols' limits (`rpc_request_limits`, `rpc_response_limits`) are those of `protocol.rs` over the lengths of the messages.
Our encoder writes a block of any fork on either version of a protocol; on version 1 `decode` takes every block for one of the first fork, so a later one (`LaterFork`) is refused whatever its length.
Varints longer than their value needs, snappy's frames and SSZ contents are left out.

### Discovery

`queued_queries`, `active_queries` and `find_peer_active` are the code's fields; `subnet_queries` is the local of `process_queue`. `poll` first processes the
queue (`PollBegin`, `ProcessQueue`, `ProcessQueueDone`) and then takes results (`QueryEnds`, `QueryFails`) until one has peers to return or none is
ready (`PollEnd`); requests (`discover_peers`, `discover_subnet_peers`) come between two polls. Whether a subnet has enough peers by the time its group
starts is any choice. `attempts` is a history. The ENRs found and the routing table are left out; that a query ends is discv5's.

### LocalRecord

`disk` holds the three files, `node` the memory, and `todo` the steps that the running handler has still to take. Start-up is `Network::new` (`load_private_key`, `use_or_load_enr`,
`load_or_build_metadata`, the start of discv5); `update_enr_subnet` and `update_fork_version` are public operations of the network service, which insert a field into discv5's ENR and then copy it to the
globals and to disk, step by step; `SocketUpdate` is discv5's own change of the address (external), at any time, and `PollStream` and `PollSocketUpdated` are how discovery learns of it. A save is a truncation and a write:
either can fail, a write can stop early (`Partial`: 16 of the 17 bytes of a V2 metadata are a V1), and `Crash` can come between any two steps and keeps only the files. Others see an ENR as soon as discv5 has it, and the
metadata when they ask for it between two handlers.
`missed` says which copies a failure has left behind; `kept` becomes false when a crash or a failed read loses a record that others may have seen (`Recorded`), and from then on nothing is
said of sequence numbers. Histories of keys that are gone are dropped: a generated key never returns. The address, ports, fork and subnets of an ENR are model values; both kinds of subnets are one set. Discovery is enabled.
`update_enr_tcp_port` and `update_enr_udp_socket` are called by nothing. Two things are left out: an `enr_insert` that fails, which only an overflow of the sequence number can cause and the code only warns about while the
service's fork id changes all the same (`discovery/mod.rs:524`, `network/mod.rs:861`), and an event of discv5 dropped because its channel is full.

### Gossip and ChainStatus

`topic_msgs` and `expirations` are the cache's map and its delay queue, with keys that are taken and freed. `insert`, `retrieve` and `Expire` are
`GossipCache`'s operations; `publish` and `InjectGsEvent` call them. `connected`, `subscribed` and `events` are gossipsub (external): what it knows, and what it
has reported and the service has not handled. `registered` are the peers that the database has as connected, too: `Connect` registers a peer or refuses it, `Unregister` is any way in which the peer manager disconnects it before the
connection closes (`Disconnect`), and `DialFailure` is a failed or expired dial of a peer that is not registered, which clears its subnets even while an earlier connection lives on. `dropped` is a history: the kinds whose last change was an
unsubscription, under whichever fork digest. `ChainStatus` adds the loop's four variables and `ReceiveBlock`: the first block of a newer epoch is
queued, the third such block finalizes the first, and from then on a higher slot moves the head. A block stands for its root; blocks of every slot arrive, older ones than the built-in checkpoint included.

## 3. Runs

`tlc -workers 2 -config <cfg> <module>`.

| Run | Bounds | Shows |
|---|---|---|
| `any_report` | 2 peers, 1 address, limits 1, reports of any peer, backpressure | the counter of disconnected peers is exact, bans are enforced and reversible (`BanEnforced`), connected peers are connected and announced in order, timers are bound to connections, purges restore the limits and take the oldest (`ShrinksToFit`) |
| `two_ports` | 2 ports, 2 dials of a peer at once, any peers trusted at the start, reports of connected peers | per-address counts exact with several addresses, no connection is forgotten but that of an exempt peer that is refused (section 5), unbans reach the swarm |
| `liveness` | limits 0, fairness | nobody stays disconnecting or dialing; a banned peer loses its connection |
| `trusted` | `MCSentry`, limits 0/1 | explicit peers are trusted, and connected trusted peers are (about to be) explicit |
| `rpc_safety` | a single-response request, a request for 0 to 2 blocks, a goodbye, 1 inbound request, 2 slots, 2 attempts | no request is lost or duplicated, implements `RequestLife` (reports are in order, within what was asked, and end once), timers match substreams and slots never underflow (`BooksBalance`), an early close leaves nothing behind |
| `rpc_liveness` | a request for blocks, a goodbye, 1 inbound request, fairness | outbound substreams end, shutdown ends |
| `rate_limiter` | 1 peer, protocols of 1 token in 3 units and 3 tokens in 7, times modulo 16, clock up to 9 | quota kept over every interval by the requests whose cost is exact, waits exact, implements `TokenBucket` |
| `discovery` | 2 subnets, groups of 2, 1 subnet query at a time, 1 retry, clock up to 1, fairness | queue and queries consistent (`QueriesConsistent`), no request forgotten, every search ends, no subnet starves |
| `gossip_and_status` | 1 peer, 1 subnet under 2 fork digests, 2 messages kept for a tick, 3 waiting events, epochs of 2 slots, slots up to 8, built-in head 4 and finalized epoch 2 | map and delay queue agree, messages are kept for their time, subscriptions of connected peers are recorded, STATUS is consistent, and only the first finalization moves its finalized epoch back |
| `peer_count` | 4 peers of 7 profiles, target 1, limits 2 to 4, fairness | pruning undercuts no minimum (`PruningSafe`), takes and spares peers for a reason (a stale ENR is one), ends; searches do not wrap unless peers for a duty are dialed |
| `codec` | every protocol in both directions, 2 forks, 2 chunks, packets up to 4 | chunks decoded in order, waiting only for what can come, no failure before a chunk that is foreign or a later fork's block on version 1 |
| `local_record` | 2 keys, 3 configurations, 1 subnet, 1 reported address, ENR numbers up to 3, 1 failing operation on a file, any number of crashes and restarts | the copies of the record agree (`RecordsConsistent`), no sequence number is used twice (`SequenceKept`) |

`BooksBalance`, `QueriesConsistent`, `QueriesMove`, `PassingStatesEnd`, `RecordsConsistent`, `CacheConsistent`, `StatusConsistent`, `PruningSafe` and `PrunedForAReason` are conjunctions of named parts; each part has its own
comment, and the type invariant of the module is one of them.

**Bounds.** `Peers`: two, so that one peer can be purged, counted or preferred against another; a peer's
own protocol is independent of the others except through the counters and limits. `Ips`: one, shared
by both peers, and `Ports` one or two, since the only thing an address decides is whether it shares
an IP with others. `TargetPeers = 1` gives the limits 2 (`max_peers`), 2 (`max_outbound_dialing_peers`) and 2
(`max_priority_peers`): one peer can be in excess and two reach the limit. `MAX_DC_PEERS` and
`MAX_BANNED_PEERS` are 0 or 1, so that purges happen with the second (or first) peer.
`BANNED_PEERS_PER_IP_THRESHOLD = 1` makes an IP banned with two entries. `MaxEvents` bounds the events
*waiting when a handler starts*; a handler pushes all of its events, so a queue can grow beyond it.
`MaxQueuedDials` and `MaxDials` bound the dial queue and the dials of one peer.
For the RPC handler: two slots (8 in the code) and two attempts (3), so that a retry finds a slot, fails again and finds none;
one inbound substream at most (32), so that a second request is refused; counts of 0, 1 and 2 are the three cases `expected_responses`
tells apart; `MaxPending = 1` queued response, to which a timeout adds an error.
For the rate limiter: one bucket's time depends on no other bucket; one quota divides evenly and one is rounded (7 units and 3 tokens make an interval of 2), requests of 0 to 4
tokens fit, wait or are too large, one of 9 tokens costs 18, which wraps to 2 and is charged as one token, and 9 units let a bucket fill, drain, be pruned and fill again.
For discovery: two subnets that make one group or compete for the one slot; one retry (3 in the code), so that a query is retried and given up; two instants, so that a request
can expire before, with or after another.
For gossip: two messages of a topic, two fork digests, and three events, so that a subscription can be taken back under one digest, and renewed, before it is handled; five epochs, two of them before the built-in checkpoint, so that an epoch can be skipped,
another finalized later, and the first finalized block can be older than the checkpoint.
For the number of peers: with a target of 1 and factors of 100 % and 200 % (10 % and 20 % in the code) the limits are 2, 3 and 4, and up to three peers are in excess; the seven profiles
differ in everything the steps look at; among them are a peer whose ENR is out of date, one without metadata, and outbound peers for the first and for the third step. `UsizeValues = 16` is a small word.
For the local record: two keys, so that one can be lost; three ENR numbers, so that discv5 can change the ENR in the middle of an update and a restart can follow; one failing operation on a file, at any point, since
a crash, which costs nothing, already interrupts every save.
For the codec: lengths of one and of two bytes of prefix, below, at and above the limit; blocks of two forks, one length of which both have; two chunks, so that one can leave something behind for the next.

**Flags.** `ReportAnyPeer`: the library's own callers report peers that are connected; `Network::report_peer` and
`goodbye_peer` are public and can be called for any peer. `Backpressure`: see above.
`BanOutlastsDisconnect`: a peer is disconnected in seconds and a banned score stays for
`BANNED_BEFORE_DECAY` (12 hours), so a decay does not overtake the disconnection.

**Fairness** (`FairSpec`). Weak fairness of `PollEvent` and `PollDial`: the task polls for as long as
the program runs, and `poll` drains the queues. Strong fairness of the end of a dial and of
the end of a connection that is being shut down: the transport's dial timeout and the handler's
`SHUTDOWN_TIMEOUT_SECS` make both ready at some time, and what is ready in the pool stays so until the
behaviours are idle; it is *strong* because they are idle only now and then. The liveness
run has `Backpressure = TRUE`: without it, a handler that never lets the queues be empty could hold up the
pool for ever, which is a matter of load and not of this code. Nothing is assumed of reports,
incoming connections, discovery or the heartbeat.

For the RPC handler (`HandlerFairSpec`): weak fairness of `poll` (the connection's task goes on polling; wakers are not
modelled) and strong fairness of the shutdown timer and of the timers of outbound substreams, which stay expired until `poll` reaches them.
Nothing is assumed of the peer, of the application or of the streams. For discovery (`DiscoveryFairSpec`): weak fairness of `poll`, and strong fairness of taking the result of the
oldest query, since discv5 ends every query and a result that is ready stays so until a poll takes it. For the number of peers
(`PeerCountFairSpec`): weak fairness of `prune_excess_peers`, a function that runs to its end.
`CHECK_DEADLOCK FALSE` for `Codec`: a stream ends. For `RpcHandler`: a handler that closed its
connection does stop.

## 4. Proofs

Every theorem holds for all values of the constants that satisfy the assumptions of the module; each was checked by TLC first, and so was each
inductive invariant. A theorem `Spec => []P` follows from `Init => I`, `I /\ [Next]_vars => I'` and `I => P`; what is said
below of each is what `I` adds to `P` and why.

| Module | Theorems | Inductive invariant |
|---|---|---|
| `PeerManagerProofs` | `TypesKept`, `DisconnectedAlwaysCounted` | `IInv` |
| | `TimersAlwaysFollow`, `ConnectedAlwaysAnnounced` | `TimersInv`, `AnnouncedInv` |
| | `BanAlwaysEnforced`, `ConnectedAlwaysConnected`, `UnbanAlwaysPropagated` (C) | `BanInv(p)` for every peer |
| | `BannedAlwaysCounted`, `AlwaysShrinksToFit` (C) | `CountsBanned(db)` |
| | `NoConnectionForgotten`, `SentryForgetsNoConnection` (`Sentry`) (C, and `~ReportAnyPeer`) | `ConnInv(p)` |
| | `ExplicitAlwaysMatch` (`Sentry`) | `SentryInv` |
| `PeerCountProofs` | `PruningAlwaysSafe`, `AlwaysPrunedForAReason`, `NeverWrapsWithoutDuty` | `PInv` |
| `RpcHandlerProofs` | `BooksAlwaysBalance`, `NothingEverLost`, `ReportsAlwaysOrdered`, `NeverExcessChunk`, `ClosesClean`, `HandlerImplementsLife`, `StreamsAlwaysEnded` | `HInv` |
| `RateLimiterProofs` | `LimiterTypesKept`, `QuotaAlwaysKept`, `WaitAlwaysExact`, `LimiterImplementsBuckets` | `LInv`, `WInv` |
| `DiscoveryProofs` | `QueriesAlwaysConsistent`, `NeverForgotten` | `DInv` |
| `ChainStatusProofs` | `CacheAlwaysConsistent`, `AlwaysKeptForItsTimeout` | `CacheInv` |
| | `StatusAlwaysConsistent`, `StatusNeverMovesBack` | `ChainInv` |
| | `AlwaysRecorded` | `Recorded(p, kind)` |
| `LocalRecordProofs` | `RecordsStayConsistent`, `SequenceStaysKept` | `RecordInv` |
| `CodecProofs` | `ItemsInOrder`, `WaitsForMore`, `RejectsForeignOnly` | `CodecInv` |

(C): under `BanOutlastsDisconnect`, as the runs. Without it a decay can overtake the disconnection of a peer to be banned, and a peer
ends up in the banned state although its score, whose decay is the usual way out, has decayed already.

**Peer database and peer manager.** Assumptions: `PeersAssumption`, `AddressesAssumption`, `LimitsAssumption` (finite sets, natural limits),
`TargetAssumption`, `FlagsAssumption`, `BoundsAssumption`.

`IInv == Sound(db) /\ QueuesOK /\ SwarmOK`. `Sound(d)` says that `d` is a
well-typed database and that its counter is the number of disconnected peers
(`CountsDisconnected`); neither half is inductive by itself, since the counter's step is a
subtraction that is exact only if the counter is right, and cardinalities are only natural numbers
when the map has its type. The first part of `PeerManagerProofs` shows for each operator of the database
that it takes sound databases to sound ones (`...Sound`), what it does to the status, the score, the tag and the addresses of every peer (`...Effect`), and that it keeps the
counters of bans right (`...Counts`, with `CountsBanned`: the per-IP counter is a cardinality of pairs of peers and addresses, so
that adding a peer adds, and dropping a set subtracts, exactly its own pairs).

The invariants about bans and announcements relate the database to the *queue*: what holds once the queued events are handled. The queue is
summarised per peer by the last word of two kinds (`Speaks(s, p, ban, peer)`: the last `Banned` or `UnBanned` and the last `PeerConnected` or
`PeerDisconnected` about `p` in `s`), and lemmas say how a concatenation, a push in any order and a poll change it. Each handler is then described once, peer by peer, by what it does and says
(`Effect(p, s)`, one of ten `Moves`); the invariants are preserved by every move, whatever handler makes it. `BanInv(p)` adds to `BanEnforced` and
`ConnectedIsConnected` that a queued ban is of a banned peer and that a peer waiting to be banned has a banned score. `ConnInv(p)` says that a peer being disconnected has a
connection, and that a banned score is of a peer that is refused or waits to be banned. With it `AttendedMoves` shows of each move that it leaves no connection unattended (`Unattended`), unless the peer is exempt and refused (`MayForget`); nothing is assumed of who is
trusted, so that the theorem holds of `Sentry`, whose commands change that, as well. Reports must come only for connected
peers: one that is reported while it is being dialed keeps the connection it then makes (section 5).

`BannedAlwaysCounted` needs `BanInv`: `disconnect_peer` moves a peer out of any state without looking at the counters, and it is harmless only because a peer
that passes `ban_status` is not in the banned state. `AlwaysShrinksToFit` rests on both counters, since they decide how many peers `shrink_to_fit` drops; that the oldest go follows from the order of
instants, which a disconnection extends only by pairs that end in its own peer.

`SentryInv` adds to `ExplicitMatchTrusted` the invariant of the peer manager and uses its effects: a peer becomes connected only together with its announcement.

**Number of peers.** Assumption: `PeerCountAssumption`. `PInv` follows `prune_excess_peers` from step to step: the lists of the third step hold only peers that remain and its counts are those of the peers that
remain (`Grouping`), what a step has left nothing of, later steps leave nothing of (`StepsDone`), and a peer that is on no list any more was passed over for a reason (`ListedOrKept`).

**RPC handler.** Assumptions: `RequestsAssumption`, `HandlerLimitsAssumption`. `HInv` adds to the properties that a request is in at most one of its four places
(queued, opening, failed, open) and there once (`OnePlace`), that one in none of them was reported (`LeftReported`), what has been reported for each place (`ReportsByPlace`: an open substream expects exactly the responses that have not come), that only requests for blocks ask for
more than one response (`AskedOK`), and that an inbound substream
counts down exactly what its request is owed (`InboundOK`). `BooksBalance`, the types with the timers and slots, is needed for all of it and proved first.

For the refinement each action is described by the requests whose place it changes (`SameStage`, `OneStage`, `NoStage`: the stage of all others stays, since their places do), and maps to an action of `RequestLife` on one request or to a stutter. It needs `HInv` at two places: a response comes only
while fewer have come than were asked for, and a request that leaves a place is in no other, so that it is over. `ReportsAlwaysOrdered` says of `reports` alone what the refinement says of its steps, and `StreamsAlwaysEnded` is an invariant of `RequestLife` that `RpcHandler` has through it: whoever waits for the
end of a list of blocks is told.

**Rate limiter.** Assumptions: `QuotaAssumption` (positive periods and tokens, which `from_quota` checks, and an interval of at least one unit, which holds unless a quota has more tokens than its period has nanoseconds), `BoundsAssumption`, and
`WidthAssumption`: the time that fills a bucket fits its type (seconds against 2^64 nanoseconds). Nothing is assumed of the requests: the cost of one is the product modulo the width, and `QuotaAlwaysKept` bounds those
whose product is exact, whatever wrapped ones are charged in between; the two other theorems hold of both.

`LInv` is the types, and for every bucket `Charged(k)`, which bounds what was admitted since the chosen instant by what the bucket owes: everything admitted
in the interval is still in the bucket's debt or has been paid by the time that passed. The quota by itself is not inductive, because it says nothing of the stored times. Pruning keeps `LInv` because only buckets without debt are
dropped, and a refused request because it stores the time it read. `WInv` adds that a wait which was told is still what `earliest_time` would
say or has passed. For the refinement each action maps to the action of `TokenBucket` of the same verdict, `Tick` to the draining of every bucket, `Prune` to a stutter.

**Discovery.** Assumption: `DiscoveryAssumption`. `DInv` adds to `QueriesConsistent` that the loop goes on while a group is collected
(`CollectedIsStarted`) and that the history counts every search the retries stand for (`RetriesCounted`). The queue is filtered and refilled by recursive functions. The library's induction
rules cannot be instantiated here, so what those functions compute is proved without them: the indices at which it would fail are a set of numbers, which has a least one
(`LeastNumber`), and there the recursion's rule gives a contradiction.

**Gossip and STATUS.** Assumptions: `GossipAssumption`, `ChainAssumption`. `CacheInv` adds that what is left of a message's time and its age make up its timeout, `ChainInv` that the blocks waiting are first blocks of epochs
in order, none before the epoch that blocks have finalized, and that the head is not behind them once there is one. `Recorded(p, kind)` follows the last event that waits about a subnet, or says that none waits and the record is right.

**Local record.** Assumptions: `RecordAssumption` (the fields of configurations and addresses; positive bounds), `MarkersAssumption` (the values for "nothing", "no file" and "does not decode" are none of the records). The two properties
speak of idle nodes, and a crash can come between any two steps, so `RecordInv` says for each list of steps that can be left of a handler (26 labels, `Plan(l)`) which parts of the memory are set (`ContentOK`), which copies the handler does not renew any more and
are therefore current, unless a failure or a waiting event of discv5 explains why not (`CopiesOK`), and what is ahead of all that others have seen (`HistoryOK`): the files until the start-up has read them, the memory from then on. That is why a start that
reads a file and raises its number publishes nothing twice, and why a save that a crash interrupts is harmless only if the file was not the newest: `Crash` then makes `kept` false. A fresh key has no history because every
published key was generated before (`KeysUsed`).

**Codec.** Assumptions: `ForkAssumption` (every block is at least as long as the shortest of the first fork and at most as long as the longest of the current one, which `rpc_block_limits_by_fork` relies on and its comments claim),
`LengthAssumption` (natural lengths; the second version of the metadata is not shorter than the first) and `CompressAssumption`: an empty body has no bytes and any other more than one, since the frame format begins with a
stream identifier of 10; a compressed body is no longer than `max_compress_len`, 32 bytes more than a sixth above the length, against 10 and 8 for each frame; a prefix has at least one byte. Nothing else is known of the compressor.

`CodecInv` says where in the stream the reader is. `Layout`: some function `at` gives every chunk its place in the sequence of all bytes (`Places`), and what is in `src` and `dst` together are the bytes from the reader's place on, each of the part and chunk
that its place says, all of them unless the stream was broken and then cut short (`Laid`). That `at` is only said to exist is what makes the induction one over steps and not over chunks: an encoding extends it by one place, and no other step changes it.
`Held`: what the decoder keeps between two calls belongs to the chunk it is in, was consumed in the order of the parts and passed their checks; where it has the length, a body is still to come, and where it has only the code and no context follows, a byte of a
longer prefix has been seen, so that the two bytes which the outer codec asks for exist. `Returned`: each item is made of the code, context and length of its own chunk. `Waiting`: a reader that waits has fewer bytes than its chunk, if that is one of ours, still needs. `RejectsOnlyForeign` is part of the invariant because a reader that failed keeps no place.

A call of `decode` is described stage by stage (`CodeStage`, `ContextStage`, `LengthStage`, `CheckStage`, `BodyStage`), each by what it consumes of a buffer that holds the rest of the current chunk (`View`), and as a whole by `DecodeIs`: it
returns the item and moves to the next chunk, or keeps what it has and waits for bytes that are missing, or fails on a chunk that is not ours (`Ours`: written by our encoder, and not a later fork's block on version 1). That our own chunks pass every check (`OursAccepted`) is where the limits of `protocol.rs` meet the lengths of what the code sends.
The steps of the writer (`WritesInv`) and those of the network and of the reader's end (`QuietInv`) keep the invariant for one reason each.

**Only model-checked.** Liveness (`PassingStatesEnd`, `BannedPeerIsDisconnected`, `SubstreamsEnd`, `ShutdownEnds`, `QueriesMove`, `PruningEnds`): fairness and `ENABLED` are outside
what the prover supports. Every invariant and every other action property of the runs is a theorem.

## 5. Seen in the code

Disagreements between code and comments, and losses, that modelling showed. The properties state what the code does.

*Peers.* An exempt peer (trusted, with the score that no penalty moves) that is refused for its addresses gets no goodbye, because `goodbye_peer` does nothing to such a score: its connection stays open, unknown to the
database and to the application, until the peer closes it (`network_behaviour.rs:147`; the exception in `NoForgottenConnection`). A peer reported while it is being dialed keeps the connection it then makes: the "re-ban" at `network_behaviour.rs:144`
of a peer whose score is already banned is a transition that changes nothing. A dial queued before a ban turns the banned peer into a disconnected one (`network_behaviour.rs:104`), whose purge
sends no `UnBanned`, so the swarm refuses the peer for ever. A dial that fails while the peer's connection is being closed makes the application miss the
disconnection (`network_behaviour.rs:259`). Gossipsub's score moves the score of a trusted peer that was known before it was trusted (`peer_info.rs:400`, against `sentry.rs:95`). An IP's counter counts addresses where the comment at `peerdb.rs:1247` speaks of
peers, so a peer seen on two ports counts twice (`BannedCounted` states what it does); the ban check of a connection uses addresses seen earlier and not the one
it comes from (`peerdb.rs:149`, against `mod.rs:208`); `AddTrusted` does nothing for a peer that is connected, and a peer removed before its queued dial is
polled is tagged again by that dial (`sentry.rs:243`, `250`); `shrink_to_fit` drops the oldest disconnected peer where its comment
(`peerdb.rs:1002`) speaks of the lowest reputation (`ShrinksToFit` states what it does); a peer refused for lack of
room is announced as disconnected although it was never announced (`network_behaviour.rs:173`); a banned peer that is dialed
as trusted leaves the banned state without an `UnBanned` event (`peerdb.rs:790`).

*Number of peers.* Dials of peers for a duty may exceed `max_outbound_dialing_peers`, and the difference in `maintain_peer_count` (`mod.rs:807`) then wraps around; `NoWrapWithoutDuty` states when it does
not. The third pruning step takes peers with a duty too, against the rule at `mod.rs:836` (`DutyPrunedLast` states what holds). Peers that are only on sync committees are never pruned. Nor is a peer whose metadata has no subnets while its ENR has some: `has_long_lived_subnet` consults
the ENR beside the metadata (`peer_info.rs:218`, where the comment speaks of a peer without metadata), so the second step spares the peer, and `long_lived_subnets` does not, so that it is on no list of the third; peers with a duty may be pruned before it (`StaleEnr`).

*RPC.* The limiter's cost of a request is an unchecked product of the interval and the count that the peer asks for (`rate_limiter.rs:272`), which nothing bounds before (`protocol.rs:497`): in a release build it wraps around, and a count near a multiple
of 2^64 over the interval is charged as a small one, against "Instantaneous bursts (batches) of up to `max_tokens` tokens are allowed" (`rate_limiter.rs:23`); in a debug build it panics. With the quotas of `rpc/mod.rs:116` every count of blocks up to 2^40 is exact. A block of a fork after the first that is sent on version 1 of a protocol is written
by our encoder and refused by our decoder with an SSZ error, as the tests at `codec/ssz_snappy.rs:926` and `952` say. An upgrade that is retried after an IO error keeps its slot and takes another (`rpc/handler.rs:472`), against the comment at `rpc/handler.rs:95`: so many errors as there are slots leave the handler unable to open a substream (`SlotsCoverDials` counts the slots of retries). An inbound substream that times out with nothing queued is neither answered nor removed (`handler.rs:586`, against the comment at `572`). A stream that ends after the code, context or length of a chunk was consumed, and before
its body, counts as a clean end. Closing after a failed encoding flushes the response code that was already written. A foreign successful chunk of length 0 with context bytes may wait for the end of the
stream, because the outer decoder wants two bytes (`codec/base.rs:146`).

*Discovery.* A long-lived request (`min_ttl` is `None`) that waits in the queue becomes an expiring one when a request with a deadline is merged into it, since `None` is the least instant
(`discovery/mod.rs:590`, against the comment at `89`).

*Local record.* A crash between the truncation and the write of `enr.dat` or `metadata` loses the sequence number, and the next start begins at 1 or 0 again. An address that discv5 finds before its stream of events is there is published, and neither saved nor copied to the globals until another update.

*Gossip and STATUS.* With topics of two fork digests an unsubscription from one removes the subnet of the other from the peer's record, because `PeerInfo::subnets` does not keep the digest (`dropped` in `SubscribedIsRecorded`). A dial that fails late clears the
subnets of a peer whose earlier connection is still being closed, and gossipsub's subscriptions live on (`peerdb.rs:828`, `network_behaviour.rs:258`). A `Subscribed` event that is handled after the peer has
disconnected leaves a subnet in the record that `peerdb.rs:829` had just cleared. A cached message that cannot be published on its retry is lost. Until three epochs have begun
the STATUS is a constant of the program, and the first block finalized replaces its checkpoint even if it is older: blocks of the slots 32, 64 and 96 set the finalized epoch from 194863 to 1 (`sentry.rs:289`, since `last_epoch` starts at 0); the head does not move
back. After that the epochs only grow; an epoch without a block in its first slot is skipped.

## 6. Plan

The components below are modelled as far as TLC and the prover reach, and the theorems cover every invariant and action property of the runs. What could follow: an abstract specification of a peer's life as the application sees it
(announced, disconnected, banned) that `PeerManager` implements, for which `AnnouncedInv` and `BanInv` have what is needed, and one of the answers to a search that `Discovery` implements.

### Not modelled

- `Score`'s arithmetic (half-life, thresholds, `f64`): out of TLC's reach; `PeerDB` has its states, and allows every transition between them that the code can make.
- Local subscriptions: `Subscribe` adds a topic to a set that nothing else reads. Unsubscriptions, topics of a new fork, and the duties that `discover_subnet_peers` registers for `maintain_sync_committee_peers`: the sentry calls none of them, so that list stays empty.
- Wakers: the runs assume that tasks go on polling (`rpc/handler.rs:547`).
- The contents of SSZ payloads, snappy's frames, metrics, topic names, transport set-up and the floating-point formulas of gossipsub's parameters: I/O or data without
  behaviour.
