------------------------- MODULE PeerManagerProofs -------------------------
(***************************************************************************)
(* Proofs about PeerManager, for any number of peers and addresses, any    *)
(* limits and any bounds: its type invariant, the counters of disconnected *)
(* and of banned peers, timers, announcements, bans, the connections that  *)
(* are on their way out, and the purge.                                    *)
(*                                                                         *)
(* What the database says is compared with what will hold once the queued  *)
(* events are handled.  Each handler is described once, by its effect on   *)
(* every peer and the last words its events say about the peer; the        *)
(* invariants are kept by every such effect.                               *)
(*                                                                         *)
(* The first part is about the database's operators: each maps a well-     *)
(* formed database whose disconnected peers are counted correctly to       *)
(* another one (Sound), has a known effect on every peer (Effect), and     *)
(* keeps the counters of banned peers right (Counts).                      *)
(*                                                                         *)
(* The last part is about Sentry, the main loop around the peer manager:    *)
(* its set of trusted peers and gossipsub's explicit peers stay together.   *)
(***************************************************************************)
EXTENDS Sentry, FiniteSetTheorems, SequenceTheorems, TLAPS

-----------------------------------------------------------------------------
(* The peer database.                                                      *)

\* The counter of disconnected peers agrees with the map.
CountsDisconnected(d) == d.disconnected_peers = Cardinality(Disconnected(d))

Sound(d) == d \in Databases /\ CountsDisconnected(d)

-----------------------------------------------------------------------------
(* Finiteness and counting.                                                *)

\* Sockets, the addresses a peer can be seen on, are finitely many.
LEMMA SocketsFinite == IsFiniteSet(Sockets)
<1> DEFINE f == [x \in Ips \X Ports |-> [ip |-> x[1], port |-> x[2]]]
<1>1. f \in Surjection(Ips \X Ports, Sockets)
  <2>1. f \in [Ips \X Ports -> Sockets]
    BY DEF Sockets
  <2>2. \A s \in Sockets : \E x \in Ips \X Ports : f[x] = s
    <3> TAKE s \in Sockets
    <3>1. <<s.ip, s.port>> \in Ips \X Ports /\ f[<<s.ip, s.port>>] = s
      BY DEF Sockets
    <3> QED BY <3>1
  <2> QED BY <2>1, <2>2 DEF Surjection
<1>2. IsFiniteSet(Ips \X Ports)
  BY FS_Product, AddressesAssumption
<1> QED BY <1>1, <1>2, FS_Surjection

\* The number of addresses of some peers with an IP is a natural number.
LEMMA SeenOnType ==
    ASSUME NEW d, NEW S \in SUBSET Peers, NEW ip
    PROVE  SeenOn(d, S, ip) \in Nat
<1> DEFINE A == {ps \in S \X Sockets : ps[2] \in d.seen[ps[1]] /\ ps[2].ip = ip}
<1>1. IsFiniteSet(S)
  BY FS_Subset, PeersAssumption
<1>2. IsFiniteSet(S \X Sockets)
  BY <1>1, SocketsFinite, FS_Product
<1>3. A \in SUBSET (S \X Sockets)
  OBVIOUS
<1>4. IsFiniteSet(A)
  BY <1>2, <1>3, FS_Subset
<1> QED BY <1>4, FS_CardinalityType DEF SeenOn

\* A set of peers is finite.
LEMMA SomePeers ==
    ASSUME NEW S \in SUBSET Peers
    PROVE  IsFiniteSet(S) /\ Cardinality(S) \in Nat
BY FS_Subset, FS_CardinalityType, PeersAssumption

\* Saturating subtraction stays in the natural numbers.
LEMMA SatSubType ==
    ASSUME NEW m \in Nat, NEW n \in Nat
    PROVE  SatSub(m, n) \in Nat
BY DEF SatSub

\* Adding some peers to a set of peers.
LEMMA MorePeers ==
    ASSUME NEW D \in SUBSET Peers, NEW S \in SUBSET Peers, S \cap D = {}
    PROVE  /\ Cardinality(D) \in Nat
           /\ Cardinality(S) \in Nat
           /\ Cardinality(D \cup S) = Cardinality(D) + Cardinality(S)
<1>1. /\ IsFiniteSet(S) /\ Cardinality(S) \in Nat
      /\ IsFiniteSet(D) /\ Cardinality(D) \in Nat
  BY SomePeers
<1>2. Cardinality(D \cup S) = Cardinality(D) + Cardinality(S) - Cardinality(D \cap S)
  BY <1>1, FS_Union
<1>3. Cardinality(D \cap S) = 0
  <2>1. D \cap S = {}
    OBVIOUS
  <2> QED BY <2>1, FS_EmptySet
<1> QED BY <1>1, <1>2, <1>3

\* Removing some peers from a set of peers.
LEMMA FewerPeers ==
    ASSUME NEW D \in SUBSET Peers, NEW S \in SUBSET D
    PROVE  /\ Cardinality(S) \in Nat
           /\ Cardinality(D \ S) \in Nat
           /\ Cardinality(D) = Cardinality(D \ S) + Cardinality(S)
<1>1. /\ IsFiniteSet(D) /\ Cardinality(D) \in Nat
      /\ Cardinality(S) \in Nat
      /\ Cardinality(D \ S) \in Nat
  BY SomePeers
<1>2. Cardinality(D \ S) = Cardinality(D) - Cardinality(D \cap S)
  BY <1>1, FS_Difference
<1>3. Cardinality(D \cap S) = Cardinality(S)
  <2>1. D \cap S = S
    OBVIOUS
  <2> QED BY <2>1
<1> QED BY <1>1, <1>2, <1>3

-----------------------------------------------------------------------------
(* The counters of banned peers: their types.                              *)

\* Adding a banned peer touches only the counters of banned peers.
LEMMA AddBannedType ==
    ASSUME NEW d \in Databases, NEW p \in Peers
    PROVE  /\ add_banned_peer(d, p) \in Databases
           /\ add_banned_peer(d, p).status = d.status
           /\ add_banned_peer(d, p).older = d.older
           /\ add_banned_peer(d, p).disconnected_peers = d.disconnected_peers
<1> DEFINE n == d.banned_peers + 1
           f == [ip \in Ips |-> d.banned_peers_per_ip[ip] + SeenOn(d, {p}, ip)]
<1>1. \A ip \in Ips : SeenOn(d, {p}, ip) \in Nat
  BY SeenOnType
<1>2. n \in Nat /\ \A ip \in Ips : d.banned_peers_per_ip[ip] \in Nat
  BY DEF Databases
<1>3. f \in [Ips -> Nat]
  BY <1>1, <1>2
<1>4. add_banned_peer(d, p) =
        [d EXCEPT !.banned_peers = n, !.banned_peers_per_ip = f]
  BY DEF add_banned_peer
<1> HIDE DEF n, f
<1> QED BY <1>2, <1>3, <1>4 DEF Databases

\* Removing banned peers touches only the counters of banned peers.
LEMMA RemoveBannedType ==
    ASSUME NEW d \in Databases, NEW S \in SUBSET Peers
    PROVE  /\ RemoveBanned(d, S) \in Databases
           /\ RemoveBanned(d, S).status = d.status
           /\ RemoveBanned(d, S).older = d.older
           /\ RemoveBanned(d, S).disconnected_peers = d.disconnected_peers
<1>1. \A ip \in Ips : SatSub(d.banned_peers_per_ip[ip], SeenOn(d, S, ip)) \in Nat
  BY SeenOnType, SatSubType DEF Databases
<1>2. [ip \in Ips |-> SatSub(d.banned_peers_per_ip[ip], SeenOn(d, S, ip))] \in [Ips -> Nat]
  BY <1>1
<1>3. SatSub(d.banned_peers, Cardinality(S)) \in Nat
  BY SomePeers, SatSubType DEF Databases
<1> QED BY <1>2, <1>3 DEF RemoveBanned, Databases

-----------------------------------------------------------------------------
(* One peer changes its state.                                             *)

\* SetStatus changes the state of one peer and no counter.
LEMMA SetStatusType ==
    ASSUME NEW d \in Databases, NEW p \in Peers, NEW st \in Statuses
    PROVE  /\ SetStatus(d, p, st) \in Databases
           /\ SetStatus(d, p, st).status = [d.status EXCEPT ![p] = st]
           /\ SetStatus(d, p, st).disconnected_peers = d.disconnected_peers
<1> DEFINE f == [d.status EXCEPT ![p] = st]
           r == Forget(d.older, {p})
<1>1. f \in [Peers -> Statuses]
  BY DEF Databases
<1>2. r \in SUBSET (Peers \X Peers)
  BY DEF Databases, Forget
<1>3. SetStatus(d, p, st) = [d EXCEPT !.status = f, !.older = r]
  BY DEF SetStatus
<1> HIDE DEF f, r
<1>4. /\ SetStatus(d, p, st) \in Databases
      /\ SetStatus(d, p, st).status = f
      /\ SetStatus(d, p, st).disconnected_peers = d.disconnected_peers
  BY <1>1, <1>2, <1>3 DEF Databases
<1> QED BY <1>4 DEF f

\* StampStatus changes the state of one peer and no counter.
LEMMA StampStatusType ==
    ASSUME NEW d \in Databases, NEW p \in Peers, NEW st \in Statuses
    PROVE  /\ StampStatus(d, p, st) \in Databases
           /\ StampStatus(d, p, st).status = [d.status EXCEPT ![p] = st]
           /\ StampStatus(d, p, st).disconnected_peers = d.disconnected_peers
<1> DEFINE f == [d.status EXCEPT ![p] = st]
           r == Stamp(d, {p})
<1>1. f \in [Peers -> Statuses]
  BY DEF Databases
<1>2. r \in SUBSET (Peers \X Peers)
  BY DEF Databases, Stamp, Forget, Timed, InState
<1>3. StampStatus(d, p, st) = [d EXCEPT !.status = f, !.older = r]
  BY DEF StampStatus
<1> HIDE DEF f, r
<1>4. /\ StampStatus(d, p, st) \in Databases
      /\ StampStatus(d, p, st).status = f
      /\ StampStatus(d, p, st).disconnected_peers = d.disconnected_peers
  BY <1>1, <1>2, <1>3 DEF Databases
<1> QED BY <1>4 DEF f

\* One peer fewer is counted as disconnected.
LEMMA OneLessType ==
    ASSUME NEW d \in Databases
    PROVE  /\ OneLessDisconnected(d) \in Databases
           /\ OneLessDisconnected(d).status = d.status
           /\ OneLessDisconnected(d).disconnected_peers = SatSub(d.disconnected_peers, 1)
<1> DEFINE n == SatSub(d.disconnected_peers, 1)
<1>1. n \in Nat
  BY SatSubType DEF Databases
<1>2. OneLessDisconnected(d) = [d EXCEPT !.disconnected_peers = n]
  BY DEF OneLessDisconnected
<1> HIDE DEF n
<1>3. /\ OneLessDisconnected(d) \in Databases
      /\ OneLessDisconnected(d).status = d.status
      /\ OneLessDisconnected(d).disconnected_peers = n
  BY <1>1, <1>2 DEF Databases
<1> QED BY <1>3 DEF n

\* A peer that becomes disconnected is one more.
LEMMA EntersDisconnected ==
    ASSUME NEW d \in Databases, NEW p \in Peers, d.status[p] # "Disconnected",
           NEW e, e.status = [d.status EXCEPT ![p] = "Disconnected"]
    PROVE  /\ Cardinality(Disconnected(d)) \in Nat
           /\ Cardinality(Disconnected(e)) = Cardinality(Disconnected(d)) + 1
<1> DEFINE D == Disconnected(d)
<1>1. D \in SUBSET Peers /\ {p} \cap D = {} /\ Disconnected(e) = D \cup {p}
  BY DEF Disconnected, InState, Databases
<1>2. Cardinality({p}) = 1
  BY FS_Singleton
<1> HIDE DEF D
<1>3. Cardinality(D) \in Nat /\ Cardinality(D \cup {p}) = Cardinality(D) + Cardinality({p})
  BY <1>1, MorePeers
<1> QED BY <1>1, <1>2, <1>3 DEF D

\* A peer that is disconnected no more is one less.
LEMMA LeavesDisconnected ==
    ASSUME NEW d \in Databases, NEW p \in Peers, d.status[p] = "Disconnected",
           NEW st, st # "Disconnected",
           NEW e, e.status = [d.status EXCEPT ![p] = st]
    PROVE  /\ Cardinality(Disconnected(e)) \in Nat
           /\ Cardinality(Disconnected(d)) = Cardinality(Disconnected(e)) + 1
<1> DEFINE D == Disconnected(d)
<1>1. D \in SUBSET Peers /\ {p} \in SUBSET D /\ Disconnected(e) = D \ {p}
  BY DEF Disconnected, InState, Databases
<1>2. Cardinality({p}) = 1
  BY FS_Singleton
<1> HIDE DEF D
<1>3. Cardinality(D \ {p}) \in Nat /\ Cardinality(D) = Cardinality(D \ {p}) + Cardinality({p})
  BY <1>1, FewerPeers
<1> QED BY <1>1, <1>2, <1>3 DEF D

\* Any other change of state leaves the disconnected peers alone.
LEMMA NeitherDisconnected ==
    ASSUME NEW d \in Databases, NEW p \in Peers, d.status[p] # "Disconnected",
           NEW st, st # "Disconnected",
           NEW e, e.status = [d.status EXCEPT ![p] = st]
    PROVE  Disconnected(e) = Disconnected(d)
BY DEF Disconnected, InState, Databases

\* The three lemmas above, in terms of what each operation must preserve.
LEMMA SoundEnters ==
    ASSUME NEW d, Sound(d), NEW p \in Peers, d.status[p] # "Disconnected",
           NEW e \in Databases, e.status = [d.status EXCEPT ![p] = "Disconnected"],
           e.disconnected_peers = d.disconnected_peers + 1
    PROVE  Sound(e)
BY EntersDisconnected DEF Sound, CountsDisconnected

\* The counter saturates only at zero, where no disconnected peer is left.
LEMMA SoundLeaves ==
    ASSUME NEW d, Sound(d), NEW p \in Peers, d.status[p] = "Disconnected",
           NEW st, st # "Disconnected",
           NEW e \in Databases, e.status = [d.status EXCEPT ![p] = st],
           e.disconnected_peers = SatSub(d.disconnected_peers, 1)
    PROVE  Sound(e)
<1>1. /\ Cardinality(Disconnected(e)) \in Nat
      /\ Cardinality(Disconnected(d)) = Cardinality(Disconnected(e)) + 1
  BY LeavesDisconnected DEF Sound
<1> QED BY <1>1 DEF Sound, CountsDisconnected, SatSub

\* A change that involves no disconnected peer.
LEMMA SoundNeither ==
    ASSUME NEW d, Sound(d), NEW p \in Peers, d.status[p] # "Disconnected",
           NEW st, st # "Disconnected",
           NEW e \in Databases, e.status = [d.status EXCEPT ![p] = st],
           e.disconnected_peers = d.disconnected_peers
    PROVE  Sound(e)
<1>1. Disconnected(e) = Disconnected(d)
  BY NeitherDisconnected DEF Sound
<1> QED BY <1>1 DEF Sound, CountsDisconnected

\* A change that involves no state at all.
LEMMA SoundSame ==
    ASSUME NEW d, Sound(d), NEW e \in Databases, e.status = d.status,
           e.disconnected_peers = d.disconnected_peers
    PROVE  Sound(e)
<1>1. Disconnected(e) = Disconnected(d)
  BY DEF Disconnected, InState
<1> QED BY <1>1 DEF Sound, CountsDisconnected

-----------------------------------------------------------------------------
(* update_connection_state.                                                *)

\* Leaving a state for Connected or Dialing discounts a disconnected peer.
LEMMA LeaveType ==
    ASSUME NEW d \in Databases, NEW p \in Peers
    PROVE  /\ Leave(d, p) \in Databases
           /\ Leave(d, p).status = d.status
           /\ d.status[p] = "Disconnected" =>
                Leave(d, p).disconnected_peers = SatSub(d.disconnected_peers, 1)
           /\ d.status[p] # "Disconnected" =>
                Leave(d, p).disconnected_peers = d.disconnected_peers
<1>1. CASE d.status[p] = "Disconnected"
  <2>1. Leave(d, p) = OneLessDisconnected(d)
    BY <1>1 DEF Leave
  <2> QED BY <1>1, <2>1, OneLessType
<1>2. CASE d.status[p] = "Banned"
  <2>1. Leave(d, p) = RemoveBanned(d, {p})
    BY <1>2 DEF Leave
  <2> QED BY <1>2, <2>1, RemoveBannedType
<1>3. CASE d.status[p] \notin {"Disconnected", "Banned"}
  <2>1. Leave(d, p) = d
    BY <1>3 DEF Leave
  <2> QED BY <1>3, <2>1
<1> QED BY <1>1, <1>2, <1>3

\* Leaving for such a state st keeps the database sound.
LEMMA LeaveFor ==
    ASSUME NEW d, Sound(d), NEW p \in Peers, NEW st \in Statuses, st # "Disconnected"
    PROVE  Sound(SetStatus(Leave(d, p), p, st))
<1> DEFINE l == Leave(d, p)
           e == SetStatus(l, p, st)
<1>1. /\ d \in Databases /\ l \in Databases /\ l.status = d.status
      /\ d.status[p] = "Disconnected" =>
           l.disconnected_peers = SatSub(d.disconnected_peers, 1)
      /\ d.status[p] # "Disconnected" => l.disconnected_peers = d.disconnected_peers
  BY LeaveType DEF Sound
<1> HIDE DEF l
<1>2. /\ e \in Databases /\ e.status = [l.status EXCEPT ![p] = st]
      /\ e.disconnected_peers = l.disconnected_peers
  BY <1>1, SetStatusType
<1> HIDE DEF e
<1>3. e.status = [d.status EXCEPT ![p] = st]
  BY <1>1, <1>2
<1>4. Sound(e)
  <2>1. CASE d.status[p] = "Disconnected"
    BY <1>1, <1>2, <1>3, <2>1, SoundLeaves
  <2>2. CASE d.status[p] # "Disconnected"
    BY <1>1, <1>2, <1>3, <2>2, SoundNeither
  <2> QED BY <2>1, <2>2
<1> QED BY <1>4 DEF e, l

\* A connection is registered.
LEMMA ToConnectedSound ==
    ASSUME NEW d, Sound(d), NEW p \in Peers, NEW socket \in Sockets
    PROVE  Sound(ToConnected(d, p, socket))
<1> DEFINE s == SetStatus(Leave(d, p), p, "Connected")
           f == [s.seen EXCEPT ![p] = s.seen[p] \cup {socket}]
           e == ToConnected(d, p, socket)
<1>1. Sound(s)
  BY LeaveFor DEF Statuses
<1>2. e = [s EXCEPT !.seen = f]
  BY DEF ToConnected
<1> HIDE DEF s
<1>3. f \in [Peers -> SUBSET Sockets]
  BY <1>1 DEF Sound, Databases
<1> HIDE DEF f, e
<1>4. e \in Databases /\ e.status = s.status /\ e.disconnected_peers = s.disconnected_peers
  BY <1>1, <1>2, <1>3 DEF Sound, Databases
<1>5. Sound(e)
  BY <1>1, <1>4, SoundSame
<1> QED BY <1>5 DEF e

\* A dial starts; a trusted peer is tagged whether or not it is dialed.
LEMMA ToDialingSound ==
    ASSUME NEW d, Sound(d), NEW p \in Peers, NEW trusted \in BOOLEAN
    PROVE  Sound(ToDialing(d, p, trusted))
<1> DEFINE sc == [d.score EXCEPT ![p] =
                     IF d.status[p] = "Absent" /\ trusted THEN "Max" ELSE d.score[p]]
           tr == [d.trusted EXCEPT ![p] = d.trusted[p] \/ trusted]
           tagged == [d EXCEPT !.score = sc, !.trusted = tr]
<1>1. sc \in [Peers -> Scores] /\ tr \in [Peers -> BOOLEAN]
  BY DEF Sound, Databases, Scores
<1>2. ToDialing(d, p, trusted) =
        IF d.status[p] \in {"Absent", "Unknown", "Disconnected", "Banned"}
        THEN SetStatus(Leave(tagged, p), p, "Dialing") ELSE tagged
  BY DEF ToDialing
<1> HIDE DEF sc, tr
<1>3. /\ tagged \in Databases /\ tagged.status = d.status
      /\ tagged.disconnected_peers = d.disconnected_peers
  BY <1>1 DEF Sound, Databases
<1> HIDE DEF tagged
<1>4. Sound(tagged)
  BY <1>3, SoundSame
<1>5. Sound(SetStatus(Leave(tagged, p), p, "Dialing"))
  BY <1>4, LeaveFor DEF Statuses
<1> QED BY <1>2, <1>4, <1>5

\* A peer disconnects: it is banned if it was to be, otherwise disconnected.
LEMMA ToDisconnectedSound ==
    ASSUME NEW d, Sound(d), NEW p \in Peers
    PROVE  Sound(ToDisconnected(d, p))
<1> USE DEF Statuses
<1>1. d \in Databases /\ d.status[p] \in Statuses
  BY DEF Sound, Databases
<1>2. CASE d.status[p] \in {"Banned", "Disconnected"}
  BY <1>2 DEF ToDisconnected
<1>3. CASE d.status[p] = "DisconnectingToBan"
  <2> DEFINE b == add_banned_peer(d, p)
             e == StampStatus(b, p, "Banned")
  <2>1. /\ b \in Databases /\ b.status = d.status
        /\ b.disconnected_peers = d.disconnected_peers
    BY <1>1, AddBannedType
  <2>2. ToDisconnected(d, p) = e
    BY <1>3 DEF ToDisconnected
  <2> HIDE DEF b
  <2>3. /\ e \in Databases /\ e.status = [b.status EXCEPT ![p] = "Banned"]
        /\ e.disconnected_peers = b.disconnected_peers
    BY <2>1, StampStatusType
  <2> HIDE DEF e
  <2>4. e.status = [d.status EXCEPT ![p] = "Banned"] /\ e.disconnected_peers = d.disconnected_peers
    BY <2>1, <2>3
  <2>5. Sound(e)
    BY <1>3, <2>3, <2>4, SoundNeither
  <2> QED BY <2>2, <2>5
<1>4. CASE d.status[p] \in {"Absent", "Unknown", "Dialing", "Connected", "Disconnecting"}
  <2> DEFINE s == StampStatus(d, p, "Disconnected")
             n == s.disconnected_peers + 1
             e == [s EXCEPT !.disconnected_peers = n]
  <2>1. /\ s \in Databases /\ s.status = [d.status EXCEPT ![p] = "Disconnected"]
        /\ s.disconnected_peers = d.disconnected_peers
    BY <1>1, StampStatusType
  <2>2. ToDisconnected(d, p) = e
    BY <1>4 DEF ToDisconnected
  <2> HIDE DEF s
  <2>3. n \in Nat
    BY <2>1 DEF Databases
  <2> HIDE DEF n
  <2>4. e \in Databases /\ e.status = s.status /\ e.disconnected_peers = n
    BY <2>1, <2>3 DEF Databases
  <2> HIDE DEF e
  <2>5. /\ e.status = [d.status EXCEPT ![p] = "Disconnected"]
        /\ e.disconnected_peers = d.disconnected_peers + 1
    BY <2>1, <2>4 DEF n
  <2>6. Sound(e)
    BY <1>4, <2>4, <2>5, SoundEnters
  <2> QED BY <2>2, <2>6
<1> QED BY <1>1, <1>2, <1>3, <1>4

\* A disconnection starts, from whatever state.
LEMMA ToDisconnectingSound ==
    ASSUME NEW d, Sound(d), NEW p \in Peers
    PROVE  Sound(ToDisconnecting(d, p))
<1>1. d \in Databases /\ "Disconnecting" \in Statuses
  BY DEF Sound, Statuses
<1>2. CASE d.status[p] = "Disconnected"
  <2> DEFINE o == OneLessDisconnected(d)
             e == SetStatus(o, p, "Disconnecting")
  <2>1. /\ o \in Databases /\ o.status = d.status
        /\ o.disconnected_peers = SatSub(d.disconnected_peers, 1)
    BY <1>1, OneLessType
  <2>2. ToDisconnecting(d, p) = e
    BY <1>2 DEF ToDisconnecting
  <2> HIDE DEF o
  <2>3. /\ e \in Databases /\ e.status = [o.status EXCEPT ![p] = "Disconnecting"]
        /\ e.disconnected_peers = o.disconnected_peers
    BY <1>1, <2>1, SetStatusType
  <2> HIDE DEF e
  <2>4. /\ e.status = [d.status EXCEPT ![p] = "Disconnecting"]
        /\ e.disconnected_peers = SatSub(d.disconnected_peers, 1)
    BY <2>1, <2>3
  <2>5. Sound(e)
    BY <1>2, <2>3, <2>4, SoundLeaves
  <2> QED BY <2>2, <2>5
<1>3. CASE d.status[p] # "Disconnected"
  <2> DEFINE e == SetStatus(d, p, "Disconnecting")
  <2>1. /\ e \in Databases /\ e.status = [d.status EXCEPT ![p] = "Disconnecting"]
        /\ e.disconnected_peers = d.disconnected_peers
    BY <1>1, SetStatusType
  <2>2. ToDisconnecting(d, p) = e
    BY <1>3 DEF ToDisconnecting
  <2> HIDE DEF e
  <2>3. Sound(e)
    BY <1>3, <2>1, SoundNeither
  <2> QED BY <2>2, <2>3
<1> QED BY <1>2, <1>3

\* A ban, effective at once or after a disconnection.
LEMMA ToBannedSound ==
    ASSUME NEW d, Sound(d), NEW p \in Peers
    PROVE  Sound(ToBanned(d, p))
<1>1. /\ d \in Databases /\ d.status[p] \in Statuses
      /\ "Banned" \in Statuses /\ "DisconnectingToBan" \in Statuses
  BY DEF Sound, Databases, Statuses
<1> DEFINE b == add_banned_peer(d, p)
           s == StampStatus(b, p, "Banned")
           o == OneLessDisconnected(s)
           k == SetStatus(d, p, "DisconnectingToBan")
<1>2. /\ b \in Databases /\ b.status = d.status
      /\ b.disconnected_peers = d.disconnected_peers
  BY <1>1, AddBannedType
<1>3. ToBanned(d, p) =
        CASE d.status[p] = "Disconnected" -> o
          [] d.status[p] \in {"Disconnecting", "DisconnectingToBan", "Connected", "Dialing"} -> k
          [] d.status[p] = "Unknown" -> s
          [] d.status[p] \in {"Banned", "Absent"} -> d
  BY DEF ToBanned
<1> HIDE DEF b
<1>4. /\ s \in Databases /\ s.status = [b.status EXCEPT ![p] = "Banned"]
      /\ s.disconnected_peers = b.disconnected_peers
  BY <1>1, <1>2, StampStatusType
<1> HIDE DEF s
<1>5. /\ s.status = [d.status EXCEPT ![p] = "Banned"]
      /\ s.disconnected_peers = d.disconnected_peers
  BY <1>2, <1>4
<1>6. CASE d.status[p] = "Disconnected"
  <2>1. /\ o \in Databases /\ o.status = s.status
        /\ o.disconnected_peers = SatSub(s.disconnected_peers, 1)
    BY <1>4, OneLessType
  <2>2. ToBanned(d, p) = o
    BY <1>3, <1>6
  <2> HIDE DEF o
  <2>3. /\ o.status = [d.status EXCEPT ![p] = "Banned"]
        /\ o.disconnected_peers = SatSub(d.disconnected_peers, 1)
    BY <1>5, <2>1
  <2>4. Sound(o)
    BY <1>6, <2>1, <2>3, SoundLeaves
  <2> QED BY <2>2, <2>4
<1>7. CASE d.status[p] \in {"Disconnecting", "DisconnectingToBan", "Connected", "Dialing"}
  <2>1. /\ k \in Databases /\ k.status = [d.status EXCEPT ![p] = "DisconnectingToBan"]
        /\ k.disconnected_peers = d.disconnected_peers
    BY <1>1, SetStatusType
  <2>2. ToBanned(d, p) = k
    BY <1>3, <1>7
  <2> HIDE DEF k
  <2>3. Sound(k)
    BY <1>7, <2>1, SoundNeither
  <2> QED BY <2>2, <2>3
<1>8. CASE d.status[p] = "Unknown"
  <2>1. ToBanned(d, p) = s
    BY <1>3, <1>8
  <2>2. Sound(s)
    BY <1>4, <1>5, <1>8, SoundNeither
  <2> QED BY <2>1, <2>2
<1>9. CASE d.status[p] \in {"Banned", "Absent"}
  BY <1>3, <1>9
<1> QED BY <1>1, <1>6, <1>7, <1>8, <1>9 DEF Statuses

\* Banned peers become disconnected ones.
LEMMA ToUnbannedSound ==
    ASSUME NEW d, Sound(d), NEW S \in SUBSET Peers
    PROVE  Sound(ToUnbanned(d, S))
<1> DEFINE B == S \cap Banned(d)
           r == RemoveBanned(d, B)
           f == [p \in Peers |-> IF p \in B THEN "Disconnected" ELSE r.status[p]]
           n == r.disconnected_peers + Cardinality(B)
           e == [r EXCEPT !.status = f, !.disconnected_peers = n]
           D == Disconnected(d)
<1>1. B \in SUBSET Peers /\ D \in SUBSET Peers /\ B \cap D = {}
  BY DEF Banned, Disconnected, InState
<1>2. ToUnbanned(d, S) = e
  BY DEF ToUnbanned
<1>3. \A p \in B : d.status[p] = "Banned"
  BY DEF Banned, InState
<1> HIDE DEF B
<1>4. /\ r \in Databases /\ r.status = d.status
      /\ r.disconnected_peers = d.disconnected_peers
  BY <1>1, RemoveBannedType DEF Sound
<1> HIDE DEF r
<1>5. f \in [Peers -> Statuses]
  BY <1>4 DEF Databases, Statuses
<1>6. Cardinality(B) \in Nat /\ Cardinality(D \cup B) = Cardinality(D) + Cardinality(B)
  <2> HIDE DEF D
  <2> QED BY <1>1, MorePeers
<1>7. n \in Nat
  BY <1>4, <1>6 DEF Databases
<1>8. D \cup B = {p \in Peers : f[p] = "Disconnected"}
  BY <1>1, <1>4 DEF Disconnected, InState
<1> HIDE DEF f, n
<1>9. e \in Databases /\ e.status = f /\ e.disconnected_peers = n
  BY <1>4, <1>5, <1>7 DEF Databases
<1> HIDE DEF e
<1>10. Disconnected(e) = D \cup B
  BY <1>8, <1>9 DEF Disconnected, InState
<1>11. n = d.disconnected_peers + Cardinality(B)
  BY <1>4 DEF n
<1>12. e.disconnected_peers = Cardinality(Disconnected(e))
  BY <1>6, <1>9, <1>10, <1>11 DEF Sound, CountsDisconnected
<1> QED BY <1>2, <1>9, <1>12 DEF Sound, CountsDisconnected

-----------------------------------------------------------------------------
(* shrink_to_fit.                                                          *)

\* Dropping peers touches no counter.
LEMMA DropType ==
    ASSUME NEW d \in Databases, NEW S \in SUBSET Peers
    PROVE  /\ Drop(d, S) \in Databases
           /\ Drop(d, S).disconnected_peers = d.disconnected_peers
           /\ Drop(d, S).banned_peers = d.banned_peers
           /\ Disconnected(Drop(d, S)) = Disconnected(d) \ S
<1> DEFINE st == [p \in Peers |-> IF p \in S THEN "Absent" ELSE d.status[p]]
           sc == [p \in Peers |-> IF p \in S THEN "Healthy" ELSE d.score[p]]
           tr == [p \in Peers |-> p \notin S /\ d.trusted[p]]
           se == [p \in Peers |-> IF p \in S THEN {} ELSE d.seen[p]]
           ol == Forget(d.older, S)
           e == [d EXCEPT !.status = st, !.score = sc, !.trusted = tr, !.seen = se, !.older = ol]
<1>1. st \in [Peers -> Statuses]
  BY DEF Databases, Statuses
<1>2. sc \in [Peers -> Scores]
  BY DEF Databases, Scores
<1>3. tr \in [Peers -> BOOLEAN]
  BY DEF Databases
<1>4. se \in [Peers -> SUBSET Sockets]
  BY DEF Databases
<1>5. ol \in SUBSET (Peers \X Peers)
  BY DEF Databases, Forget
<1>6. Drop(d, S) = e
  BY DEF Drop
<1>7. {p \in Peers : st[p] = "Disconnected"} = Disconnected(d) \ S
  BY DEF Disconnected, InState
<1> HIDE DEF st, sc, tr, se, ol
<1>8. /\ e \in Databases /\ e.status = st /\ e.disconnected_peers = d.disconnected_peers
      /\ e.banned_peers = d.banned_peers
  BY <1>1, <1>2, <1>3, <1>4, <1>5 DEF Databases
<1> HIDE DEF e
<1>9. Disconnected(e) = Disconnected(d) \ S
  BY <1>7, <1>8 DEF Disconnected, InState
<1> QED BY <1>6, <1>8, <1>9

\* Dropping banned peers leaves the disconnected ones alone.
LEMMA DropBannedSound ==
    ASSUME NEW d, Sound(d), NEW R \in SUBSET Banned(d)
    PROVE  /\ Sound(DropBanned(d, R))
           /\ Disconnected(DropBanned(d, R)) = Disconnected(d)
           /\ DropBanned(d, R).disconnected_peers = d.disconnected_peers
<1>1. /\ d \in Databases /\ R \in SUBSET Peers
      /\ Disconnected(d) \ R = Disconnected(d)
  BY DEF Sound, Banned, Disconnected, InState
<1> DEFINE b == RemoveBanned(d, R)
           z == [ip \in Ips |-> 0]
           r == Drop(d, R)
           c == [r EXCEPT !.banned_peers = 0, !.banned_peers_per_ip = z]
           e == DropBanned(d, R)
<1>2. /\ b \in Databases /\ b.status = d.status
      /\ b.disconnected_peers = d.disconnected_peers
  BY <1>1, RemoveBannedType
<1>3. e = IF Cardinality(R) = ExcessBanned(d) THEN Drop(b, R) ELSE c
  BY DEF DropBanned
<1> HIDE DEF b, e
<1>4. Disconnected(b) = Disconnected(d)
  BY <1>2 DEF Disconnected, InState
<1>5. /\ Drop(b, R) \in Databases
      /\ Disconnected(Drop(b, R)) = Disconnected(d)
      /\ Drop(b, R).disconnected_peers = d.disconnected_peers
  BY <1>1, <1>2, <1>4, DropType
<1>6. /\ r \in Databases /\ Disconnected(r) = Disconnected(d)
      /\ r.disconnected_peers = d.disconnected_peers
  BY <1>1, DropType
<1>7. z \in [Ips -> Nat]
  OBVIOUS
<1> HIDE DEF r, z
<1>8. c \in Databases /\ c.status = r.status /\ c.disconnected_peers = r.disconnected_peers
  BY <1>6, <1>7 DEF Databases
<1> HIDE DEF c
<1>9. Disconnected(c) = Disconnected(d)
  BY <1>6, <1>8 DEF Disconnected, InState
<1>10. /\ e \in Databases /\ Disconnected(e) = Disconnected(d)
       /\ e.disconnected_peers = d.disconnected_peers
  BY <1>3, <1>5, <1>6, <1>8, <1>9
<1>11. Sound(e)
  BY <1>10 DEF Sound, CountsDisconnected
<1> QED BY <1>10, <1>11 DEF e

\* The loop drops exactly the excess: the counter is right, so the map holds
\* enough disconnected peers and the branch "for safety" is never needed.
LEMMA DropDisconnectedSound ==
    ASSUME NEW d, Sound(d), NEW g, NEW R \in Oldest(g, Disconnected(d), ExcessDisconnected(d))
    PROVE  Sound(DropDisconnected(d, R))
<1> DEFINE D == Disconnected(d)
           k == ExcessDisconnected(d)
           r == Drop(d, R)
           n == SatSub(r.disconnected_peers, k)
           e == [r EXCEPT !.disconnected_peers = n]
<1>1. /\ d \in Databases /\ D \in SUBSET Peers
      /\ d.disconnected_peers = Cardinality(D) /\ d.disconnected_peers \in Nat
  BY DEF Sound, CountsDisconnected, Disconnected, InState, Databases
<1>2. k \in Nat /\ k <= d.disconnected_peers
  BY <1>1, LimitsAssumption DEF ExcessDisconnected, SatSub
<1>3. R \in SUBSET D /\ (Cardinality(R) = k \/ (R = D /\ Cardinality(D) < k))
  BY DEF Oldest
<1>4. DropDisconnected(d, R) = e
  BY DEF DropDisconnected
<1> HIDE DEF D, k
<1>5. Cardinality(R) = k
  BY <1>1, <1>2, <1>3
<1>6. Cardinality(D \ R) \in Nat /\ Cardinality(D) = Cardinality(D \ R) + Cardinality(R)
  BY <1>1, <1>3, FewerPeers
<1>7. R \in SUBSET Peers
  BY <1>1, <1>3
<1>8. /\ r \in Databases /\ Disconnected(r) = D \ R
      /\ r.disconnected_peers = d.disconnected_peers
  BY <1>1, <1>7, DropType DEF D
<1> HIDE DEF r
<1>9. n = Cardinality(D \ R) /\ n \in Nat
  BY <1>1, <1>2, <1>5, <1>6, <1>8 DEF SatSub
<1> HIDE DEF n
<1>10. e \in Databases /\ e.status = r.status /\ e.disconnected_peers = n
  BY <1>8, <1>9 DEF Databases
<1> HIDE DEF e
<1>11. Disconnected(e) = D \ R
  BY <1>8, <1>10 DEF Disconnected, InState
<1>12. Sound(e)
  BY <1>9, <1>10, <1>11 DEF Sound, CountsDisconnected
<1> QED BY <1>4, <1>12

\* The purge that ends every disconnection.
LEMMA ShrinkSound ==
    ASSUME NEW d, Sound(d),
           NEW RB \in Oldest(d, Banned(d), ExcessBanned(d)),
           NEW RD \in Oldest(d, Disconnected(d), ExcessDisconnected(d))
    PROVE  Sound(shrink_to_fit(d, RB, RD))
<1> DEFINE b == DropBanned(d, RB)
<1>1. RB \in SUBSET Banned(d)
  BY DEF Oldest
<1>2. /\ Sound(b) /\ Disconnected(b) = Disconnected(d)
      /\ b.disconnected_peers = d.disconnected_peers
  BY <1>1, DropBannedSound
<1>3. shrink_to_fit(d, RB, RD) = DropDisconnected(b, RD)
  BY DEF shrink_to_fit
<1> HIDE DEF b
<1>4. ExcessDisconnected(b) = ExcessDisconnected(d)
  BY <1>2 DEF ExcessDisconnected
<1>5. RD \in Oldest(d, Disconnected(b), ExcessDisconnected(b))
  BY <1>2, <1>4
<1> QED BY <1>2, <1>3, <1>5, DropDisconnectedSound

-----------------------------------------------------------------------------
(* Scores, dials that timed out, new databases.                            *)

\* Scores can be replaced freely.
LEMMA SetScoresSound ==
    ASSUME NEW d, Sound(d), NEW sc \in [Peers -> Scores], NEW S
    PROVE  /\ Sound(SetScores(d, sc, S))
           /\ SetScores(d, sc, S).status = d.status
<1> DEFINE f == [p \in Peers |-> IF p \in S THEN sc[p] ELSE d.score[p]]
           e == [d EXCEPT !.score = f]
<1>1. f \in [Peers -> Scores]
  BY DEF Sound, Databases
<1>2. SetScores(d, sc, S) = e
  BY DEF SetScores
<1> HIDE DEF f
<1>3. e \in Databases /\ e.status = d.status /\ e.disconnected_peers = d.disconnected_peers
  BY <1>1 DEF Sound, Databases
<1> HIDE DEF e
<1>4. Sound(e)
  BY <1>3, SoundSame
<1> QED BY <1>2, <1>3, <1>4

\* A report penalises a peer, and may start a disconnection or a ban.
LEMMA ReportSound ==
    ASSUME NEW d, Sound(d), NEW p \in Peers, NEW sc \in Scores
    PROVE  Sound(report_peer(d, p, sc))
<1> DEFINE f == [d.score EXCEPT ![p] = sc]
           e == [d EXCEPT !.score = f]
           result == handle_score_transition(d.score[p], sc, d.status[p])
<1>1. f \in [Peers -> Scores]
  BY DEF Sound, Databases
<1>2. report_peer(d, p, sc) =
        CASE result = "Banned" -> ToBanned(e, p)
          [] result = "Disconnected" -> ToDisconnecting(e, p)
          [] result \in {"NoAction", "Unbanned"} -> e
  BY DEF report_peer
<1>3. result \in {"Banned", "Disconnected", "NoAction", "Unbanned"}
  <2>1. d.score[p] \in Scores
    BY DEF Sound, Databases
  <2> QED BY <2>1 DEF handle_score_transition, Scores
<1> HIDE DEF f, result
<1>4. e \in Databases /\ e.status = d.status /\ e.disconnected_peers = d.disconnected_peers
  BY <1>1 DEF Sound, Databases
<1> HIDE DEF e
<1>5. Sound(e)
  BY <1>4, SoundSame
<1>6. Sound(ToBanned(e, p)) /\ Sound(ToDisconnecting(e, p))
  BY <1>5, ToBannedSound, ToDisconnectingSound
<1> QED BY <1>2, <1>3, <1>5, <1>6

\* A decay unbans the peers whose score is tolerable again.
LEMMA UpdateScoresSound ==
    ASSUME NEW d, Sound(d), NEW sc \in [Peers -> Scores]
    PROVE  Sound(update_scores(d, sc))
<1>1. Transition(d, sc, Known(d), "Unbanned") \in SUBSET Peers
  BY DEF Transition, Known
<1>2. Sound(SetScores(d, sc, Known(d)))
  BY SetScoresSound
<1> QED BY <1>1, <1>2, ToUnbannedSound DEF update_scores

\* New states for peers that neither are nor become disconnected.
LEMMA SoundStatuses ==
    ASSUME NEW d, Sound(d), NEW f \in [Peers -> Statuses],
           \A p \in Peers : f[p] = "Disconnected" <=> d.status[p] = "Disconnected"
    PROVE  Sound([d EXCEPT !.status = f])
<1> DEFINE e == [d EXCEPT !.status = f]
<1>1. e \in Databases /\ e.status = f /\ e.disconnected_peers = d.disconnected_peers
  BY DEF Sound, Databases
<1> HIDE DEF e
<1>2. Disconnected(e) = Disconnected(d)
  BY <1>1 DEF Disconnected, InState
<1>3. Sound(e)
  BY <1>1, <1>2 DEF Sound, CountsDisconnected
<1> QED BY <1>3 DEF e

\* Gossipsub scores only move connected peers.
LEMMA UpdateGossipsubScoresSound ==
    ASSUME NEW d, Sound(d), NEW sc \in [Peers -> Scores]
    PROVE  Sound(update_gossipsub_scores(d, sc))
<1> DEFINE to_ban == Transition(d, sc, Connected(d), "Banned")
           to_disconnect == Transition(d, sc, Connected(d), "Disconnected")
           s == SetScores(d, sc, Connected(d))
           f == [p \in Peers |-> IF p \in to_ban THEN "DisconnectingToBan"
                                 ELSE IF p \in to_disconnect THEN "Disconnecting"
                                 ELSE s.status[p]]
<1>1. update_gossipsub_scores(d, sc) = [s EXCEPT !.status = f]
  BY DEF update_gossipsub_scores
<1>2. \A p \in to_ban \cup to_disconnect : d.status[p] = "Connected"
  BY DEF Transition, Connected, InState
<1>3. Sound(s) /\ s.status = d.status
  BY SetScoresSound
<1> HIDE DEF s, to_ban, to_disconnect
<1>4. f \in [Peers -> Statuses]
  BY <1>3 DEF Sound, Databases, Statuses
<1>5. \A p \in Peers : f[p] = "Disconnected" <=> s.status[p] = "Disconnected"
  BY <1>2, <1>3
<1> HIDE DEF f
<1> QED BY <1>1, <1>3, <1>4, <1>5, SoundStatuses

\* Pruned peers are connected ones.
LEMMA ToDisconnectingAllSound ==
    ASSUME NEW d, Sound(d), NEW S \in SUBSET Connected(d)
    PROVE  Sound(ToDisconnectingAll(d, S))
<1> DEFINE f == [p \in Peers |-> IF p \in S THEN "Disconnecting" ELSE d.status[p]]
<1>1. f \in [Peers -> Statuses]
  BY DEF Sound, Databases, Statuses
<1>2. \A p \in Peers : f[p] = "Disconnected" <=> d.status[p] = "Disconnected"
  BY DEF Connected, InState
<1>3. ToDisconnectingAll(d, S) = [d EXCEPT !.status = f]
  BY DEF ToDisconnectingAll
<1> HIDE DEF f
<1> QED BY <1>1, <1>2, <1>3, SoundStatuses

\* A min_ttl can create the entry of an unknown peer.
LEMMA UpdateMinTtlSound ==
    ASSUME NEW d, Sound(d), NEW S
    PROVE  Sound(update_min_ttl(d, S))
<1> DEFINE f == [p \in Peers |-> IF p \in S /\ d.status[p] = "Absent"
                                 THEN "Unknown" ELSE d.status[p]]
<1>1. f \in [Peers -> Statuses]
  BY DEF Sound, Databases, Statuses
<1>2. \A p \in Peers : f[p] = "Disconnected" <=> d.status[p] = "Disconnected"
  OBVIOUS
<1>3. update_min_ttl(d, S) = [d EXCEPT !.status = f]
  BY DEF update_min_ttl
<1> HIDE DEF f
<1> QED BY <1>1, <1>2, <1>3, SoundStatuses

\* Dials that timed out: all those peers become disconnected at once.
LEMMA CleanupSound ==
    ASSUME NEW d, Sound(d), NEW T \in SUBSET Dialing(d)
    PROVE  Sound(cleanup_dialing_peers(d, T))
<1> DEFINE D == Disconnected(d)
           f == [p \in Peers |-> IF p \in T THEN "Disconnected" ELSE d.status[p]]
           r == Stamp(d, T)
           n == d.disconnected_peers + Cardinality(T)
           e == [d EXCEPT !.status = f, !.older = r, !.disconnected_peers = n]
<1>1. T \in SUBSET Peers /\ D \in SUBSET Peers /\ T \cap D = {}
  BY DEF Dialing, Disconnected, InState
<1>2. cleanup_dialing_peers(d, T) = e
  BY DEF cleanup_dialing_peers
<1>3. d \in Databases /\ d.disconnected_peers = Cardinality(D)
  BY DEF Sound, CountsDisconnected
<1>4. f \in [Peers -> Statuses] /\ {p \in Peers : f[p] = "Disconnected"} = D \cup T
  BY <1>1, <1>3 DEF Databases, Statuses, Disconnected, InState
<1>5. r \in SUBSET (Peers \X Peers)
  BY <1>1, <1>3 DEF Databases, Stamp, Forget, Timed, InState
<1> HIDE DEF D, f, r
<1>6. Cardinality(T) \in Nat /\ Cardinality(D \cup T) = Cardinality(D) + Cardinality(T)
  BY <1>1, MorePeers
<1>7. n \in Nat /\ n = Cardinality(D \cup T)
  BY <1>3, <1>6 DEF Databases
<1> HIDE DEF n
<1>8. e \in Databases /\ e.status = f /\ e.disconnected_peers = n
  BY <1>3, <1>4, <1>5, <1>7 DEF Databases
<1> HIDE DEF e
<1>9. Disconnected(e) = D \cup T
  BY <1>4, <1>8 DEF Disconnected, InState
<1>10. Sound(e)
  BY <1>7, <1>8, <1>9 DEF Sound, CountsDisconnected
<1> QED BY <1>2, <1>10

\* A new database.
LEMMA NewDatabaseSound ==
    ASSUME NEW T
    PROVE  Sound(NewDatabase(T))
<1> DEFINE st == [p \in Peers |-> IF p \in T THEN "Unknown" ELSE "Absent"]
           sc == [p \in Peers |-> IF p \in T THEN "Max" ELSE "Healthy"]
           e == NewDatabase(T)
<1>1. st \in [Peers -> Statuses] /\ sc \in [Peers -> Scores]
  BY DEF Statuses, Scores
<1>2. [p \in Peers |-> p \in T] \in [Peers -> BOOLEAN]
  OBVIOUS
<1>3. e \in Databases /\ e.status = st /\ e.disconnected_peers = 0
  BY <1>1, <1>2 DEF NewDatabase, Databases
<1>4. Disconnected(e) = {}
  BY <1>3 DEF Disconnected, InState
<1>5. Cardinality(Disconnected(e)) = 0
  BY <1>4, FS_EmptySet
<1> QED BY <1>3, <1>5 DEF Sound, CountsDisconnected

-----------------------------------------------------------------------------
(* What the operations do to the state, the score, the tag and the         *)
(* addresses of every peer.                                                *)

\* An operation that leaves scores, tags and addresses alone.
KeepsRecords(d, e) == e.score = d.score /\ e.trusted = d.trusted /\ e.seen = d.seen

\* Leaving a state changes counters only.
LEMMA LeaveEffect ==
    ASSUME NEW d \in Databases, NEW p \in Peers
    PROVE  Leave(d, p).status = d.status /\ KeepsRecords(d, Leave(d, p))
BY DEF Leave, OneLessDisconnected, RemoveBanned, Databases, KeepsRecords

\* A connection is registered.
LEMMA ToConnectedEffect ==
    ASSUME NEW d \in Databases, NEW p \in Peers, NEW socket \in Sockets
    PROVE  /\ ToConnected(d, p, socket).status = [d.status EXCEPT ![p] = "Connected"]
           /\ ToConnected(d, p, socket).score = d.score
           /\ ToConnected(d, p, socket).trusted = d.trusted
           /\ ToConnected(d, p, socket).seen = [d.seen EXCEPT ![p] = d.seen[p] \cup {socket}]
<1> DEFINE l == Leave(d, p)
<1>1. l \in Databases /\ l.status = d.status /\ KeepsRecords(d, l)
  BY LeaveType, LeaveEffect
<1>2. ToConnected(d, p, socket) = [SetStatus(l, p, "Connected") EXCEPT !.seen[p] = @ \cup {socket}]
  BY DEF ToConnected
<1> HIDE DEF l
<1>3. PICK m : m = SetStatus(l, p, "Connected")
  OBVIOUS
<1>4. /\ m \in Databases /\ m.status = [d.status EXCEPT ![p] = "Connected"]
      /\ m.score = d.score /\ m.trusted = d.trusted /\ m.seen = d.seen
  <2>1. "Connected" \in Statuses
    BY DEF Statuses
  <2>2. m \in Databases /\ m.status = [d.status EXCEPT ![p] = "Connected"]
    BY <1>1, <1>3, <2>1, SetStatusType
  <2>3. m.score = l.score /\ m.trusted = l.trusted /\ m.seen = l.seen
    BY <1>1, <1>3 DEF SetStatus, Databases
  <2> QED BY <1>1, <2>2, <2>3 DEF KeepsRecords
<1> QED BY <1>2, <1>3, <1>4 DEF Databases

\* A dial: a trusted peer is tagged.
Dialed(d, e, p, trusted) ==
    /\ e.status[p] = IF d.status[p] \in {"Absent", "Unknown", "Disconnected", "Banned"}
                     THEN "Dialing" ELSE d.status[p]
    /\ e.score[p] = IF d.status[p] = "Absent" /\ trusted = TRUE THEN "Max" ELSE d.score[p]
    /\ \A q \in Peers \ {p} : e.status[q] = d.status[q] /\ e.score[q] = d.score[q]
    /\ \A q \in Peers : e.trusted[q] => d.trusted[q] \/ trusted = TRUE
    /\ e.seen = d.seen

\* A dial starts.
LEMMA ToDialingEffect ==
    ASSUME NEW d \in Databases, NEW p \in Peers, NEW trusted \in BOOLEAN, NEW e,
           e = ToDialing(d, p, trusted)
    PROVE  Dialed(d, e, p, trusted)
<1> DEFINE sc == [d.score EXCEPT ![p] =
                     IF d.status[p] = "Absent" /\ trusted THEN "Max" ELSE d.score[p]]
           tr == [d.trusted EXCEPT ![p] = d.trusted[p] \/ trusted]
           tagged == [d EXCEPT !.score = sc, !.trusted = tr]
<1>1. sc \in [Peers -> Scores] /\ tr \in [Peers -> BOOLEAN]
  BY DEF Databases, Scores
<1>2. ToDialing(d, p, trusted) =
        IF d.status[p] \in {"Absent", "Unknown", "Disconnected", "Banned"}
        THEN SetStatus(Leave(tagged, p), p, "Dialing") ELSE tagged
  BY DEF ToDialing
<1> HIDE DEF sc, tr
<1>3. /\ tagged \in Databases /\ tagged.status = d.status /\ tagged.score = sc
      /\ tagged.trusted = tr /\ tagged.seen = d.seen
  BY <1>1 DEF Databases
<1> HIDE DEF tagged
<1> DEFINE l == Leave(tagged, p)
<1>4. l \in Databases /\ l.status = d.status /\ KeepsRecords(tagged, l)
  BY <1>3, LeaveType, LeaveEffect
<1> HIDE DEF l
<1>5. /\ SetStatus(l, p, "Dialing").status = [d.status EXCEPT ![p] = "Dialing"]
      /\ KeepsRecords(tagged, SetStatus(l, p, "Dialing"))
  BY <1>4 DEF SetStatus, Databases, KeepsRecords
<1>6. d.status = [d.status EXCEPT ![p] = d.status[p]]
  BY DEF Databases
<1>7. sc = [d.score EXCEPT ![p] =
              IF d.status[p] = "Absent" /\ trusted = TRUE THEN "Max" ELSE d.score[p]]
  BY DEF sc
<1>8. \A q \in Peers : tr[q] => d.trusted[q] \/ trusted = TRUE
  <2>1. d.trusted \in [Peers -> BOOLEAN]
    BY DEF Databases
  <2> TAKE q \in Peers
  <2>2. CASE q = p
    BY <2>1, <2>2, Zenon DEF tr
  <2>3. CASE q # p
    BY <2>1, <2>3 DEF tr
  <2> QED BY <2>2, <2>3
<1>9. ToDialing(d, p, trusted).trusted = tr
  BY <1>2, <1>3, <1>5 DEF KeepsRecords, l
<1>10. /\ e.status = [d.status EXCEPT ![p] =
                        IF d.status[p] \in {"Absent", "Unknown", "Disconnected", "Banned"}
                        THEN "Dialing" ELSE d.status[p]]
       /\ e.score = sc /\ e.seen = d.seen
  BY <1>2, <1>3, <1>5, <1>6 DEF KeepsRecords, l
<1>11. d.status \in [Peers -> Statuses] /\ d.score \in [Peers -> Scores]
  BY DEF Databases
<1>12. /\ e.status[p] = IF d.status[p] \in {"Absent", "Unknown", "Disconnected", "Banned"}
                        THEN "Dialing" ELSE d.status[p]
       /\ \A q \in Peers \ {p} : e.status[q] = d.status[q]
  BY <1>10, <1>11
<1>13. /\ e.score[p] = IF d.status[p] = "Absent" /\ trusted = TRUE THEN "Max" ELSE d.score[p]
       /\ \A q \in Peers \ {p} : e.score[q] = d.score[q]
  BY <1>7, <1>10, <1>11
<1> QED BY <1>8, <1>9, <1>10, <1>12, <1>13 DEF Dialed

\* A disconnection ends.
LEMMA ToDisconnectedEffect ==
    ASSUME NEW d \in Databases, NEW p \in Peers
    PROVE  /\ ToDisconnected(d, p).status =
                [d.status EXCEPT ![p] = IF d.status[p] \in {"Banned", "DisconnectingToBan"}
                                        THEN "Banned" ELSE "Disconnected"]
           /\ KeepsRecords(d, ToDisconnected(d, p))
<1>1. d.status[p] \in Statuses
  BY DEF Databases
<1> QED BY <1>1 DEF ToDisconnected, StampStatus, add_banned_peer, Databases, KeepsRecords, Statuses

\* A disconnection starts.
LEMMA ToDisconnectingEffect ==
    ASSUME NEW d \in Databases, NEW p \in Peers
    PROVE  /\ ToDisconnecting(d, p).status = [d.status EXCEPT ![p] = "Disconnecting"]
           /\ KeepsRecords(d, ToDisconnecting(d, p))
BY DEF ToDisconnecting, SetStatus, OneLessDisconnected, Databases, KeepsRecords

\* A ban: at once for a peer without a connection, otherwise announced.
StatusToBan(st) ==
    CASE st \in {"Disconnected", "Unknown", "Banned"} -> "Banned"
      [] st \in {"Disconnecting", "DisconnectingToBan", "Connected", "Dialing"} -> "DisconnectingToBan"
      [] st = "Absent" -> "Absent"

\* A ban does that.
LEMMA ToBannedEffect ==
    ASSUME NEW d \in Databases, NEW p \in Peers
    PROVE  /\ ToBanned(d, p).status = [d.status EXCEPT ![p] = StatusToBan(d.status[p])]
           /\ KeepsRecords(d, ToBanned(d, p))
<1>1. d.status[p] \in Statuses
  BY DEF Databases
<1> QED BY <1>1 DEF ToBanned, StatusToBan, StampStatus, SetStatus, OneLessDisconnected, add_banned_peer,
                    Databases, KeepsRecords, Statuses

\* Banned peers become disconnected ones.
LEMMA ToUnbannedEffect ==
    ASSUME NEW d \in Databases, NEW S \in SUBSET Peers
    PROVE  /\ ToUnbanned(d, S).status =
                [p \in Peers |-> IF p \in S /\ d.status[p] = "Banned" THEN "Disconnected"
                                 ELSE d.status[p]]
           /\ KeepsRecords(d, ToUnbanned(d, S))
<1> DEFINE B == S \cap Banned(d)
           r == RemoveBanned(d, B)
           f == [p \in Peers |-> IF p \in B THEN "Disconnected" ELSE r.status[p]]
           n == r.disconnected_peers + Cardinality(B)
<1>1. ToUnbanned(d, S) = [r EXCEPT !.status = f, !.disconnected_peers = n]
  BY DEF ToUnbanned
<1>2. r \in Databases /\ r.status = d.status /\ KeepsRecords(d, r)
  <2>1. B \in SUBSET Peers
    OBVIOUS
  <2>2. KeepsRecords(d, r)
    BY DEF RemoveBanned, Databases, KeepsRecords
  <2> QED BY <2>1, <2>2, RemoveBannedType
<1>3. f = [p \in Peers |-> IF p \in S /\ d.status[p] = "Banned" THEN "Disconnected"
                           ELSE d.status[p]]
  BY <1>2 DEF Banned, InState
<1> HIDE DEF r, f, n
<1>4. ToUnbanned(d, S).status = f /\ KeepsRecords(r, ToUnbanned(d, S))
  BY <1>1, <1>2 DEF Databases, KeepsRecords
<1> QED BY <1>2, <1>3, <1>4 DEF KeepsRecords

\* Peers that are dropped.
DroppedFrom(d, e, S) ==
    /\ e.status = [p \in Peers |-> IF p \in S THEN "Absent" ELSE d.status[p]]
    /\ e.score = [p \in Peers |-> IF p \in S THEN "Healthy" ELSE d.score[p]]
    /\ e.trusted = [p \in Peers |-> p \notin S /\ d.trusted[p]]
    /\ e.seen = [p \in Peers |-> IF p \in S THEN {} ELSE d.seen[p]]
    /\ e.older = Forget(d.older, S)

\* Dropping them.
LEMMA DropEffect ==
    ASSUME NEW d \in Databases, NEW S \in SUBSET Peers
    PROVE  DroppedFrom(d, Drop(d, S), S)
BY DEF Drop, DroppedFrom, Databases

\* The purge drops the peers it is given.
LEMMA ShrinkEffect ==
    ASSUME NEW d, Sound(d), NEW RB \in SUBSET Banned(d), NEW RD \in SUBSET Disconnected(d)
    PROVE  DroppedFrom(d, shrink_to_fit(d, RB, RD), RB \cup RD)
<1> DEFINE b == DropBanned(d, RB)
<1>1. d \in Databases /\ RB \in SUBSET Peers /\ RD \in SUBSET Peers
  BY DEF Sound, Banned, Disconnected, InState
<1>2. b \in Databases /\ DroppedFrom(d, b, RB)
  <2>1. b \in Databases
    BY DropBannedSound DEF Sound
  <2> DEFINE r == RemoveBanned(d, RB)
             c == Drop(d, RB)
  <2>2. /\ r \in Databases /\ r.status = d.status /\ r.older = d.older /\ KeepsRecords(d, r)
    <3>1. KeepsRecords(d, r)
      BY <1>1 DEF RemoveBanned, Databases, KeepsRecords
    <3> QED BY <1>1, <3>1, RemoveBannedType
  <2>3. b = IF Cardinality(RB) = ExcessBanned(d) THEN Drop(r, RB)
            ELSE [c EXCEPT !.banned_peers = 0, !.banned_peers_per_ip = [ip \in Ips |-> 0]]
    BY DEF DropBanned
  <2> HIDE DEF r
  <2>4. DroppedFrom(d, Drop(r, RB), RB)
    <3>1. DroppedFrom(r, Drop(r, RB), RB)
      BY <1>1, <2>2, DropEffect
    <3> QED BY <2>2, <3>1 DEF DroppedFrom, KeepsRecords
  <2>5. c \in Databases /\ DroppedFrom(d, c, RB)
    BY <1>1, DropEffect, DropType
  <2> HIDE DEF c
  <2>6. DroppedFrom(d, [c EXCEPT !.banned_peers = 0, !.banned_peers_per_ip = [ip \in Ips |-> 0]], RB)
    BY <2>5 DEF DroppedFrom, Databases
  <2> QED BY <2>1, <2>3, <2>4, <2>6
<1>3. shrink_to_fit(d, RB, RD) = [Drop(b, RD) EXCEPT
          !.disconnected_peers = SatSub(@, ExcessDisconnected(b))]
  BY DEF shrink_to_fit, DropDisconnected
<1> HIDE DEF b
<1> DEFINE c == Drop(b, RD)
<1>4. c \in Databases /\ DroppedFrom(b, c, RD)
  BY <1>1, <1>2, DropEffect, DropType
<1> HIDE DEF c
<1> DEFINE e == [c EXCEPT !.disconnected_peers = SatSub(@, ExcessDisconnected(b))]
<1>5. e.status = c.status /\ KeepsRecords(c, e) /\ e.older = c.older
  BY <1>4 DEF Databases, KeepsRecords
<1>6. shrink_to_fit(d, RB, RD) = e
  BY <1>3 DEF c
<1> HIDE DEF e
<1>7. DroppedFrom(b, e, RD)
  BY <1>4, <1>5 DEF DroppedFrom, KeepsRecords
<1>8. DroppedFrom(d, e, RB \cup RD)
  <2>1. /\ e.status = [p \in Peers |-> IF p \in RB \cup RD THEN "Absent" ELSE d.status[p]]
        /\ e.score = [p \in Peers |-> IF p \in RB \cup RD THEN "Healthy" ELSE d.score[p]]
    BY <1>2, <1>7 DEF DroppedFrom
  <2>2. e.trusted = [p \in Peers |-> p \notin RB \cup RD /\ d.trusted[p]]
    BY <1>2, <1>7 DEF DroppedFrom
  <2>3. e.seen = [p \in Peers |-> IF p \in RB \cup RD THEN {} ELSE d.seen[p]]
    BY <1>2, <1>7 DEF DroppedFrom
  <2>4. e.older = Forget(d.older, RB \cup RD)
    BY <1>2, <1>7 DEF DroppedFrom, Forget
  <2> QED BY <2>1, <2>2, <2>3, <2>4 DEF DroppedFrom
<1> QED BY <1>6, <1>8

\* A report sets the score, and starts a disconnection or a ban.
LEMMA ReportEffect ==
    ASSUME NEW d \in Databases, NEW p \in Peers, NEW sc \in Scores, NEW result,
           result = handle_score_transition(d.score[p], sc, d.status[p])
    PROVE  /\ report_peer(d, p, sc).status =
                [d.status EXCEPT ![p] = IF result = "Banned" THEN StatusToBan(d.status[p])
                                        ELSE IF result = "Disconnected" THEN "Disconnecting"
                                        ELSE d.status[p]]
           /\ report_peer(d, p, sc).score = [d.score EXCEPT ![p] = sc]
           /\ report_peer(d, p, sc).trusted = d.trusted
           /\ report_peer(d, p, sc).seen = d.seen
<1> DEFINE f == [d.score EXCEPT ![p] = sc]
           e == [d EXCEPT !.score = f]
<1>1. f \in [Peers -> Scores]
  BY DEF Databases
<1>2. report_peer(d, p, sc) =
        CASE result = "Banned" -> ToBanned(e, p)
          [] result = "Disconnected" -> ToDisconnecting(e, p)
          [] result \in {"NoAction", "Unbanned"} -> e
  BY DEF report_peer
<1>3. result \in {"Banned", "Disconnected", "NoAction", "Unbanned"}
  <2>1. d.score[p] \in Scores
    BY DEF Databases
  <2> QED BY <2>1 DEF handle_score_transition, Scores
<1> HIDE DEF f
<1>4. /\ e \in Databases /\ e.status = d.status /\ e.score = f
      /\ e.trusted = d.trusted /\ e.seen = d.seen
  BY <1>1 DEF Databases
<1> HIDE DEF e
<1>5. d.status = [d.status EXCEPT ![p] = d.status[p]]
  BY DEF Databases
<1>6. CASE result = "Banned"
  BY <1>2, <1>4, <1>6, ToBannedEffect DEF KeepsRecords, f
<1>7. CASE result = "Disconnected"
  BY <1>2, <1>4, <1>7, ToDisconnectingEffect DEF KeepsRecords, f
<1>8. CASE result \in {"NoAction", "Unbanned"}
  BY <1>2, <1>4, <1>5, <1>8 DEF f
<1> QED BY <1>3, <1>6, <1>7, <1>8

\* A decay sets every score and unbans the peers that leave the banned state.
LEMMA UpdateScoresEffect ==
    ASSUME NEW d, Sound(d), NEW sc \in DecayedScores(d), NEW U,
           U = Transition(d, sc, Known(d), "Unbanned")
    PROVE  /\ update_scores(d, sc).status =
                [p \in Peers |-> IF p \in U /\ d.status[p] = "Banned" THEN "Disconnected"
                                 ELSE d.status[p]]
           /\ update_scores(d, sc).score = sc
           /\ update_scores(d, sc).trusted = d.trusted
           /\ update_scores(d, sc).seen = d.seen
<1> DEFINE s == SetScores(d, sc, Known(d))
<1>1. d \in Databases /\ sc \in [Peers -> Scores] /\ U \in SUBSET Peers
  BY DEF Sound, DecayedScores, Transition, Known
<1>2. Sound(s) /\ s.status = d.status
  BY <1>1, SetScoresSound
<1>3. s.score = sc /\ s.trusted = d.trusted /\ s.seen = d.seen
  <2>1. \A p \in Peers : p \notin Known(d) => sc[p] = d.score[p]
    BY DEF DecayedScores, Known
  <2>2. sc = [p \in Peers |-> IF p \in Known(d) THEN sc[p] ELSE d.score[p]]
    BY <1>1, <2>1
  <2> QED BY <1>1, <2>2 DEF SetScores, Databases
<1>4. update_scores(d, sc) = ToUnbanned(s, U)
  BY DEF update_scores
<1> HIDE DEF s
<1>5. /\ ToUnbanned(s, U).status =
           [p \in Peers |-> IF p \in U /\ s.status[p] = "Banned" THEN "Disconnected"
                            ELSE s.status[p]]
      /\ KeepsRecords(s, ToUnbanned(s, U))
  BY <1>1, <1>2, ToUnbannedEffect DEF Sound
<1> QED BY <1>2, <1>3, <1>4, <1>5 DEF KeepsRecords

\* Gossipsub's scores move connected peers, which may be banned or disconnected.
LEMMA UpdateGossipsubScoresEffect ==
    ASSUME NEW d \in Databases, NEW sc \in GossipsubScores(d)
    PROVE  /\ update_gossipsub_scores(d, sc).status =
                [p \in Peers |->
                    IF p \in Transition(d, sc, Connected(d), "Banned") THEN "DisconnectingToBan"
                    ELSE IF p \in Transition(d, sc, Connected(d), "Disconnected") THEN "Disconnecting"
                    ELSE d.status[p]]
           /\ update_gossipsub_scores(d, sc).score = sc
           /\ update_gossipsub_scores(d, sc).trusted = d.trusted
           /\ update_gossipsub_scores(d, sc).seen = d.seen
<1>1. sc \in [Peers -> Scores] /\ \A p \in Peers : p \notin Connected(d) => sc[p] = d.score[p]
  BY DEF GossipsubScores, Connected, InState
<1>2. sc = [p \in Peers |-> IF p \in Connected(d) THEN sc[p] ELSE d.score[p]]
  BY <1>1
<1> QED BY <1>2 DEF update_gossipsub_scores, SetScores, Databases

\* Dials that timed out.
LEMMA CleanupEffect ==
    ASSUME NEW d \in Databases, NEW T \in SUBSET Dialing(d)
    PROVE  /\ cleanup_dialing_peers(d, T).status =
                [p \in Peers |-> IF p \in T THEN "Disconnected" ELSE d.status[p]]
           /\ KeepsRecords(d, cleanup_dialing_peers(d, T))
BY DEF cleanup_dialing_peers, Databases, KeepsRecords

\* Pruned peers.
LEMMA ToDisconnectingAllEffect ==
    ASSUME NEW d \in Databases, NEW S
    PROVE  /\ ToDisconnectingAll(d, S).status =
                [p \in Peers |-> IF p \in S THEN "Disconnecting" ELSE d.status[p]]
           /\ KeepsRecords(d, ToDisconnectingAll(d, S))
BY DEF ToDisconnectingAll, Databases, KeepsRecords

\* Entries created for a min_ttl.
LEMMA UpdateMinTtlEffect ==
    ASSUME NEW d \in Databases, NEW S
    PROVE  /\ update_min_ttl(d, S).status =
                [p \in Peers |-> IF p \in S /\ d.status[p] = "Absent" THEN "Unknown"
                                 ELSE d.status[p]]
           /\ KeepsRecords(d, update_min_ttl(d, S))
BY DEF update_min_ttl, Databases, KeepsRecords

-----------------------------------------------------------------------------
(* The counters of banned peers.                                           *)

\* The counters of banned peers agree with the map: as many peers, and for every IP as
\* many addresses.
CountsBanned(d) ==
    /\ d.banned_peers = Cardinality(Banned(d))
    /\ \A ip \in Ips : d.banned_peers_per_ip[ip] = SeenOn(d, Banned(d), ip)

\* The counters stay, count a peer more, or peers fewer.
SameBans(d, e) ==
    e.banned_peers = d.banned_peers /\ e.banned_peers_per_ip = d.banned_peers_per_ip

OneMoreBan(d, e, p) ==
    /\ e.banned_peers = d.banned_peers + 1
    /\ \A ip \in Ips :
           e.banned_peers_per_ip[ip] = d.banned_peers_per_ip[ip] + SeenOn(d, {p}, ip)

FewerBans(d, e, S) ==
    /\ e.banned_peers = SatSub(d.banned_peers, Cardinality(S))
    /\ \A ip \in Ips :
           e.banned_peers_per_ip[ip] = SatSub(d.banned_peers_per_ip[ip], SeenOn(d, S, ip))

\* Only the addresses of the peers in question count.
LEMMA SeenOnSame ==
    ASSUME NEW d, NEW e, NEW S, NEW ip, \A q \in S : e.seen[q] = d.seen[q]
    PROVE  SeenOn(e, S, ip) = SeenOn(d, S, ip)
<1>1. {ps \in S \X Sockets : ps[2] \in e.seen[ps[1]] /\ ps[2].ip = ip}
        = {ps \in S \X Sockets : ps[2] \in d.seen[ps[1]] /\ ps[2].ip = ip}
  OBVIOUS
<1> QED BY <1>1 DEF SeenOn

\* The addresses of two sets of peers.
LEMMA SeenOnBoth ==
    ASSUME NEW d, NEW S \in SUBSET Peers, NEW T \in SUBSET Peers, S \cap T = {}, NEW ip
    PROVE  /\ SeenOn(d, S \cup T, ip) = SeenOn(d, S, ip) + SeenOn(d, T, ip)
           /\ SeenOn(d, S, ip) \in Nat /\ SeenOn(d, T, ip) \in Nat
<1>1. PICK A : A = {ps \in S \X Sockets : ps[2] \in d.seen[ps[1]] /\ ps[2].ip = ip}
  OBVIOUS
<1>2. PICK B : B = {ps \in T \X Sockets : ps[2] \in d.seen[ps[1]] /\ ps[2].ip = ip}
  OBVIOUS
<1>3. {ps \in (S \cup T) \X Sockets : ps[2] \in d.seen[ps[1]] /\ ps[2].ip = ip} = A \cup B
  BY <1>1, <1>2
<1>4. A \cap B = {}
  BY <1>1, <1>2
<1>5. IsFiniteSet(A) /\ IsFiniteSet(B)
  <2>1. IsFiniteSet(Peers \X Sockets)
    BY SocketsFinite, PeersAssumption, FS_Product
  <2>2. A \in SUBSET (Peers \X Sockets) /\ B \in SUBSET (Peers \X Sockets)
    BY <1>1, <1>2
  <2> QED BY <2>1, <2>2, FS_Subset
<1>6. Cardinality(A) \in Nat /\ Cardinality(B) \in Nat /\ Cardinality(A \cap B) = 0
  BY <1>4, <1>5, FS_CardinalityType, FS_EmptySet
<1>7. Cardinality(A \cup B) = Cardinality(A) + Cardinality(B) - Cardinality(A \cap B)
  BY <1>5, FS_Union
<1>8. SeenOn(d, S, ip) = Cardinality(A) /\ SeenOn(d, T, ip) = Cardinality(B)
      /\ SeenOn(d, S \cup T, ip) = Cardinality(A \cup B)
  BY <1>1, <1>2, <1>3 DEF SeenOn
<1> QED
  BY <1>6, <1>7, <1>8

\* A change that involves no banned peer.
LEMMA CountSame ==
    ASSUME NEW d, CountsBanned(d), NEW e, SameBans(d, e), Banned(e) = Banned(d),
           \A q \in Banned(d) : e.seen[q] = d.seen[q]
    PROVE  CountsBanned(e)
BY SeenOnSame DEF CountsBanned, SameBans

\* A peer is banned.
LEMMA CountMore ==
    ASSUME NEW d, CountsBanned(d), NEW e, NEW p \in Peers, OneMoreBan(d, e, p),
           p \notin Banned(d), Banned(e) = Banned(d) \cup {p},
           \A q \in Banned(e) : e.seen[q] = d.seen[q]
    PROVE  CountsBanned(e)
<1>1. PICK B : B = Banned(d)
  OBVIOUS
<1>2. B \in SUBSET Peers /\ {p} \in SUBSET Peers /\ {p} \cap B = {} /\ B \cap {p} = {}
      /\ Banned(e) = B \cup {p} /\ Cardinality({p}) = 1
  BY <1>1, FS_Singleton DEF Banned, InState
<1>3. Cardinality(B \cup {p}) = Cardinality(B) + 1
  BY <1>2, MorePeers
<1>4. ASSUME NEW ip \in Ips
      PROVE  e.banned_peers_per_ip[ip] = SeenOn(e, B \cup {p}, ip)
  <2>1. SeenOn(e, B \cup {p}, ip) = SeenOn(d, B \cup {p}, ip)
    BY <1>2, SeenOnSame
  <2>2. SeenOn(d, B \cup {p}, ip) = SeenOn(d, B, ip) + SeenOn(d, {p}, ip)
    BY <1>2, SeenOnBoth
  <2> QED BY <1>1, <2>1, <2>2 DEF CountsBanned, OneMoreBan
<1> QED
  BY <1>1, <1>2, <1>3, <1>4 DEF CountsBanned, OneMoreBan

\* Peers are banned no longer: the saturating subtractions are exact.
LEMMA CountFewer ==
    ASSUME NEW d, CountsBanned(d), NEW e, NEW S \in SUBSET Banned(d), FewerBans(d, e, S),
           Banned(e) = Banned(d) \ S, \A q \in Banned(e) : e.seen[q] = d.seen[q]
    PROVE  CountsBanned(e)
<1>1. PICK B : B = Banned(d)
  OBVIOUS
<1>2. PICK R : R = B \ S
  OBVIOUS
<1>3. B \in SUBSET Peers /\ S \in SUBSET B /\ R \in SUBSET Peers /\ S \in SUBSET Peers
      /\ R \cap S = {} /\ B = R \cup S /\ Banned(e) = R
  BY <1>1, <1>2 DEF Banned, InState
<1>4. Cardinality(S) \in Nat /\ Cardinality(R) \in Nat
      /\ Cardinality(B) = Cardinality(R) + Cardinality(S)
  BY <1>2, <1>3, FewerPeers
<1>5. ASSUME NEW ip \in Ips
      PROVE  e.banned_peers_per_ip[ip] = SeenOn(e, R, ip)
  <2>1. SeenOn(e, R, ip) = SeenOn(d, R, ip)
    BY <1>3, SeenOnSame
  <2>2. /\ SeenOn(d, R \cup S, ip) = SeenOn(d, R, ip) + SeenOn(d, S, ip)
        /\ SeenOn(d, R, ip) \in Nat /\ SeenOn(d, S, ip) \in Nat
    <3>1. R \in SUBSET Peers /\ S \in SUBSET Peers /\ R \cap S = {}
      BY <1>3
    <3> QED BY <3>1, SeenOnBoth
  <2>3. d.banned_peers_per_ip[ip] = SeenOn(d, R \cup S, ip)
    BY <1>1, <1>3 DEF CountsBanned
  <2> QED BY <2>1, <2>2, <2>3 DEF FewerBans, SatSub
<1>6. e.banned_peers = Cardinality(R)
  BY <1>1, <1>4 DEF CountsBanned, FewerBans, SatSub
<1> QED
  BY <1>3, <1>5, <1>6 DEF CountsBanned

\* One peer changes its state.
LEMMA BannedAfter ==
    ASSUME NEW d \in Databases, NEW p \in Peers, NEW st, NEW e,
           e.status = [d.status EXCEPT ![p] = st]
    PROVE  /\ st # "Banned" => Banned(e) = Banned(d) \ {p}
           /\ st = "Banned" => Banned(e) = Banned(d) \cup {p}
           /\ p \in Banned(d) <=> d.status[p] = "Banned"
           /\ d.status[p] # "Banned" => Banned(d) \ {p} = Banned(d)
BY DEF Banned, InState, Databases

\* What leaving a state does to the counters.
LEMMA LeaveBans ==
    ASSUME NEW d \in Databases, NEW p \in Peers
    PROVE  /\ d.status[p] = "Banned" => FewerBans(d, Leave(d, p), {p})
           /\ d.status[p] # "Banned" => SameBans(d, Leave(d, p))
<1>1. CASE d.status[p] = "Disconnected"
  <2>1. Leave(d, p) = OneLessDisconnected(d)
    BY <1>1 DEF Leave
  <2> QED BY <1>1, <2>1 DEF OneLessDisconnected, SameBans, Databases
<1>2. CASE d.status[p] = "Banned"
  <2>1. Leave(d, p) = RemoveBanned(d, {p})
    BY <1>2 DEF Leave
  <2> QED BY <1>2, <2>1 DEF RemoveBanned, FewerBans, Databases
<1>3. CASE d.status[p] \notin {"Disconnected", "Banned"}
  <2>1. Leave(d, p) = d
    BY <1>3 DEF Leave
  <2> QED BY <1>3, <2>1 DEF SameBans
<1> QED BY <1>1, <1>2, <1>3

\* Setting a state touches no counter of banned peers.
LEMMA SetStatusBans ==
    ASSUME NEW d \in Databases, NEW p, NEW st
    PROVE  /\ SameBans(d, SetStatus(d, p, st)) /\ SameBans(d, StampStatus(d, p, st))
           /\ KeepsRecords(d, SetStatus(d, p, st)) /\ KeepsRecords(d, StampStatus(d, p, st))
BY DEF SetStatus, StampStatus, SameBans, KeepsRecords, Databases

\* Leaving a state for one that is not banned.
LEMMA LeaveCounts ==
    ASSUME NEW d \in Databases, CountsBanned(d), NEW p \in Peers, NEW st, st # "Banned",
           NEW l, l = Leave(d, p), NEW e, SameBans(l, e),
           e.status = [d.status EXCEPT ![p] = st],
           \A q \in Peers \ {p} : e.seen[q] = d.seen[q]
    PROVE  CountsBanned(e)
<1>1. Banned(e) = Banned(d) \ {p}
  BY BannedAfter
<1>2. \A q \in Banned(e) : e.seen[q] = d.seen[q]
  BY <1>1 DEF Banned, InState
<1>3. CASE d.status[p] = "Banned"
  <2>1. FewerBans(d, l, {p})
    BY <1>3, LeaveBans
  <2>2. FewerBans(d, e, {p})
    BY <2>1 DEF FewerBans, SameBans
  <2>3. {p} \in SUBSET Banned(d)
    BY <1>3 DEF Banned, InState
  <2> QED BY <1>1, <1>2, <2>2, <2>3, CountFewer
<1>4. CASE d.status[p] # "Banned"
  <2>1. SameBans(d, e)
    BY <1>4, LeaveBans DEF SameBans
  <2>2. Banned(e) = Banned(d)
    BY <1>1, <1>4, BannedAfter
  <2> QED BY <1>2, <2>1, <2>2, CountSame
<1> QED BY <1>3, <1>4

\* A connection is registered.
LEMMA ToConnectedCounts ==
    ASSUME NEW d \in Databases, CountsBanned(d), NEW p \in Peers, NEW socket \in Sockets
    PROVE  CountsBanned(ToConnected(d, p, socket))
<1>1. PICK l : l = Leave(d, p)
  OBVIOUS
<1>2. PICK e : e = ToConnected(d, p, socket)
  OBVIOUS
<1>3. l \in Databases
  BY <1>1, LeaveType
<1>4. SameBans(l, e)
  <2>1. e = [SetStatus(l, p, "Connected") EXCEPT !.seen[p] = @ \cup {socket}]
    BY <1>1, <1>2 DEF ToConnected
  <2> QED BY <1>3, <2>1 DEF SetStatus, SameBans, Databases
<1>5. /\ e.status = [d.status EXCEPT ![p] = "Connected"]
      /\ e.seen = [d.seen EXCEPT ![p] = d.seen[p] \cup {socket}]
  BY <1>2, ToConnectedEffect
<1>6. \A q \in Peers \ {p} : e.seen[q] = d.seen[q]
  BY <1>5 DEF Databases
<1>7. PICK st : st = "Connected"
  OBVIOUS
<1>8. st # "Banned" /\ e.status = [d.status EXCEPT ![p] = st]
  BY <1>5, <1>7
<1>9. CountsBanned(e)
  BY <1>1, <1>4, <1>6, <1>8, LeaveCounts
<1> QED BY <1>2, <1>9

\* A dial starts.
LEMMA ToDialingCounts ==
    ASSUME NEW d \in Databases, CountsBanned(d), NEW p \in Peers, NEW trusted \in BOOLEAN
    PROVE  CountsBanned(ToDialing(d, p, trusted))
<1>1. PICK tagged :
        tagged = [d EXCEPT !.score[p] = IF d.status[p] = "Absent" /\ trusted THEN "Max" ELSE @,
                           !.trusted[p] = @ \/ trusted]
  OBVIOUS
<1>2. PICK e : e = ToDialing(d, p, trusted)
  OBVIOUS
<1>3. e = IF d.status[p] \in {"Absent", "Unknown", "Disconnected", "Banned"}
          THEN SetStatus(Leave(tagged, p), p, "Dialing") ELSE tagged
  BY <1>1, <1>2 DEF ToDialing
<1>4. /\ tagged.status = d.status /\ tagged.seen = d.seen /\ SameBans(d, tagged)
      /\ tagged.disconnected_peers = d.disconnected_peers
  BY <1>1 DEF SameBans, Databases
<1>5. tagged \in Databases
  <2>1. PICK sc : sc = [d.score EXCEPT ![p] =
                          IF d.status[p] = "Absent" /\ trusted THEN "Max" ELSE d.score[p]]
    OBVIOUS
  <2>2. PICK tr : tr = [d.trusted EXCEPT ![p] = d.trusted[p] \/ trusted]
    OBVIOUS
  <2>3. sc \in [Peers -> Scores] /\ tr \in [Peers -> BOOLEAN]
    BY <2>1, <2>2 DEF Databases, Scores
  <2>4. tagged = [d EXCEPT !.score = sc, !.trusted = tr]
    BY <1>1, <2>1, <2>2
  <2> QED BY <2>3, <2>4 DEF Databases
<1>6. CountsBanned(tagged)
  <2>1. Banned(tagged) = Banned(d)
    BY <1>4 DEF Banned, InState
  <2> QED BY <1>4, <2>1, CountSame
<1>7. CASE d.status[p] \in {"Absent", "Unknown", "Disconnected", "Banned"}
  <2>1. PICK l : l = Leave(tagged, p)
    OBVIOUS
  <2>2. l \in Databases /\ l.status = tagged.status /\ KeepsRecords(tagged, l)
    BY <1>5, <2>1, LeaveType, LeaveEffect
  <2>3. e = SetStatus(l, p, "Dialing")
    BY <1>3, <1>7, <2>1
  <2>4. e.status = [tagged.status EXCEPT ![p] = "Dialing"] /\ SameBans(l, e)
        /\ e.seen = tagged.seen
    BY <2>2, <2>3 DEF SetStatus, SameBans, KeepsRecords, Databases
  <2> QED BY <1>2, <1>5, <1>6, <2>1, <2>4, LeaveCounts
<1>8. CASE d.status[p] \notin {"Absent", "Unknown", "Disconnected", "Banned"}
  BY <1>2, <1>3, <1>6, <1>8
<1> QED BY <1>7, <1>8

\* A peer becomes banned.
LEMMA BanCounts ==
    ASSUME NEW d \in Databases, CountsBanned(d), NEW p \in Peers, d.status[p] # "Banned",
           NEW e, e.status = [d.status EXCEPT ![p] = "Banned"], e.seen = d.seen,
           SameBans(add_banned_peer(d, p), e)
    PROVE  CountsBanned(e)
<1>1. p \notin Banned(d) /\ Banned(e) = Banned(d) \cup {p}
  BY BannedAfter
<1>2. OneMoreBan(d, e, p)
  BY DEF OneMoreBan, SameBans, add_banned_peer, Databases
<1> QED BY <1>1, <1>2, CountMore

\* A peer that is not banned changes its state.
LEMMA NoBanCounts ==
    ASSUME NEW d \in Databases, CountsBanned(d), NEW p \in Peers, d.status[p] # "Banned",
           NEW st, st # "Banned",
           NEW e, e.status = [d.status EXCEPT ![p] = st], e.seen = d.seen, SameBans(d, e)
    PROVE  CountsBanned(e)
<1>1. Banned(e) = Banned(d)
  BY BannedAfter
<1> QED BY <1>1, CountSame

\* A disconnection ends.
LEMMA ToDisconnectedCounts ==
    ASSUME NEW d \in Databases, CountsBanned(d), NEW p \in Peers
    PROVE  CountsBanned(ToDisconnected(d, p))
<1> USE DEF Statuses
<1>1. PICK e : e = ToDisconnected(d, p)
  OBVIOUS
<1>2. d.status[p] \in Statuses
  BY DEF Databases
<1>3. e.status = [d.status EXCEPT ![p] = IF d.status[p] \in {"Banned", "DisconnectingToBan"}
                                         THEN "Banned" ELSE "Disconnected"]
      /\ e.seen = d.seen
  BY <1>1, ToDisconnectedEffect DEF KeepsRecords
<1>4. CASE d.status[p] \in {"Banned", "Disconnected"}
  BY <1>4 DEF ToDisconnected
<1>5. CASE d.status[p] = "DisconnectingToBan"
  <2>1. PICK b : b = add_banned_peer(d, p)
    OBVIOUS
  <2>2. e = StampStatus(b, p, "Banned") /\ b \in Databases
    BY <1>1, <1>5, <2>1, AddBannedType DEF ToDisconnected
  <2>3. SameBans(b, e)
    BY <2>2, SetStatusBans
  <2> QED BY <1>1, <1>3, <1>5, <2>1, <2>3, BanCounts
<1>6. CASE d.status[p] \in {"Absent", "Unknown", "Dialing", "Connected", "Disconnecting"}
  <2>1. e = [StampStatus(d, p, "Disconnected") EXCEPT !.disconnected_peers = @ + 1]
    BY <1>1, <1>6 DEF ToDisconnected
  <2>2. SameBans(d, e)
    BY <2>1 DEF StampStatus, SameBans, Databases
  <2> QED BY <1>1, <1>3, <1>6, <2>2, NoBanCounts
<1> QED BY <1>2, <1>4, <1>5, <1>6

\* A disconnection starts; that of a banned peer would leave the peer counted.
LEMMA ToDisconnectingCounts ==
    ASSUME NEW d \in Databases, CountsBanned(d), NEW p \in Peers, d.status[p] # "Banned"
    PROVE  CountsBanned(ToDisconnecting(d, p))
<1>1. PICK e : e = ToDisconnecting(d, p)
  OBVIOUS
<1>2. e.status = [d.status EXCEPT ![p] = "Disconnecting"] /\ e.seen = d.seen
  BY <1>1, ToDisconnectingEffect DEF KeepsRecords
<1>3. SameBans(d, e)
  BY <1>1 DEF ToDisconnecting, SetStatus, OneLessDisconnected, SameBans, Databases
<1> QED BY <1>1, <1>2, <1>3, NoBanCounts

\* A ban.
LEMMA ToBannedCounts ==
    ASSUME NEW d \in Databases, CountsBanned(d), NEW p \in Peers
    PROVE  CountsBanned(ToBanned(d, p))
<1> USE DEF Statuses
<1>1. PICK e : e = ToBanned(d, p)
  OBVIOUS
<1>2. d.status[p] \in Statuses
  BY DEF Databases
<1>3. e.status = [d.status EXCEPT ![p] = StatusToBan(d.status[p])] /\ e.seen = d.seen
  BY <1>1, ToBannedEffect DEF KeepsRecords
<1>4. PICK b : b = add_banned_peer(d, p)
  OBVIOUS
<1>5. b \in Databases
  BY <1>4, AddBannedType
<1>6. PICK s : s = StampStatus(b, p, "Banned")
  OBVIOUS
<1>7. SameBans(b, s) /\ s \in Databases
  BY <1>5, <1>6, SetStatusBans, StampStatusType
<1>8. CASE d.status[p] = "Disconnected"
  <2>1. e = OneLessDisconnected(s) /\ StatusToBan(d.status[p]) = "Banned"
    BY <1>1, <1>4, <1>6, <1>8 DEF ToBanned, StatusToBan
  <2>2. SameBans(b, e)
    BY <1>7, <2>1 DEF OneLessDisconnected, SameBans, Databases
  <2> QED BY <1>1, <1>3, <1>4, <1>8, <2>1, <2>2, BanCounts
<1>9. CASE d.status[p] = "Unknown"
  <2>1. e = s /\ StatusToBan(d.status[p]) = "Banned"
    BY <1>1, <1>4, <1>6, <1>9 DEF ToBanned, StatusToBan
  <2> QED BY <1>1, <1>3, <1>4, <1>7, <1>9, <2>1, BanCounts
<1>10. CASE d.status[p] \in {"Disconnecting", "DisconnectingToBan", "Connected", "Dialing"}
  <2>1. e = SetStatus(d, p, "DisconnectingToBan")
        /\ StatusToBan(d.status[p]) = "DisconnectingToBan"
    BY <1>1, <1>10 DEF ToBanned, StatusToBan
  <2>2. SameBans(d, e)
    BY <2>1, SetStatusBans
  <2> QED BY <1>1, <1>3, <1>10, <2>1, <2>2, NoBanCounts
<1>11. CASE d.status[p] \in {"Banned", "Absent"}
  BY <1>11 DEF ToBanned
<1> QED BY <1>2, <1>8, <1>9, <1>10, <1>11

\* Banned peers become disconnected ones.
LEMMA ToUnbannedCounts ==
    ASSUME NEW d \in Databases, CountsBanned(d), NEW S \in SUBSET Peers
    PROVE  CountsBanned(ToUnbanned(d, S))
<1>1. PICK B : B = S \cap Banned(d)
  OBVIOUS
<1>2. PICK r : r = RemoveBanned(d, B)
  OBVIOUS
<1>3. PICK e : e = ToUnbanned(d, S)
  OBVIOUS
<1>4. B \in SUBSET Banned(d) /\ B \in SUBSET Peers
  BY <1>1
<1>5. r \in Databases
  BY <1>2, <1>4, RemoveBannedType
<1>6. e = [r EXCEPT !.status = [p \in Peers |-> IF p \in B THEN "Disconnected" ELSE @[p]],
                    !.disconnected_peers = @ + Cardinality(B)]
  BY <1>1, <1>2, <1>3 DEF ToUnbanned
<1>7. SameBans(r, e)
  BY <1>5, <1>6 DEF SameBans, Databases
<1>8. FewerBans(d, e, B)
  BY <1>2, <1>7 DEF FewerBans, SameBans, RemoveBanned, Databases
<1>9. /\ e.status = [p \in Peers |-> IF p \in S /\ d.status[p] = "Banned" THEN "Disconnected"
                                     ELSE d.status[p]]
      /\ e.seen = d.seen
  BY <1>3, ToUnbannedEffect DEF KeepsRecords
<1>10. Banned(e) = Banned(d) \ B
  BY <1>1, <1>9 DEF Banned, InState
<1>11. CountsBanned(e)
  BY <1>4, <1>8, <1>9, <1>10, CountFewer
<1> QED BY <1>3, <1>11

\* With counters that agree with the map, a purge drops exactly the excess.
LEMMA OldestExcess ==
    ASSUME NEW d, NEW D \in SUBSET Peers, NEW n \in Nat, NEW most \in Nat,
           n = Cardinality(D), NEW R \in Oldest(d, D, SatSub(n, most))
    PROVE  /\ R \in SUBSET D /\ Cardinality(R) = SatSub(n, most)
           /\ Cardinality(D \ R) <= most /\ Cardinality(D \ R) \in Nat
<1>1. SatSub(n, most) \in Nat /\ SatSub(n, most) <= n
  BY DEF SatSub
<1>2. R \in SUBSET D /\ (Cardinality(R) = SatSub(n, most)
                         \/ (R = D /\ Cardinality(D) < SatSub(n, most)))
  BY DEF Oldest
<1>3. Cardinality(R) = SatSub(n, most)
  BY <1>1, <1>2
<1>4. Cardinality(D \ R) \in Nat /\ Cardinality(D) = Cardinality(D \ R) + Cardinality(R)
  BY <1>2, FewerPeers
<1> QED BY <1>2, <1>3, <1>4 DEF SatSub

\* The purge discounts the banned peers it drops, never resets the counters, and leaves
\* no more peers than its limits.
LEMMA ShrinkCounts ==
    ASSUME NEW d, Sound(d), CountsBanned(d),
           NEW RB \in Oldest(d, Banned(d), ExcessBanned(d)),
           NEW RD \in Oldest(d, Disconnected(d), ExcessDisconnected(d))
    PROVE  /\ CountsBanned(shrink_to_fit(d, RB, RD))
           /\ Cardinality(Banned(shrink_to_fit(d, RB, RD))) <= MAX_BANNED_PEERS
           /\ Cardinality(Disconnected(shrink_to_fit(d, RB, RD))) <= MAX_DC_PEERS
<1>1. /\ d \in Databases /\ d.banned_peers \in Nat /\ d.disconnected_peers \in Nat
      /\ Banned(d) \in SUBSET Peers /\ Disconnected(d) \in SUBSET Peers
      /\ Banned(d) \cap Disconnected(d) = {}
  BY DEF Sound, Databases, Banned, Disconnected, InState
<1>2. /\ RB \in SUBSET Banned(d) /\ Cardinality(RB) = ExcessBanned(d)
      /\ Cardinality(Banned(d) \ RB) <= MAX_BANNED_PEERS
  <2>1. d.banned_peers = Cardinality(Banned(d))
    BY DEF CountsBanned
  <2>2. RB \in Oldest(d, Banned(d), SatSub(d.banned_peers, MAX_BANNED_PEERS))
    BY DEF ExcessBanned
  <2> QED BY <1>1, <2>1, <2>2, OldestExcess, LimitsAssumption DEF ExcessBanned
<1>3. RD \in SUBSET Disconnected(d) /\ Cardinality(Disconnected(d) \ RD) <= MAX_DC_PEERS
  <2>1. d.disconnected_peers = Cardinality(Disconnected(d))
    BY DEF Sound, CountsDisconnected
  <2>2. RD \in Oldest(d, Disconnected(d), SatSub(d.disconnected_peers, MAX_DC_PEERS))
    BY DEF ExcessDisconnected
  <2> QED BY <1>1, <2>1, <2>2, OldestExcess, LimitsAssumption
<1>4. PICK e : e = shrink_to_fit(d, RB, RD)
  OBVIOUS
<1>5. DroppedFrom(d, e, RB \cup RD)
  BY <1>2, <1>3, <1>4, ShrinkEffect
<1>6. Banned(e) = Banned(d) \ RB /\ Disconnected(e) = Disconnected(d) \ RD
  <2>1. e.status = [p \in Peers |-> IF p \in RB \cup RD THEN "Absent" ELSE d.status[p]]
    BY <1>5 DEF DroppedFrom
  <2> QED BY <1>2, <1>3, <2>1 DEF Banned, Disconnected, InState
<1>7. FewerBans(d, e, RB)
  <2>1. PICK r : r = RemoveBanned(d, RB)
    OBVIOUS
  <2>2. RB \in SUBSET Peers
    BY <1>1, <1>2
  <2>3. r \in Databases
    BY <1>1, <2>1, <2>2, RemoveBannedType
  <2>4. PICK b : b = Drop(r, RB)
    OBVIOUS
  <2>5. b \in Databases /\ SameBans(r, b)
    <3>1. b \in Databases
      BY <2>2, <2>3, <2>4, DropType
    <3> QED BY <2>3, <2>4, <3>1 DEF Drop, SameBans, Databases
  <2>6. e = [Drop(b, RD) EXCEPT !.disconnected_peers = SatSub(@, ExcessDisconnected(b))]
    BY <1>2, <1>4, <2>1, <2>4 DEF shrink_to_fit, DropBanned, DropDisconnected
  <2>7. SameBans(b, e)
    BY <2>5, <2>6 DEF Drop, SameBans, Databases
  <2> QED BY <1>1, <2>1, <2>5, <2>7 DEF SameBans, FewerBans, RemoveBanned, Databases
<1>8. \A q \in Banned(e) : e.seen[q] = d.seen[q]
  BY <1>3, <1>5, <1>6 DEF DroppedFrom, Banned, Disconnected, InState
<1>9. CountsBanned(e)
  BY <1>2, <1>6, <1>7, <1>8, CountFewer
<1> QED BY <1>2, <1>3, <1>4, <1>6, <1>9

\* A report.
LEMMA ReportCounts ==
    ASSUME NEW d \in Databases, CountsBanned(d), NEW p \in Peers, NEW sc \in Scores
    PROVE  CountsBanned(report_peer(d, p, sc))
<1>1. PICK f : f = [d.score EXCEPT ![p] = sc]
  OBVIOUS
<1>2. PICK e : e = [d EXCEPT !.score = f]
  OBVIOUS
<1>3. PICK result : result = handle_score_transition(d.score[p], sc, d.status[p])
  OBVIOUS
<1>4. f \in [Peers -> Scores]
  BY <1>1 DEF Databases
<1>5. report_peer(d, p, sc) =
        CASE result = "Banned" -> ToBanned(e, p)
          [] result = "Disconnected" -> ToDisconnecting(e, p)
          [] result \in {"NoAction", "Unbanned"} -> e
  BY <1>1, <1>2, <1>3 DEF report_peer
<1>6. /\ result \in {"Banned", "Disconnected", "NoAction", "Unbanned"}
      /\ result = "Disconnected" => d.status[p] \in {"Connected", "Dialing"}
  <2>1. d.score[p] \in Scores
    BY DEF Databases
  <2> QED BY <1>3, <2>1 DEF handle_score_transition, Scores
<1>7. e \in Databases /\ e.status = d.status /\ e.seen = d.seen /\ SameBans(d, e)
  BY <1>2, <1>4 DEF SameBans, Databases
<1>8. CountsBanned(e)
  <2>1. Banned(e) = Banned(d)
    BY <1>7 DEF Banned, InState
  <2> QED BY <1>7, <2>1, CountSame
<1>9. CASE result = "Banned"
  BY <1>5, <1>7, <1>8, <1>9, ToBannedCounts
<1>10. CASE result = "Disconnected"
  BY <1>5, <1>6, <1>7, <1>8, <1>10, ToDisconnectingCounts
<1>11. CASE result \in {"NoAction", "Unbanned"}
  BY <1>5, <1>8, <1>11
<1> QED BY <1>6, <1>9, <1>10, <1>11

\* A decay.
LEMMA UpdateScoresCounts ==
    ASSUME NEW d, Sound(d), CountsBanned(d), NEW sc \in [Peers -> Scores]
    PROVE  CountsBanned(update_scores(d, sc))
<1>1. PICK s : s = SetScores(d, sc, Known(d))
  OBVIOUS
<1>2. PICK U : U = Transition(d, sc, Known(d), "Unbanned")
  OBVIOUS
<1>3. U \in SUBSET Peers
  BY <1>2 DEF Transition, Known
<1>4. Sound(s) /\ s.status = d.status
  BY <1>1, SetScoresSound
<1>5. s.seen = d.seen /\ SameBans(d, s)
  BY <1>1 DEF SetScores, SameBans, Sound, Databases
<1>6. CountsBanned(s)
  <2>1. Banned(s) = Banned(d)
    BY <1>4 DEF Banned, InState
  <2> QED BY <1>5, <2>1, CountSame
<1>7. update_scores(d, sc) = ToUnbanned(s, U)
  BY <1>1, <1>2 DEF update_scores
<1> QED BY <1>3, <1>4, <1>6, <1>7, ToUnbannedCounts DEF Sound

\* New states for peers that neither are nor become banned.
LEMMA StatusesCounts ==
    ASSUME NEW d, CountsBanned(d), NEW e, SameBans(d, e), e.seen = d.seen,
           \A p \in Peers : e.status[p] = "Banned" <=> d.status[p] = "Banned"
    PROVE  CountsBanned(e)
<1>1. Banned(e) = Banned(d)
  BY DEF Banned, InState
<1> QED BY <1>1, CountSame

\* Gossipsub's scores.
LEMMA UpdateGossipsubScoresCounts ==
    ASSUME NEW d \in Databases, CountsBanned(d), NEW sc \in GossipsubScores(d)
    PROVE  CountsBanned(update_gossipsub_scores(d, sc))
<1>1. PICK e : e = update_gossipsub_scores(d, sc)
  OBVIOUS
<1>2. /\ e.status =
           [p \in Peers |->
               IF p \in Transition(d, sc, Connected(d), "Banned") THEN "DisconnectingToBan"
               ELSE IF p \in Transition(d, sc, Connected(d), "Disconnected") THEN "Disconnecting"
               ELSE d.status[p]]
      /\ e.seen = d.seen
  BY <1>1, UpdateGossipsubScoresEffect
<1>3. SameBans(d, e)
  BY <1>1 DEF update_gossipsub_scores, SetScores, SameBans, Databases
<1>4. \A p \in Peers : e.status[p] = "Banned" <=> d.status[p] = "Banned"
  BY <1>2 DEF Transition, Connected, InState
<1>5. CountsBanned(e)
  BY <1>2, <1>3, <1>4, StatusesCounts
<1> QED BY <1>1, <1>5

\* Dials that timed out.
LEMMA CleanupCounts ==
    ASSUME NEW d \in Databases, CountsBanned(d), NEW T \in SUBSET Dialing(d)
    PROVE  CountsBanned(cleanup_dialing_peers(d, T))
<1>1. PICK e : e = cleanup_dialing_peers(d, T)
  OBVIOUS
<1>2. e.status = [p \in Peers |-> IF p \in T THEN "Disconnected" ELSE d.status[p]]
      /\ e.seen = d.seen
  BY <1>1, CleanupEffect DEF KeepsRecords
<1>3. SameBans(d, e)
  BY <1>1 DEF cleanup_dialing_peers, SameBans, Databases
<1>4. \A p \in Peers : e.status[p] = "Banned" <=> d.status[p] = "Banned"
  BY <1>2 DEF Dialing, InState
<1>5. CountsBanned(e)
  BY <1>2, <1>3, <1>4, StatusesCounts
<1> QED BY <1>1, <1>5

\* Pruned peers.
LEMMA ToDisconnectingAllCounts ==
    ASSUME NEW d \in Databases, CountsBanned(d), NEW S \in SUBSET Connected(d)
    PROVE  CountsBanned(ToDisconnectingAll(d, S))
<1>1. PICK e : e = ToDisconnectingAll(d, S)
  OBVIOUS
<1>2. e.status = [p \in Peers |-> IF p \in S THEN "Disconnecting" ELSE d.status[p]]
      /\ e.seen = d.seen
  BY <1>1, ToDisconnectingAllEffect DEF KeepsRecords
<1>3. SameBans(d, e)
  BY <1>1 DEF ToDisconnectingAll, SameBans, Databases
<1>4. \A p \in Peers : e.status[p] = "Banned" <=> d.status[p] = "Banned"
  BY <1>2 DEF Connected, InState
<1>5. CountsBanned(e)
  BY <1>2, <1>3, <1>4, StatusesCounts
<1> QED BY <1>1, <1>5

\* Entries created for a min_ttl.
LEMMA UpdateMinTtlCounts ==
    ASSUME NEW d \in Databases, CountsBanned(d), NEW S
    PROVE  CountsBanned(update_min_ttl(d, S))
<1>1. PICK e : e = update_min_ttl(d, S)
  OBVIOUS
<1>2. e.status = [p \in Peers |-> IF p \in S /\ d.status[p] = "Absent" THEN "Unknown"
                                  ELSE d.status[p]]
      /\ e.seen = d.seen
  BY <1>1, UpdateMinTtlEffect DEF KeepsRecords
<1>3. SameBans(d, e)
  BY <1>1 DEF update_min_ttl, SameBans, Databases
<1>4. CountsBanned(e)
  BY <1>2, <1>3, StatusesCounts
<1> QED BY <1>1, <1>4

\* A new database has no banned peers.
LEMMA NewDatabaseCounts ==
    ASSUME NEW S
    PROVE  CountsBanned(NewDatabase(S))
<1>1. PICK d : d = NewDatabase(S)
  OBVIOUS
<1>2. Banned(d) = {} /\ d.banned_peers = 0 /\ \A ip \in Ips : d.banned_peers_per_ip[ip] = 0
  BY <1>1 DEF NewDatabase, Banned, InState
<1>3. Cardinality({}) = 0
  BY FS_EmptySet
<1>4. ASSUME NEW ip PROVE SeenOn(d, {}, ip) = 0
  <2>1. {ps \in {} \X Sockets : ps[2] \in d.seen[ps[1]] /\ ps[2].ip = ip} = {}
    OBVIOUS
  <2> QED BY <1>3, <2>1 DEF SeenOn
<1> QED BY <1>1, <1>2, <1>3, <1>4 DEF CountsBanned

-----------------------------------------------------------------------------
(* The peer manager.                                                       *)

QueuesOK ==
    /\ events \in Seq(Events)
    /\ peers_to_dial \in Seq([peer : Peers, trusted : BOOLEAN])
    /\ ping_peers \subseteq Peers
    /\ status_peers \subseteq Peers
    /\ informed \subseteq Peers

SwarmOK ==
    /\ conn \subseteq Peers
    /\ closing \subseteq conn
    /\ dials \in [Peers -> Nat]
    /\ swarm_banned \subseteq Peers

\* The inductive invariant.
IInv == Sound(db) /\ QueuesOK /\ SwarmOK

\* It is the conjunction of the two invariants that are proved.
LEMMA IInvMeaning == IInv <=> TypeOK /\ DisconnectedCounted
BY DEF IInv, QueuesOK, SwarmOK, Sound, CountsDisconnected, TypeOK, DisconnectedCounted

\* The initial states satisfy it.
LEMMA InitIInv == Init => IInv
<1> SUFFICES ASSUME Init PROVE IInv
  OBVIOUS
<1>1. Sound(db)
  <2>1. PICK trusted \in SUBSET Peers : db = NewDatabase(trusted)
    BY DEF Init
  <2> QED BY <2>1, NewDatabaseSound
<1>2. QueuesOK
  BY DEF Init, QueuesOK
<1>3. SwarmOK
  BY DEF Init, SwarmOK
<1> QED BY <1>1, <1>2, <1>3 DEF IInv

\* Nobody is connected or banned at first, whoever the configuration trusts.
LEMMA InitDatabase ==
    ASSUME Init, NEW p \in Peers
    PROVE  db.status[p] \in {"Absent", "Unknown"} /\ db.score[p] \in {"Healthy", "Max"}
<1>1. PICK trusted \in SUBSET Peers : db = NewDatabase(trusted)
  BY DEF Init
<1>2. /\ db.status = [q \in Peers |-> IF q \in trusted THEN "Unknown" ELSE "Absent"]
      /\ db.score = [q \in Peers |-> IF q \in trusted THEN "Max" ELSE "Healthy"]
  BY <1>1 DEF NewDatabase
<1> QED BY <1>2

-----------------------------------------------------------------------------
(* The queue of events.                                                    *)

\* An event about a peer.
LEMMA EventType ==
    ASSUME NEW kind \in EventKinds, NEW p \in Peers
    PROVE  Event(kind, p) \in Events
BY DEF Event, Events

\* A handler's events about the peers of a set, in any order.
LEMMA EventsOfType ==
    ASSUME NEW kind \in EventKinds, NEW S \in SUBSET Peers, NEW o \in Orders(S)
    PROVE  EventsOf(kind, o) \in Seq(Events)
<1> DEFINE n == Cardinality(S)
<1>1. n \in Nat
  BY SomePeers
<1>2. o \in [1 .. n -> S]
  BY DEF Orders
<1> HIDE DEF n
<1>3. \A i \in 1 .. n : Event(kind, o[i]) \in Events
  BY <1>2, EventType
<1>4. EventsOf(kind, o) = [i \in 1 .. n |-> Event(kind, o[i])]
  BY <1>2 DEF EventsOf
<1> QED BY <1>1, <1>3, <1>4, IsASeq

\* Pushing events keeps the queue well-formed.
LEMMA PushType ==
    ASSUME QueuesOK, NEW evs \in Seq(Events), Push(evs)
    PROVE  events' \in Seq(Events)
BY ConcatProperties DEF QueuesOK, Push

\* The reaction to a score update.
LEMMA ScoreActionType ==
    ASSUME QueuesOK, NEW p \in Peers,
           NEW result \in {"DisconnectThePeer", "Disconnect", "ReadyToBan",
                           "PeerDisconnecting", "NoAction"},
           handle_score_action(p, result)
    PROVE  events' \in Seq(Events) /\ ping_peers' \subseteq Peers
<1> DEFINE evs == CASE result \in {"DisconnectThePeer", "Disconnect"} -> <<Event("DisconnectPeer", p)>>
                    [] result = "ReadyToBan" -> <<Event("Banned", p)>>
                    [] result \in {"PeerDisconnecting", "NoAction"} -> <<>>
<1>1. <<Event("DisconnectPeer", p)>> \in Seq(Events) /\ <<Event("Banned", p)>> \in Seq(Events)
  <2>1. Event("DisconnectPeer", p) \in Events /\ Event("Banned", p) \in Events
    BY EventType DEF EventKinds
  <2> QED BY <2>1
<1>2. <<>> \in Seq(Events)
  OBVIOUS
<1>3. evs \in Seq(Events)
  BY <1>1, <1>2
<1>4. Push(evs)
  BY DEF handle_score_action
<1> HIDE DEF evs
<1>5. events' \in Seq(Events)
  BY <1>3, <1>4, PushType
<1>6. ping_peers' \subseteq Peers
  BY DEF handle_score_action, QueuesOK
<1> QED BY <1>5, <1>6

\* A report with any new score.
LEMMA ReportWithScoreType ==
    ASSUME IInv, NEW p \in Peers, NEW sc \in Scores, ReportWithScore(p, sc)
    PROVE  Sound(db') /\ events' \in Seq(Events) /\ ping_peers' \subseteq Peers
<1>1. Sound(db')
  BY ReportSound DEF IInv, ReportWithScore
<1>2. ReportResult(db, p, sc) \in {"DisconnectThePeer", "Disconnect", "ReadyToBan",
                                   "PeerDisconnecting", "NoAction"}
  <2>1. db.score[p] \in Scores /\ db.status[p] \in Statuses
    BY DEF IInv, Sound, Databases
  <2>2. handle_score_transition(db.score[p], sc, db.status[p])
          \in {"Banned", "Disconnected", "NoAction", "Unbanned"}
    BY <2>1 DEF handle_score_transition, Scores
  <2>3. BanOperation(db, p) \in {"DisconnectThePeer", "ReadyToBan", "PeerDisconnecting"}
    BY <2>1 DEF BanOperation, Statuses
  <2> QED BY <2>2, <2>3 DEF ReportResult
<1>3. handle_score_action(p, ReportResult(db, p, sc))
  BY DEF ReportWithScore
<1> QED BY <1>1, <1>2, <1>3, ScoreActionType DEF IInv

-----------------------------------------------------------------------------
(* Every action preserves the invariant.                                   *)

\* report_peer, goodbye_peer and handle_rpc_error.
LEMMA ReportPeerStep ==
    ASSUME IInv, NEW p \in Peers, ReportPeer(p)
    PROVE  IInv'
<1>1. PICK sc \in PenaltyScores(db, p) : ReportWithScore(p, sc)
  BY DEF ReportPeer
<1>2. sc \in Scores
  BY <1>1 DEF PenaltyScores, IInv, Sound, Databases
<1>3. Sound(db') /\ events' \in Seq(Events) /\ ping_peers' \subseteq Peers
  BY <1>1, <1>2, ReportWithScoreType
<1> QED BY <1>3 DEF ReportPeer, IInv, QueuesOK, SwarmOK, swarmVars

\* update_gossipsub_scores.
LEMMA UpdateGossipsubScoresStep ==
    ASSUME IInv, UpdateGossipsubScores
    PROVE  IInv'
<1>1. PICK sc \in GossipsubScores(db) :
        LET banned == Transition(db, sc, Connected(db), "Banned")
            disconnected == Transition(db, sc, Connected(db), "Disconnected")
            unbanned == Transition(db, sc, Connected(db), "Unbanned")
        IN  /\ db' = update_gossipsub_scores(db, sc)
            /\ \E o \in Orders(banned \cup disconnected \cup unbanned) :
                   Push([i \in DOMAIN o |->
                           Event(IF o[i] \in unbanned THEN "UnBanned" ELSE "DisconnectPeer", o[i])])
            /\ ping_peers' = ping_peers \ disconnected
            /\ UNCHANGED <<peers_to_dial, status_peers, swarmVars, informed>>
  BY DEF UpdateGossipsubScores
<1> DEFINE U == Transition(db, sc, Connected(db), "Unbanned")
           S == Transition(db, sc, Connected(db), "Banned")
                  \cup Transition(db, sc, Connected(db), "Disconnected") \cup U
<1>2. sc \in [Peers -> Scores]
  BY DEF GossipsubScores
<1>3. S \in SUBSET Peers
  BY DEF Transition, Connected, InState
<1>4. Sound(db')
  BY <1>1, <1>2, UpdateGossipsubScoresSound DEF IInv
<1>5. PICK o \in Orders(S) :
        Push([i \in DOMAIN o |-> Event(IF o[i] \in U THEN "UnBanned" ELSE "DisconnectPeer", o[i])])
  BY <1>1
<1>6. ping_peers' \subseteq Peers /\ UNCHANGED <<peers_to_dial, status_peers, swarmVars, informed>>
  BY <1>1 DEF IInv, QueuesOK
<1> DEFINE n == Cardinality(S)
           evs == [i \in 1 .. n |-> Event(IF o[i] \in U THEN "UnBanned" ELSE "DisconnectPeer", o[i])]
<1> HIDE DEF S, U
<1>7. n \in Nat /\ o \in [1 .. n -> S]
  BY <1>3, <1>5, SomePeers DEF Orders
<1> HIDE DEF n
<1>8. \A i \in 1 .. n :
        Event(IF o[i] \in U THEN "UnBanned" ELSE "DisconnectPeer", o[i]) \in Events
  <2> TAKE i \in 1 .. n
  <2>1. o[i] \in Peers
    BY <1>3, <1>7
  <2>2. (IF o[i] \in U THEN "UnBanned" ELSE "DisconnectPeer") \in EventKinds
    BY DEF EventKinds
  <2> QED BY <2>1, <2>2, EventType
<1>9. evs \in Seq(Events)
  BY <1>7, <1>8, IsASeq
<1>10. Push(evs)
  BY <1>5, <1>7
<1> HIDE DEF evs
<1>11. events' \in Seq(Events)
  BY <1>9, <1>10, PushType DEF IInv
<1> QED BY <1>4, <1>6, <1>11 DEF IInv, QueuesOK, SwarmOK, swarmVars

\* inject_connection_established: the peer is banned, refused or registered.
LEMMA ConnectionEstablishedStep ==
    ASSUME IInv, NEW p \in Peers, NEW incoming, NEW socket \in Sockets,
           ConnectionEstablished(p, incoming, socket)
    PROVE  /\ Sound(db')
           /\ QueuesOK'
           /\ conn' \subseteq Peers /\ closing' \subseteq conn' /\ swarm_banned' \subseteq Peers
<1>1. /\ conn' = conn \cup {p}
      /\ UNCHANGED <<peers_to_dial, closing, swarm_banned, informed>>
  BY DEF ConnectionEstablished
<1>2. conn' \subseteq Peers /\ closing' \subseteq conn' /\ swarm_banned' \subseteq Peers
  BY <1>1 DEF IInv, SwarmOK
<1>3. CASE goodbye_peer(p) /\ UNCHANGED status_peers
  <2>1. FatalScore(db, p) \in Scores
    BY DEF FatalScore, IInv, Sound, Databases, Scores
  <2>2. Sound(db') /\ events' \in Seq(Events) /\ ping_peers' \subseteq Peers
    BY <1>3, <2>1, ReportWithScoreType DEF goodbye_peer
  <2> QED BY <1>1, <1>2, <1>3, <2>2 DEF IInv, QueuesOK
<1>4. CASE disconnect_peer(p) /\ UNCHANGED <<ping_peers, status_peers>>
  <2>1. Sound(db')
    BY <1>4, ToDisconnectingSound DEF disconnect_peer, IInv
  <2>2. <<Event("DisconnectPeer", p)>> \in Seq(Events)
    <3>1. Event("DisconnectPeer", p) \in Events
      BY EventType DEF EventKinds
    <3> QED BY <3>1
  <2>3. events' \in Seq(Events)
    BY <1>4, <2>2, PushType DEF disconnect_peer, IInv
  <2> QED BY <1>1, <1>2, <1>4, <2>1, <2>3 DEF IInv, QueuesOK
<1>5. CASE inject_peer_connection(p, socket) /\ Push(<<Event("PeerConnected", p)>>)
  <2>1. Sound(db')
    BY <1>5, ToConnectedSound DEF inject_peer_connection, IInv
  <2>2. <<Event("PeerConnected", p)>> \in Seq(Events)
    <3>1. Event("PeerConnected", p) \in Events
      BY EventType DEF EventKinds
    <3> QED BY <3>1
  <2>3. events' \in Seq(Events)
    BY <1>5, <2>2, PushType DEF IInv
  <2> QED BY <1>1, <1>2, <1>5, <2>1, <2>3 DEF IInv, QueuesOK, inject_peer_connection
<1> QED BY <1>3, <1>4, <1>5 DEF ConnectionEstablished

\* The end of a dial changes one count of dials.
LEMMA DialDoneType ==
    ASSUME IInv, NEW p \in Peers, DialDone(p)
    PROVE  dials' \in [Peers -> Nat]
<1>1. dials \in [Peers -> Nat] /\ dials[p] > 0 /\ dials' = [dials EXCEPT ![p] = dials[p] - 1]
  BY DEF IInv, SwarmOK, DialDone
<1>2. dials[p] - 1 \in Nat
  BY <1>1
<1> QED BY <1>1, <1>2

\* A peer connects to us.
LEMMA IncomingConnectionStep ==
    ASSUME IInv, NEW p \in Peers, IncomingConnection(p)
    PROVE  IInv'
<1>1. PICK socket \in Sockets : ConnectionEstablished(p, TRUE, socket)
  BY DEF IncomingConnection
<1>2. dials' = dials
  BY DEF IncomingConnection
<1> QED BY <1>1, <1>2, ConnectionEstablishedStep DEF IInv, SwarmOK

\* A dial succeeds.
LEMMA DialSucceedsStep ==
    ASSUME IInv, NEW p \in Peers, DialSucceeds(p)
    PROVE  IInv'
<1>1. PICK socket \in Sockets : ConnectionEstablished(p, FALSE, socket)
  BY DEF DialSucceeds
<1>2. dials' \in [Peers -> Nat]
  BY DialDoneType DEF DialSucceeds
<1> QED BY <1>1, <1>2, ConnectionEstablishedStep DEF IInv, SwarmOK

\* A dial reaches a peer that the swarm refuses.
LEMMA DialReachesBannedPeerStep ==
    ASSUME IInv, NEW p \in Peers, DialReachesBannedPeer(p)
    PROVE  IInv'
<1>1. dials' \in [Peers -> Nat]
  BY DialDoneType DEF DialReachesBannedPeer
<1>2. UNCHANGED <<db, events, peers_to_dial, ping_peers, status_peers,
                  conn, closing, swarm_banned, informed>>
  BY DEF DialReachesBannedPeer, pmVars
<1> QED BY <1>1, <1>2 DEF IInv, QueuesOK, SwarmOK

\* inject_disconnect, with the purge that ends it.
LEMMA InjectDisconnectType ==
    ASSUME QueuesOK, NEW d, Sound(d), NEW p \in Peers, NEW first \in Seq(Events),
           InjectDisconnect(d, p, first)
    PROVE  /\ Sound(db')
           /\ events' \in Seq(Events)
           /\ ping_peers' \subseteq Peers /\ status_peers' \subseteq Peers
<1> DEFINE gone == ToDisconnected(d, p)
<1>1. Sound(gone)
  BY ToDisconnectedSound
<1>2. PICK RB \in Oldest(gone, Banned(gone), ExcessBanned(gone)),
           RD \in Oldest(gone, Disconnected(gone), ExcessDisconnected(gone)) :
        \E o \in Orders(RB) :
           /\ db' = shrink_to_fit(gone, RB, RD)
           /\ Push(first \o PendingBan(d, p) \o UnbanEvents(o))
           /\ ping_peers' = ping_peers \ {p}
           /\ status_peers' = status_peers \ {p}
  BY DEF InjectDisconnect
<1> HIDE DEF gone
<1>3. PICK o \in Orders(RB) :
           /\ db' = shrink_to_fit(gone, RB, RD)
           /\ Push(first \o PendingBan(d, p) \o UnbanEvents(o))
           /\ ping_peers' = ping_peers \ {p}
           /\ status_peers' = status_peers \ {p}
  BY <1>2
<1>4. Sound(db')
  BY <1>1, <1>3, ShrinkSound
<1>5. RB \in SUBSET Peers
  BY DEF Oldest, Banned, InState
<1>6. UnbanEvents(o) \in Seq(Events)
  BY <1>5, EventsOfType DEF UnbanEvents, EventKinds
<1>7. PendingBan(d, p) \in Seq(Events)
  <2>1. Event("Banned", p) \in Events
    BY EventType DEF EventKinds
  <2> QED BY <2>1 DEF PendingBan
<1>8. first \o PendingBan(d, p) \in Seq(Events)
  BY <1>7, ConcatProperties
<1>9. first \o PendingBan(d, p) \o UnbanEvents(o) \in Seq(Events)
  BY <1>6, <1>8, ConcatProperties
<1>10. events' \in Seq(Events)
  BY <1>3, <1>9, PushType
<1>11. ping_peers' \subseteq Peers /\ status_peers' \subseteq Peers
  BY <1>3 DEF QueuesOK
<1> QED BY <1>4, <1>10, <1>11

\* inject_connection_closed.
LEMMA ConnectionClosedStep ==
    ASSUME IInv, NEW p \in Peers, ConnectionClosed(p)
    PROVE  IInv'
<1> DEFINE first == IF is_connected_or_disconnecting(db, p)
                    THEN <<Event("PeerDisconnected", p)>> ELSE <<>>
<1>1. InjectDisconnect(db, p, first)
  BY DEF ConnectionClosed
<1>2. first \in Seq(Events)
  <2>1. Event("PeerDisconnected", p) \in Events
    BY EventType DEF EventKinds
  <2> QED BY <2>1
<1> HIDE DEF first
<1>3. /\ Sound(db') /\ events' \in Seq(Events)
      /\ ping_peers' \subseteq Peers /\ status_peers' \subseteq Peers
  BY <1>1, <1>2, InjectDisconnectType DEF IInv
<1>4. /\ conn' = conn \ {p} /\ closing' = closing \ {p}
      /\ UNCHANGED <<peers_to_dial, dials, swarm_banned, informed>>
  BY DEF ConnectionClosed
<1> QED BY <1>3, <1>4 DEF IInv, QueuesOK, SwarmOK

\* inject_dial_failure.
LEMMA InjectDialFailureType ==
    ASSUME QueuesOK, NEW d, Sound(d), NEW p \in Peers, InjectDialFailure(d, p)
    PROVE  /\ Sound(db')
           /\ events' \in Seq(Events)
           /\ ping_peers' \subseteq Peers /\ status_peers' \subseteq Peers
<1>1. CASE db' = d /\ UNCHANGED <<events, ping_peers, status_peers>>
  BY <1>1 DEF QueuesOK
<1>2. CASE InjectDisconnect(d, p, <<>>)
  <2>1. <<>> \in Seq(Events)
    OBVIOUS
  <2> QED BY <1>2, <2>1, InjectDisconnectType
<1> QED BY <1>1, <1>2 DEF InjectDialFailure

\* A dial fails.
LEMMA DialFailsStep ==
    ASSUME IInv, NEW p \in Peers, DialFails(p)
    PROVE  IInv'
<1>1. dials' \in [Peers -> Nat]
  BY DialDoneType DEF DialFails
<1>2. /\ Sound(db') /\ events' \in Seq(Events)
      /\ ping_peers' \subseteq Peers /\ status_peers' \subseteq Peers
  BY InjectDialFailureType DEF DialFails, IInv
<1>3. UNCHANGED <<peers_to_dial, conn, closing, swarm_banned, informed>>
  BY DEF DialFails
<1> QED BY <1>1, <1>2, <1>3 DEF IInv, QueuesOK, SwarmOK

-----------------------------------------------------------------------------

\* Queueing dials keeps the queue of dials well-formed.
LEMMA QueueDialsType ==
    ASSUME QueuesOK, NEW order \in Seq(Peers), NEW trusted \in BOOLEAN, QueueDials(order, trusted)
    PROVE  peers_to_dial' \in Seq([peer : Peers, trusted : BOOLEAN])
<1> DEFINE new == [i \in DOMAIN order |-> [peer |-> order[i], trusted |-> trusted]]
           n == Len(order)
<1>1. n \in Nat /\ DOMAIN order = 1 .. n /\ \A i \in 1 .. n : order[i] \in Peers
  BY LenProperties, ElementOfSeq
<1>2. new = [i \in 1 .. n |-> [peer |-> order[i], trusted |-> trusted]]
  BY <1>1
<1>3. \A i \in 1 .. n :
        [peer |-> order[i], trusted |-> trusted] \in [peer : Peers, trusted : BOOLEAN]
  BY <1>1
<1>4. new \in Seq([peer : Peers, trusted : BOOLEAN])
  <2> HIDE DEF n
  <2> QED BY <1>1, <1>2, <1>3, IsASeq
<1>5. peers_to_dial' = peers_to_dial \o new
  BY DEF QueueDials
<1> HIDE DEF new
<1> QED BY <1>4, <1>5, ConcatProperties DEF QueuesOK

\* An order of some peers is a sequence of peers.
LEMMA OrderType ==
    ASSUME NEW S \in SUBSET Peers, NEW o \in Orders(S)
    PROVE  o \in Seq(Peers)
<1> DEFINE n == Cardinality(S)
<1>1. n \in Nat
  BY SomePeers
<1>2. o \in [1 .. n -> S]
  BY DEF Orders
<1> HIDE DEF n
<1> QED BY <1>1, <1>2

\* inject_discovery_event.
LEMMA PeersDiscoveredStep ==
    ASSUME IInv, NEW found \in SUBSET Peers, NEW needed \in SUBSET found,
           PeersDiscovered(found, needed)
    PROVE  IInv'
<1>1. PICK D \in SUBSET {p \in found : should_dial(db, p)} : \E order \in Orders(D) :
        /\ db' = update_min_ttl(db, D \cap needed)
        /\ QueueDials(order, FALSE)
        /\ UNCHANGED <<events, ping_peers, status_peers, swarmVars, informed>>
  BY DEF PeersDiscovered
<1>2. PICK order \in Orders(D) :
        /\ db' = update_min_ttl(db, D \cap needed)
        /\ QueueDials(order, FALSE)
        /\ UNCHANGED <<events, ping_peers, status_peers, swarmVars, informed>>
  BY <1>1
<1>3. order \in Seq(Peers)
  <2>1. D \in SUBSET Peers
    OBVIOUS
  <2> QED BY <2>1, OrderType
<1>4. Sound(db')
  BY <1>2, UpdateMinTtlSound DEF IInv
<1>5. peers_to_dial' \in Seq([peer : Peers, trusted : BOOLEAN])
  BY <1>2, <1>3, QueueDialsType DEF IInv
<1> QED BY <1>2, <1>4, <1>5 DEF IInv, QueuesOK, SwarmOK, swarmVars

\* dial_cached_enrs_in_subnet.
LEMMA DialCachedEnrStep ==
    ASSUME IInv, NEW p \in Peers, DialCachedEnr(p)
    PROVE  IInv'
<1>1. <<p>> \in Seq(Peers)
  OBVIOUS
<1>2. peers_to_dial' \in Seq([peer : Peers, trusted : BOOLEAN])
  BY <1>1, QueueDialsType DEF DialCachedEnr, IInv
<1> QED BY <1>2 DEF DialCachedEnr, IInv, QueuesOK, SwarmOK, swarmVars

\* poll hands a dial to the swarm.
LEMMA PollDialStep ==
    ASSUME IInv, PollDial
    PROVE  IInv'
<1> DEFINE h == Head(peers_to_dial)
           d == ToDialing(db, h.peer, h.trusted)
<1>1. peers_to_dial \in Seq([peer : Peers, trusted : BOOLEAN]) /\ peers_to_dial # <<>>
  BY DEF PollDial, IInv, QueuesOK
<1>2. /\ h \in [peer : Peers, trusted : BOOLEAN]
      /\ Tail(peers_to_dial) \in Seq([peer : Peers, trusted : BOOLEAN])
  BY <1>1, HeadTailProperties
<1>3. h.peer \in Peers /\ h.trusted \in BOOLEAN
  BY <1>2
<1>4. Sound(d)
  BY <1>3, ToDialingSound DEF IInv
<1>5. /\ peers_to_dial' = Tail(peers_to_dial)
      /\ UNCHANGED <<conn, closing, swarm_banned, informed>>
      /\ \/ InjectDialFailure(d, h.peer) /\ UNCHANGED dials
         \/ /\ dials' = [dials EXCEPT ![h.peer] = dials[h.peer] + 1]
            /\ db' = d
            /\ UNCHANGED <<events, ping_peers, status_peers>>
  BY DEF PollDial
<1> HIDE DEF d, h
<1>6. CASE InjectDialFailure(d, h.peer) /\ UNCHANGED dials
  <2>1. /\ Sound(db') /\ events' \in Seq(Events)
        /\ ping_peers' \subseteq Peers /\ status_peers' \subseteq Peers
    BY <1>3, <1>4, <1>6, InjectDialFailureType DEF IInv
  <2> QED BY <1>2, <1>5, <1>6, <2>1 DEF IInv, QueuesOK, SwarmOK
<1>7. CASE /\ dials' = [dials EXCEPT ![h.peer] = dials[h.peer] + 1]
           /\ db' = d
           /\ UNCHANGED <<events, ping_peers, status_peers>>
  <2>1. dials \in [Peers -> Nat]
    BY DEF IInv, SwarmOK
  <2>2. dials' \in [Peers -> Nat]
    BY <1>3, <1>7, <2>1
  <2> QED BY <1>2, <1>4, <1>5, <1>7, <2>2 DEF IInv, QueuesOK, SwarmOK
<1> QED BY <1>5, <1>6, <1>7

\* The network service handles an event.
LEMMA PollEventStep ==
    ASSUME IInv, PollEvent
    PROVE  IInv'
<1> DEFINE kind == Head(events).kind
           p == Head(events).peer
<1>1. events \in Seq(Events) /\ events # <<>>
  BY DEF PollEvent, IInv, QueuesOK
<1>2. Head(events) \in Events /\ Tail(events) \in Seq(Events)
  BY <1>1, HeadTailProperties
<1>3. p \in Peers
  BY <1>2 DEF Events
<1>4. /\ events' = Tail(events)
      /\ swarm_banned' \subseteq swarm_banned \cup {p}
      /\ closing' = closing \cup GoodbyeTo(kind, p)
      /\ informed' \subseteq informed \cup {p}
      /\ UNCHANGED <<db, peers_to_dial, ping_peers, status_peers, conn, dials>>
  BY DEF PollEvent
<1> HIDE DEF kind, p
<1>5. GoodbyeTo(kind, p) \subseteq conn
  BY DEF GoodbyeTo
<1> QED BY <1>2, <1>3, <1>4, <1>5 DEF IInv, QueuesOK, SwarmOK

\* A PING or STATUS request of a connected peer.
LEMMA RpcRequestStep ==
    ASSUME IInv, NEW p \in Peers, RpcRequest(p)
    PROVE  IInv'
<1>1. /\ ping_peers' \subseteq Peers /\ status_peers' \subseteq Peers
      /\ UNCHANGED <<db, events, peers_to_dial, swarmVars, informed>>
  BY DEF RpcRequest, IInv, QueuesOK
<1> QED BY <1>1 DEF IInv, QueuesOK, SwarmOK, swarmVars

\* The heartbeat: timeouts, decay and pruning, one after the other.
LEMMA HeartbeatStep ==
    ASSUME IInv, Heartbeat
    PROVE  IInv'
<1>1. PICK T \in SUBSET Dialing(db) :
        LET cleaned == cleanup_dialing_peers(db, T)
        IN  \E sc \in DecayedScores(cleaned) :
              LET decayed == update_scores(cleaned, sc)
                  unbanned == Transition(cleaned, sc, Known(cleaned), "Unbanned")
              IN  \E P \in SUBSET Connected(decayed) :
                  \E u \in Orders(unbanned), o \in Orders(P) :
                      /\ db' = ToDisconnectingAll(decayed, P)
                      /\ Push(UnbanEvents(u) \o EventsOf("DisconnectPeer", o))
                      /\ UNCHANGED <<peers_to_dial, ping_peers, status_peers, swarmVars, informed>>
  BY DEF Heartbeat
<1> DEFINE cleaned == cleanup_dialing_peers(db, T)
<1>2. Sound(cleaned)
  BY CleanupSound DEF IInv
<1>3. PICK sc \in DecayedScores(cleaned) :
        LET decayed == update_scores(cleaned, sc)
            unbanned == Transition(cleaned, sc, Known(cleaned), "Unbanned")
        IN  \E P \in SUBSET Connected(decayed) :
            \E u \in Orders(unbanned), o \in Orders(P) :
                /\ db' = ToDisconnectingAll(decayed, P)
                /\ Push(UnbanEvents(u) \o EventsOf("DisconnectPeer", o))
                /\ UNCHANGED <<peers_to_dial, ping_peers, status_peers, swarmVars, informed>>
  BY <1>1
<1> HIDE DEF cleaned
<1> DEFINE decayed == update_scores(cleaned, sc)
           U == Transition(cleaned, sc, Known(cleaned), "Unbanned")
<1>4. Sound(decayed) /\ U \in SUBSET Peers
  <2>1. sc \in [Peers -> Scores]
    BY DEF DecayedScores
  <2> QED BY <1>2, <2>1, UpdateScoresSound DEF Transition, Known
<1>5. PICK P \in SUBSET Connected(decayed) :
        \E u \in Orders(U), o \in Orders(P) :
            /\ db' = ToDisconnectingAll(decayed, P)
            /\ Push(UnbanEvents(u) \o EventsOf("DisconnectPeer", o))
            /\ UNCHANGED <<peers_to_dial, ping_peers, status_peers, swarmVars, informed>>
  BY <1>3
<1>5a. PICK u \in Orders(U), o \in Orders(P) :
        /\ db' = ToDisconnectingAll(decayed, P)
        /\ Push(UnbanEvents(u) \o EventsOf("DisconnectPeer", o))
        /\ UNCHANGED <<peers_to_dial, ping_peers, status_peers, swarmVars, informed>>
  BY <1>5
<1> HIDE DEF decayed, U
<1>6. Sound(db')
  BY <1>4, <1>5a, ToDisconnectingAllSound
<1>7. P \in SUBSET Peers
  BY DEF Connected, InState
<1>8. UnbanEvents(u) \in Seq(Events) /\ EventsOf("DisconnectPeer", o) \in Seq(Events)
  BY <1>4, <1>7, EventsOfType DEF UnbanEvents, EventKinds
<1>9. UnbanEvents(u) \o EventsOf("DisconnectPeer", o) \in Seq(Events)
  BY <1>8, ConcatProperties
<1>10. events' \in Seq(Events)
  BY <1>5a, <1>9, PushType DEF IInv
<1> QED BY <1>5a, <1>6, <1>10 DEF IInv, QueuesOK, SwarmOK, swarmVars

\* Every step preserves the inductive invariant.
LEMMA NextIInv ==
    ASSUME IInv, [Next]_vars
    PROVE  IInv'
<1>1. CASE UNCHANGED vars
  BY <1>1 DEF vars, IInv, QueuesOK, SwarmOK
<1>2. CASE InnerNext
  BY <1>2, ReportPeerStep, UpdateGossipsubScoresStep, IncomingConnectionStep, DialSucceedsStep,
     DialReachesBannedPeerStep, ConnectionClosedStep, DialFailsStep, PeersDiscoveredStep,
     DialCachedEnrStep, PollDialStep, RpcRequestStep, HeartbeatStep
     DEF InnerNext
<1>3. CASE PollEvent
  BY <1>3, PollEventStep
<1> QED BY <1>1, <1>2, <1>3 DEF Next

\* In every reachable state of the peer manager the inductive invariant holds.
LEMMA AlwaysIInv == Spec => []IInv
BY InitIInv, NextIInv, PTL DEF Spec

\* Every handler, in any order and with any inputs, keeps the types of the
\* database, the queues and the timers, for any number of peers.
THEOREM TypesKept == Spec => []TypeOK
<1>1. IInv => TypeOK
  BY IInvMeaning
<1> QED BY <1>1, AlwaysIInv, PTL

\* PeerDB::disconnected_peers is the number of disconnected peers in the map
\* in every reachable state, for any number of peers and any limits: the
\* saturating subtractions of update_connection_state and the safety branch
\* of shrink_to_fit never hide a wrong count.
THEOREM DisconnectedAlwaysCounted == Spec => []DisconnectedCounted
<1>1. IInv => DisconnectedCounted
  BY IInvMeaning
<1> QED BY <1>1, AlwaysIInv, PTL

-----------------------------------------------------------------------------
(* What a queue says of a peer: `Has` some event of these kinds about it,  *)
(* and the last of them is of kind k.                                      *)

Has(s, p, K) == \E i \in DOMAIN s : s[i].peer = p /\ s[i].kind \in K

LastIs(s, p, K, k) ==
    \E i \in DOMAIN s :
        /\ s[i] = Event(k, p)
        /\ \A j \in DOMAIN s : s[j].peer = p /\ s[j].kind \in K => j <= i

\* What is true of a peer once the queue s is drained: what its last event says, or,
\* without one, what is true already.
Will(s, p, K, k, now) == LastIs(s, p, K, k) \/ (~Has(s, p, K) /\ now)

\* The properties of PeerManager in these terms.
LEMMA QueueTerms ==
    ASSUME NEW p \in Peers
    PROVE  /\ \A K : NoneQueued(p, K) <=> ~Has(events, p, K)
           /\ WillBeBanned(p) <=> Will(events, p, {"Banned", "UnBanned"}, "Banned", p \in swarm_banned)
           /\ WillBeInformed(p) <=>
                Will(events, p, {"PeerConnected", "PeerDisconnected"}, "PeerConnected", p \in informed)
BY DEF NoneQueued, Has, LastIs, Will, WillBeBanned, WillBeInformed, LastQueued

\* An event that says something of a peer is an element of the queue.
LEMMA LastHas ==
    ASSUME NEW s, NEW p, NEW K, NEW k \in K, LastIs(s, p, K, k)
    PROVE  Has(s, p, K)
BY DEF LastIs, Has, Event

\* The elements of two queues in a row.
LEMMA Joined ==
    ASSUME NEW s \in Seq(Events), NEW t \in Seq(Events)
    PROVE  /\ Len(s) \in Nat /\ Len(t) \in Nat
           /\ DOMAIN s = 1 .. Len(s) /\ DOMAIN t = 1 .. Len(t)
           /\ s \o t \in Seq(Events)
           /\ DOMAIN (s \o t) = 1 .. Len(s) + Len(t)
           /\ \A i \in DOMAIN s : i \in DOMAIN (s \o t) /\ (s \o t)[i] = s[i]
           /\ \A i \in DOMAIN t : /\ Len(s) + i \in DOMAIN (s \o t)
                                  /\ (s \o t)[Len(s) + i] = t[i]
           /\ \A i \in DOMAIN (s \o t) :
                i \in DOMAIN s \/ \E j \in DOMAIN t : i = Len(s) + j
<1>1. /\ Len(s) \in Nat /\ Len(t) \in Nat /\ s \o t \in Seq(Events)
      /\ DOMAIN s = 1 .. Len(s) /\ DOMAIN t = 1 .. Len(t)
      /\ Len(s \o t) = Len(s) + Len(t)
      /\ \A i \in 1 .. Len(s) + Len(t) :
           (s \o t)[i] = IF i <= Len(s) THEN s[i] ELSE t[i - Len(s)]
  BY ConcatProperties, LenProperties
<1>2. DOMAIN (s \o t) = 1 .. Len(s) + Len(t)
  BY <1>1, LenProperties
<1>3. \A i \in DOMAIN s : i \in DOMAIN (s \o t) /\ (s \o t)[i] = s[i]
  BY <1>1, <1>2
<1>4. ASSUME NEW i \in DOMAIN t
      PROVE  Len(s) + i \in DOMAIN (s \o t) /\ (s \o t)[Len(s) + i] = t[i]
  <2>1. i \in 1 .. Len(t)
    BY <1>1
  <2>2. /\ Len(s) + i \in 1 .. Len(s) + Len(t) /\ ~(Len(s) + i <= Len(s))
        /\ (Len(s) + i) - Len(s) = i
    BY <1>1, <2>1
  <2> QED BY <1>1, <1>2, <2>2
<1>5. ASSUME NEW i \in DOMAIN (s \o t), i \notin DOMAIN s
      PROVE  \E j \in DOMAIN t : i = Len(s) + j
  <2>1. i - Len(s) \in DOMAIN t /\ i = Len(s) + (i - Len(s))
    BY <1>1, <1>2, <1>5
  <2> QED BY <2>1
<1> QED BY <1>1, <1>2, <1>3, <1>4, <1>5

\* Events about a peer in two queues in a row.
LEMMA HasJoined ==
    ASSUME NEW s \in Seq(Events), NEW t \in Seq(Events), NEW p, NEW K
    PROVE  Has(s \o t, p, K) <=> Has(s, p, K) \/ Has(t, p, K)
<1>1. /\ \A i \in DOMAIN s : i \in DOMAIN (s \o t) /\ (s \o t)[i] = s[i]
      /\ \A i \in DOMAIN t : Len(s) + i \in DOMAIN (s \o t) /\ (s \o t)[Len(s) + i] = t[i]
      /\ \A i \in DOMAIN (s \o t) : i \in DOMAIN s \/ \E j \in DOMAIN t : i = Len(s) + j
  BY Joined
<1>2. ASSUME Has(s, p, K) PROVE Has(s \o t, p, K)
  BY <1>1, <1>2 DEF Has
<1>3. ASSUME Has(t, p, K) PROVE Has(s \o t, p, K)
  <2>1. PICK i \in DOMAIN t : t[i].peer = p /\ t[i].kind \in K
    BY <1>3 DEF Has
  <2>2. Len(s) + i \in DOMAIN (s \o t) /\ (s \o t)[Len(s) + i] = t[i]
    BY <1>1
  <2> QED BY <2>1, <2>2 DEF Has
<1>4. ASSUME Has(s \o t, p, K) PROVE Has(s, p, K) \/ Has(t, p, K)
  <2>1. PICK i \in DOMAIN (s \o t) : (s \o t)[i].peer = p /\ (s \o t)[i].kind \in K
    BY <1>4 DEF Has
  <2>2. CASE i \in DOMAIN s
    BY <1>1, <2>1, <2>2 DEF Has
  <2>3. CASE \E j \in DOMAIN t : i = Len(s) + j
    <3>1. PICK j \in DOMAIN t : i = Len(s) + j
      BY <2>3
    <3>2. (s \o t)[i] = t[j]
      BY <1>1, <3>1
    <3> QED BY <2>1, <3>2 DEF Has
  <2> QED BY <1>1, <2>2, <2>3
<1> QED BY <1>2, <1>3, <1>4

\* The last event about a peer in two queues in a row.
LEMMA LastJoined ==
    ASSUME NEW s \in Seq(Events), NEW t \in Seq(Events), NEW p, NEW K, NEW k \in K
    PROVE  LastIs(s \o t, p, K, k) <=>
               LastIs(t, p, K, k) \/ (~Has(t, p, K) /\ LastIs(s, p, K, k))
<1> DEFINE u == s \o t
<1>1. /\ Len(s) \in Nat /\ Len(t) \in Nat
      /\ DOMAIN s = 1 .. Len(s) /\ DOMAIN t = 1 .. Len(t)
      /\ \A i \in DOMAIN s : i \in DOMAIN u /\ u[i] = s[i]
      /\ \A i \in DOMAIN t : Len(s) + i \in DOMAIN u /\ u[Len(s) + i] = t[i]
      /\ \A i \in DOMAIN u : i \in DOMAIN s \/ \E j \in DOMAIN t : i = Len(s) + j
  BY Joined
<1> HIDE DEF u
<1>2. ASSUME LastIs(t, p, K, k) PROVE LastIs(u, p, K, k)
  <2>1. PICK i \in DOMAIN t :
          t[i] = Event(k, p) /\ \A j \in DOMAIN t : t[j].peer = p /\ t[j].kind \in K => j <= i
    BY <1>2 DEF LastIs
  <2>2. Len(s) + i \in DOMAIN u /\ u[Len(s) + i] = Event(k, p)
    BY <1>1, <2>1
  <2>3. ASSUME NEW j \in DOMAIN u, u[j].peer = p, u[j].kind \in K PROVE j <= Len(s) + i
    <3>1. CASE j \in DOMAIN s
      BY <1>1, <3>1
    <3>2. CASE \E l \in DOMAIN t : j = Len(s) + l
      <4>1. PICK l \in DOMAIN t : j = Len(s) + l
        BY <3>2
      <4>2. l <= i
        BY <1>1, <2>1, <2>3, <4>1
      <4> QED BY <1>1, <4>1, <4>2
    <3> QED BY <1>1, <3>1, <3>2
  <2> QED BY <2>2, <2>3 DEF LastIs
<1>3. ASSUME ~Has(t, p, K), LastIs(s, p, K, k) PROVE LastIs(u, p, K, k)
  <2>1. PICK i \in DOMAIN s :
          s[i] = Event(k, p) /\ \A j \in DOMAIN s : s[j].peer = p /\ s[j].kind \in K => j <= i
    BY <1>3 DEF LastIs
  <2>2. i \in DOMAIN u /\ u[i] = Event(k, p)
    BY <1>1, <2>1
  <2>3. ASSUME NEW j \in DOMAIN u, u[j].peer = p, u[j].kind \in K PROVE j <= i
    <3>1. CASE j \in DOMAIN s
      BY <1>1, <2>1, <2>3, <3>1
    <3>2. CASE \E l \in DOMAIN t : j = Len(s) + l
      <4>1. PICK l \in DOMAIN t : j = Len(s) + l
        BY <3>2
      <4>2. t[l].peer = p /\ t[l].kind \in K
        BY <1>1, <2>3, <4>1
      <4> QED BY <1>3, <4>2 DEF Has
    <3> QED BY <1>1, <3>1, <3>2
  <2> QED BY <2>2, <2>3 DEF LastIs
<1>4. ASSUME LastIs(u, p, K, k)
      PROVE  LastIs(t, p, K, k) \/ (~Has(t, p, K) /\ LastIs(s, p, K, k))
  <2>1. PICK i \in DOMAIN u :
          u[i] = Event(k, p) /\ \A j \in DOMAIN u : u[j].peer = p /\ u[j].kind \in K => j <= i
    BY <1>4 DEF LastIs
  <2>2. CASE i \in DOMAIN s
    <3>1. ASSUME NEW j \in DOMAIN t PROVE ~(t[j].peer = p /\ t[j].kind \in K)
      <4>1. Len(s) + j \in DOMAIN u /\ u[Len(s) + j] = t[j] /\ ~(Len(s) + j <= i)
        BY <1>1, <2>2
      <4> QED BY <2>1, <4>1
    <3>2. ~Has(t, p, K)
      BY <3>1 DEF Has
    <3>3. LastIs(s, p, K, k)
      BY <1>1, <2>1, <2>2 DEF LastIs
    <3> QED BY <3>2, <3>3
  <2>3. CASE \E l \in DOMAIN t : i = Len(s) + l
    <3>1. PICK l \in DOMAIN t : i = Len(s) + l
      BY <2>3
    <3>2. t[l] = Event(k, p)
      BY <1>1, <2>1, <3>1
    <3>3. ASSUME NEW j \in DOMAIN t, t[j].peer = p, t[j].kind \in K PROVE j <= l
      <4>1. Len(s) + j <= i
        BY <1>1, <2>1, <3>3
      <4> QED BY <1>1, <3>1, <4>1
    <3> QED BY <3>2, <3>3 DEF LastIs
  <2> QED BY <1>1, <2>2, <2>3
<1> QED BY <1>2, <1>3, <1>4 DEF u

\* No events and one event.
LEMMA HasOne ==
    ASSUME NEW kind \in EventKinds, NEW r \in Peers, NEW p \in Peers, NEW K, NEW k \in K
    PROVE  /\ <<>> \in Seq(Events) /\ ~Has(<<>>, p, K) /\ ~LastIs(<<>>, p, K, k)
           /\ <<Event(kind, r)>> \in Seq(Events)
           /\ Has(<<Event(kind, r)>>, p, K) <=> r = p /\ kind \in K
           /\ LastIs(<<Event(kind, r)>>, p, K, k) <=> r = p /\ kind = k
<1>1. Event(kind, r) \in Events
  BY EventType
<1>2. Event(kind, r).peer = r /\ Event(kind, r).kind = kind
  BY DEF Event
<1>3. Event(k, p).peer = p /\ Event(k, p).kind = k
  BY DEF Event
<1>4. <<>> \in Seq(Events) /\ <<Event(kind, r)>> \in Seq(Events)
  BY <1>1
<1> DEFINE s == <<Event(kind, r)>>
<1>5. DOMAIN s = {1} /\ s[1] = Event(kind, r)
  OBVIOUS
<1> HIDE DEF s
<1>6. Has(s, p, K) <=> r = p /\ kind \in K
  BY <1>2, <1>5 DEF Has
<1>7. LastIs(s, p, K, k) <=> r = p /\ kind = k
  <2>1. ASSUME r = p, kind = k PROVE LastIs(s, p, K, k)
    BY <1>5, <2>1 DEF LastIs
  <2>2. ASSUME LastIs(s, p, K, k) PROVE r = p /\ kind = k
    <3>1. Event(kind, r) = Event(k, p)
      BY <1>5, <2>2 DEF LastIs
    <3> QED BY <1>2, <1>3, <3>1
  <2> QED BY <2>1, <2>2
<1>8. ~Has(<<>>, p, K) /\ ~LastIs(<<>>, p, K, k)
  BY DEF Has, LastIs
<1> QED BY <1>4, <1>6, <1>7, <1>8 DEF s

\* An order of a set has each of its elements, once.
LEMMA OrderHasAll ==
    ASSUME NEW S \in SUBSET Peers, NEW o \in Orders(S)
    PROVE  /\ DOMAIN o = 1 .. Cardinality(S) /\ Cardinality(S) \in Nat
           /\ \A i \in DOMAIN o : o[i] \in S
           /\ \A p \in S : \E i \in DOMAIN o : o[i] = p
           /\ \A i, j \in DOMAIN o : o[i] = o[j] => i = j
<1> DEFINE n == Cardinality(S)
<1>1. IsFiniteSet(S) /\ n \in Nat
  BY SomePeers
<1>2. o \in [1 .. n -> S] /\ \A i, j \in 1 .. n : o[i] = o[j] => i = j
  BY DEF Orders
<1>3. Cardinality(1 .. n) = n
  <2> HIDE DEF n
  <2>1. 1 \in Int /\ n \in Int
    BY <1>1
  <2>2. Cardinality(1 .. n) = IF 1 > n THEN 0 ELSE n - 1 + 1
    BY <2>1, FS_Interval
  <2> QED BY <1>1, <2>2
<1>4. o \in Injection(1 .. n, S)
  BY <1>2 DEF Injection, IsInjective
<1>5. o \in Surjection(1 .. n, S)
  <2>1. Cardinality(1 .. n) = Cardinality(S) <=> o \in Surjection(1 .. n, S)
    <3> HIDE DEF n
    <3> QED BY <1>1, <1>4, FS_Injection
  <2> QED BY <1>3, <2>1
<1>6. \A p \in S : \E i \in 1 .. n : o[i] = p
  BY <1>5 DEF Surjection
<1> QED BY <1>1, <1>2, <1>6

\* Events about the peers of an order, of kind f[p] for the peer p: one about each of them.
LEMMA HasOrderOf ==
    ASSUME NEW S \in SUBSET Peers, NEW o \in Orders(S), NEW f \in [S -> EventKinds], NEW s,
           s = [i \in DOMAIN o |-> Event(f[o[i]], o[i])],
           NEW p \in Peers, NEW K, NEW k \in K
    PROVE  /\ Has(s, p, K) <=> p \in S /\ f[p] \in K
           /\ LastIs(s, p, K, k) <=> p \in S /\ f[p] = k
<1>1. /\ DOMAIN s = DOMAIN o
      /\ \A i \in DOMAIN o : /\ s[i] = Event(f[o[i]], o[i])
                             /\ s[i].peer = o[i] /\ s[i].kind = f[o[i]]
  BY DEF Event
<1>2. /\ \A i \in DOMAIN o : o[i] \in S
      /\ \A q \in S : \E i \in DOMAIN o : o[i] = q
      /\ \A i, j \in DOMAIN o : o[i] = o[j] => i = j
      /\ DOMAIN o \subseteq Nat
  BY OrderHasAll
<1>3. Has(s, p, K) <=> p \in S /\ f[p] \in K
  BY <1>1, <1>2 DEF Has
<1>4. ASSUME p \in S, f[p] = k PROVE LastIs(s, p, K, k)
  <2>1. PICK i \in DOMAIN o : o[i] = p
    BY <1>2, <1>4
  <2>2. s[i] = Event(k, p)
    BY <1>1, <1>4, <2>1
  <2>3. ASSUME NEW j \in DOMAIN s, s[j].peer = p PROVE j <= i
    <3>1. j = i
      BY <1>1, <1>2, <2>1, <2>3
    <3> QED BY <1>1, <1>2, <3>1
  <2> QED BY <1>1, <2>1, <2>2, <2>3 DEF LastIs
<1>5. ASSUME LastIs(s, p, K, k) PROVE p \in S /\ f[p] = k
  <2>1. PICK i \in DOMAIN s : s[i] = Event(k, p)
    BY <1>5 DEF LastIs
  <2>2. Event(k, p).peer = p /\ Event(k, p).kind = k
    BY DEF Event
  <2> QED BY <1>1, <1>2, <2>1, <2>2
<1> QED BY <1>3, <1>4, <1>5

\* What a queue says, from its first event and the others.
LEMMA TailWords ==
    ASSUME NEW s \in Seq(Events), s # <<>>, NEW p \in Peers, NEW K, NEW k \in K
    PROVE  /\ Has(s, p, K) <=> (Head(s).peer = p /\ Head(s).kind \in K) \/ Has(Tail(s), p, K)
           /\ LastIs(s, p, K, k) <=> \/ LastIs(Tail(s), p, K, k)
                                     \/ /\ ~Has(Tail(s), p, K)
                                        /\ Head(s).peer = p /\ Head(s).kind = k
<1>1. PICK h, t : h = Head(s) /\ t = Tail(s)
  OBVIOUS
<1>2. h \in Events /\ t \in Seq(Events) /\ s = <<h>> \o t
  <2>1. h \in Events /\ t \in Seq(Events)
    BY <1>1, HeadTailProperties
  <2>2. <<h>> \in Seq(Events)
    BY <2>1
  <2>3. s = <<h>> \o t
    BY <1>1, <2>1, <2>2
  <2> QED BY <2>1, <2>3
<1>3. h.kind \in EventKinds /\ h.peer \in Peers /\ h = Event(h.kind, h.peer)
  BY <1>2 DEF Events, Event
<1>4. /\ <<h>> \in Seq(Events)
      /\ Has(<<h>>, p, K) <=> h.peer = p /\ h.kind \in K
      /\ LastIs(<<h>>, p, K, k) <=> h.peer = p /\ h.kind = k
  BY <1>3, HasOne
<1>5. /\ Has(s, p, K) <=> Has(<<h>>, p, K) \/ Has(t, p, K)
      /\ LastIs(s, p, K, k) <=> LastIs(t, p, K, k) \/ (~Has(t, p, K) /\ LastIs(<<h>>, p, K, k))
  BY <1>2, <1>4, HasJoined, LastJoined
<1>6. /\ Has(s, p, K) <=> (h.peer = p /\ h.kind \in K) \/ Has(t, p, K)
      /\ LastIs(s, p, K, k) <=> \/ LastIs(t, p, K, k)
                                \/ ~Has(t, p, K) /\ h.peer = p /\ h.kind = k
  BY <1>4, <1>5, Zenon
<1> QED BY <1>1, <1>6

-----------------------------------------------------------------------------
(* What the events of one handler say of a peer: whether it is to be banned *)
(* or unbanned (the last word counts), whether its connection or its        *)
(* disconnection is announced, and whether a goodbye is sent to it.         *)

BanKinds == {"Banned", "UnBanned"}
PeerKinds == {"PeerConnected", "PeerDisconnected"}
GoodbyeKinds == {"DisconnectPeer", "Banned"}

LastWord(s, p, K, w) == IF w = "None" THEN ~Has(s, p, K) ELSE LastIs(s, p, K, w)

Speaks(s, p, ban, peer) == LastWord(s, p, BanKinds, ban) /\ LastWord(s, p, PeerKinds, peer)

Bye(s, p) == Has(s, p, GoodbyeKinds)

\* The last word is one word.
LEMMA OneLastWord ==
    ASSUME NEW s, NEW p, NEW K, NEW k \in K, NEW l \in K, LastIs(s, p, K, k), LastIs(s, p, K, l),
           DOMAIN s \subseteq Nat
    PROVE  k = l
<1>1. PICK i \in DOMAIN s :
        s[i] = Event(k, p) /\ \A j \in DOMAIN s : s[j].peer = p /\ s[j].kind \in K => j <= i
  BY DEF LastIs
<1>2. PICK j \in DOMAIN s :
        s[j] = Event(l, p) /\ \A h \in DOMAIN s : s[h].peer = p /\ s[h].kind \in K => h <= j
  BY DEF LastIs
<1>3. s[i].peer = p /\ s[i].kind = k /\ s[j].peer = p /\ s[j].kind = l
  BY <1>1, <1>2 DEF Event
<1>4. j <= i /\ i <= j
  BY <1>1, <1>2, <1>3
<1>5. i = j
  BY <1>4
<1> QED BY <1>3, <1>5

\* A handler without events.
LEMMA SpeaksNothing ==
    ASSUME NEW p \in Peers
    PROVE  <<>> \in Seq(Events) /\ Speaks(<<>>, p, "None", "None") /\ ~Bye(<<>>, p)
BY DEF Speaks, LastWord, Bye, Has

\* A handler with one event.
LEMMA SpeaksOne ==
    ASSUME NEW kind \in EventKinds, NEW r \in Peers, NEW p \in Peers
    PROVE  /\ <<Event(kind, r)>> \in Seq(Events)
           /\ Speaks(<<Event(kind, r)>>, p,
                     IF r = p /\ kind \in BanKinds THEN kind ELSE "None",
                     IF r = p /\ kind \in PeerKinds THEN kind ELSE "None")
           /\ Bye(<<Event(kind, r)>>, p) <=> r = p /\ kind \in GoodbyeKinds
<1> DEFINE s == <<Event(kind, r)>>
<1>1. s \in Seq(Events) /\ (Bye(s, p) <=> r = p /\ kind \in GoodbyeKinds)
  <2>1. "Banned" \in GoodbyeKinds
    BY DEF GoodbyeKinds
  <2> QED BY <2>1, HasOne DEF Bye
<1>2. "Banned" \in BanKinds /\ "UnBanned" \in BanKinds /\ "None" \notin BanKinds
      /\ "PeerConnected" \in PeerKinds /\ "PeerDisconnected" \in PeerKinds /\ "None" \notin PeerKinds
  BY DEF BanKinds, PeerKinds
<1>3. /\ \A k \in BanKinds : /\ Has(s, p, BanKinds) <=> r = p /\ kind \in BanKinds
                             /\ LastIs(s, p, BanKinds, k) <=> r = p /\ kind = k
      /\ \A k \in PeerKinds : /\ Has(s, p, PeerKinds) <=> r = p /\ kind \in PeerKinds
                              /\ LastIs(s, p, PeerKinds, k) <=> r = p /\ kind = k
  BY HasOne
<1> HIDE DEF s
<1>4. LastWord(s, p, BanKinds, IF r = p /\ kind \in BanKinds THEN kind ELSE "None")
  BY <1>2, <1>3 DEF LastWord
<1>5. LastWord(s, p, PeerKinds, IF r = p /\ kind \in PeerKinds THEN kind ELSE "None")
  BY <1>2, <1>3 DEF LastWord
<1> QED BY <1>1, <1>4, <1>5 DEF Speaks, s

\* The last word of two queues in a row.
LEMMA LastWordJoined ==
    ASSUME NEW s \in Seq(Events), NEW t \in Seq(Events), NEW p, NEW K,
           NEW w \in K \cup {"None"}, NEW v \in K \cup {"None"}, "None" \notin K,
           LastWord(s, p, K, w), LastWord(t, p, K, v)
    PROVE  LastWord(s \o t, p, K, IF v = "None" THEN w ELSE v)
<1>1. CASE v = "None" /\ w = "None"
  BY <1>1, HasJoined DEF LastWord
<1>2. CASE v = "None" /\ w # "None"
  <2>1. w \in K /\ LastIs(s, p, K, w) /\ ~Has(t, p, K)
    BY <1>2 DEF LastWord
  <2>2. LastIs(s \o t, p, K, w)
    BY <2>1, LastJoined
  <2> QED BY <1>2, <2>2 DEF LastWord
<1>3. CASE v # "None"
  <2>1. v \in K /\ LastIs(t, p, K, v)
    BY <1>3 DEF LastWord
  <2>2. LastIs(s \o t, p, K, v)
    BY <2>1, LastJoined
  <2> QED BY <1>3, <2>2 DEF LastWord
<1> QED BY <1>1, <1>2, <1>3

\* Two handlers' events in a row.
LEMMA SpeaksJoined ==
    ASSUME NEW s \in Seq(Events), NEW t \in Seq(Events), NEW p,
           NEW ban \in BanKinds \cup {"None"}, NEW peer \in PeerKinds \cup {"None"},
           NEW ban2 \in BanKinds \cup {"None"}, NEW peer2 \in PeerKinds \cup {"None"},
           Speaks(s, p, ban, peer), Speaks(t, p, ban2, peer2)
    PROVE  /\ s \o t \in Seq(Events)
           /\ Speaks(s \o t, p, IF ban2 = "None" THEN ban ELSE ban2,
                                IF peer2 = "None" THEN peer ELSE peer2)
           /\ Bye(s \o t, p) <=> Bye(s, p) \/ Bye(t, p)
<1>1. s \o t \in Seq(Events) /\ (Bye(s \o t, p) <=> Bye(s, p) \/ Bye(t, p))
  BY HasJoined, ConcatProperties DEF Bye
<1>2. "None" \notin BanKinds /\ "None" \notin PeerKinds
  BY DEF BanKinds, PeerKinds
<1>3. /\ LastWord(s, p, BanKinds, ban) /\ LastWord(t, p, BanKinds, ban2)
      /\ LastWord(s, p, PeerKinds, peer) /\ LastWord(t, p, PeerKinds, peer2)
  BY DEF Speaks
<1>4. LastWord(s \o t, p, BanKinds, IF ban2 = "None" THEN ban ELSE ban2)
  BY <1>2, <1>3, LastWordJoined
<1>5. LastWord(s \o t, p, PeerKinds, IF peer2 = "None" THEN peer ELSE peer2)
  BY <1>2, <1>3, LastWordJoined
<1> QED BY <1>1, <1>4, <1>5 DEF Speaks

\* The events about the peers of a set.
LEMMA SpeaksOrderOf ==
    ASSUME NEW S \in SUBSET Peers, NEW o \in Orders(S), NEW f \in [S -> EventKinds], NEW s,
           s = [i \in DOMAIN o |-> Event(f[o[i]], o[i])],
           NEW p \in Peers
    PROVE  /\ Speaks(s, p, IF p \in S /\ f[p] \in BanKinds THEN f[p] ELSE "None",
                           IF p \in S /\ f[p] \in PeerKinds THEN f[p] ELSE "None")
           /\ Bye(s, p) <=> p \in S /\ f[p] \in GoodbyeKinds
<1>1. "Banned" \in BanKinds /\ "None" \notin BanKinds
      /\ "PeerConnected" \in PeerKinds /\ "None" \notin PeerKinds /\ "Banned" \in GoodbyeKinds
  BY DEF BanKinds, PeerKinds, GoodbyeKinds
<1>2. /\ \A k \in BanKinds : /\ Has(s, p, BanKinds) <=> p \in S /\ f[p] \in BanKinds
                             /\ LastIs(s, p, BanKinds, k) <=> p \in S /\ f[p] = k
      /\ \A k \in PeerKinds : /\ Has(s, p, PeerKinds) <=> p \in S /\ f[p] \in PeerKinds
                              /\ LastIs(s, p, PeerKinds, k) <=> p \in S /\ f[p] = k
      /\ \A k \in GoodbyeKinds : Has(s, p, GoodbyeKinds) <=> p \in S /\ f[p] \in GoodbyeKinds
  BY HasOrderOf
<1>3. LastWord(s, p, BanKinds, IF p \in S /\ f[p] \in BanKinds THEN f[p] ELSE "None")
  BY <1>1, <1>2 DEF LastWord
<1>4. LastWord(s, p, PeerKinds, IF p \in S /\ f[p] \in PeerKinds THEN f[p] ELSE "None")
  BY <1>1, <1>2 DEF LastWord
<1> QED BY <1>1, <1>2, <1>3, <1>4 DEF Speaks, Bye

\* The same for events that are all of one kind.
LEMMA SpeaksOrder ==
    ASSUME NEW S \in SUBSET Peers, NEW o \in Orders(S), NEW kind \in EventKinds, NEW p \in Peers
    PROVE  /\ EventsOf(kind, o) \in Seq(Events)
           /\ Speaks(EventsOf(kind, o), p, IF p \in S /\ kind \in BanKinds THEN kind ELSE "None",
                                           IF p \in S /\ kind \in PeerKinds THEN kind ELSE "None")
           /\ Bye(EventsOf(kind, o), p) <=> p \in S /\ kind \in GoodbyeKinds
<1>1. EventsOf(kind, o) \in Seq(Events)
  BY EventsOfType
<1> DEFINE f == [q \in S |-> kind]
<1>2. f \in [S -> EventKinds] /\ \A q \in S : f[q] = kind
  OBVIOUS
<1>3. \A i \in DOMAIN o : o[i] \in S
  BY OrderHasAll
<1> HIDE DEF f
<1>4. EventsOf(kind, o) = [i \in DOMAIN o |-> Event(f[o[i]], o[i])]
  BY <1>2, <1>3 DEF EventsOf
<1>5. /\ Speaks(EventsOf(kind, o), p, IF p \in S /\ f[p] \in BanKinds THEN f[p] ELSE "None",
                                      IF p \in S /\ f[p] \in PeerKinds THEN f[p] ELSE "None")
      /\ Bye(EventsOf(kind, o), p) <=> p \in S /\ f[p] \in GoodbyeKinds
  BY <1>2, <1>4, SpeaksOrderOf
<1>6. CASE p \in S
  BY <1>1, <1>2, <1>5, <1>6
<1>7. CASE p \notin S
  BY <1>1, <1>5, <1>7
<1> QED BY <1>6, <1>7

-----------------------------------------------------------------------------
(* What one step does to one peer, with the events s that it pushes.       *)

Registered == {"Connected", "Disconnecting", "DisconnectingToBan"}

HasTimers(p) == p \in ping_peers \cup status_peers

\* Timers are set for registered peers, and stopped when a peer ceases to be one.
TimerStep(p) ==
    HasTimers(p)' =>
        db'.status[p] \in Registered \/ (HasTimers(p) /\ db.status[p] \notin Registered)

\* Nothing but a change of a score that neither begins nor ends a ban.
Unmoved(p, s) ==
    /\ db'.status[p] = db.status[p]
    /\ db'.score[p] = "Banned" <=> db.score[p] = "Banned"
    /\ Speaks(s, p, "None", "None")

\* A score that is too low for a connection.
Warned(p, s) ==
    /\ db.status[p] \in {"Connected", "Dialing"}
    /\ db'.status[p] = "Disconnecting"
    /\ db'.score[p] = "Disconnected"
    /\ Speaks(s, p, "None", "None") /\ Bye(s, p)

\* A score that is banned, for a peer to disconnect first.
BanAnnounced(p, s) ==
    /\ db.status[p] \in {"Connected", "Dialing", "Disconnecting", "DisconnectingToBan"}
    /\ db'.status[p] = "DisconnectingToBan"
    /\ db.score[p] # "Banned" /\ db'.score[p] = "Banned"
    /\ Speaks(s, p, "None", "None")
    /\ db.status[p] \in {"Connected", "Dialing"} => Bye(s, p)

\* A score that is banned, for a peer without a connection.
BannedAtOnce(p, s) ==
    /\ db.status[p] \in {"Disconnected", "Unknown", "Banned"}
    /\ db'.status[p] = "Banned"
    /\ db.score[p] # "Banned" /\ db'.score[p] = "Banned"
    /\ Speaks(s, p, "Banned", "None") /\ Bye(s, p)

Penalised(p, s) == Unmoved(p, s) \/ Warned(p, s) \/ BanAnnounced(p, s) \/ BannedAtOnce(p, s)

\* A penalty never unbans.
LEMMA PenaltyResult ==
    ASSUME NEW p \in Peers, db \in Databases, NEW sc \in PenaltyScores(db, p), NEW result,
           result = handle_score_transition(db.score[p], sc, db.status[p])
    PROVE  /\ sc \in Scores
           /\ \/ /\ result = "Banned" /\ sc = "Banned" /\ db.score[p] # "Banned"
                 /\ db.status[p] # "Absent"
              \/ /\ result = "Disconnected" /\ sc = "Disconnected"
                 /\ db.status[p] \in {"Connected", "Dialing"}
              \/ result = "NoAction" /\ (sc = "Banned" <=> db.score[p] = "Banned")
<1>1. db.score[p] \in Scores /\ db.status[p] \in Statuses
  BY DEF Databases
<1>2. CASE Exempt(db, p) \/ db.status[p] = "Absent"
  <2>1. sc = db.score[p]
    BY <1>2 DEF PenaltyScores
  <2> QED BY <1>1, <2>1 DEF handle_score_transition, Scores
<1>3. CASE ~(Exempt(db, p) \/ db.status[p] = "Absent")
  <2>1. sc \in Scores /\ sc # "Max" /\ Rank(sc) <= Rank(db.score[p])
    BY <1>3 DEF PenaltyScores
  <2>2. db.score[p] = "Banned" => sc = "Banned"
    BY <1>1, <2>1 DEF Rank, Scores
  <2>3. db.score[p] = "Disconnected" => sc \in {"Disconnected", "Banned"}
    BY <1>1, <2>1 DEF Rank, Scores
  <2> QED BY <1>1, <1>3, <2>1, <2>2, <2>3 DEF handle_score_transition, Scores
<1> QED BY <1>2, <1>3

\* A report is a penalty for one peer and changes nothing about the others.
LEMMA PenaltyEffect ==
    ASSUME IInv, NEW p \in Peers, NEW sc \in PenaltyScores(db, p), ReportWithScore(p, sc)
    PROVE  /\ db'.score = [db.score EXCEPT ![p] = sc] /\ db'.trusted = db.trusted
           /\ ping_peers' \subseteq ping_peers
           /\ \E s \in Seq(Events) :
                 /\ events' = events \o s
                 /\ Penalised(p, s)
                 /\ \A q \in Peers \ {p} : Unmoved(q, s)
<1> PICK result : result = handle_score_transition(db.score[p], sc, db.status[p])
  OBVIOUS
<1>1. db \in Databases /\ db.status[p] \in Statuses
  BY DEF IInv, Sound, Databases
<1>2. /\ sc \in Scores
      /\ \/ /\ result = "Banned" /\ sc = "Banned" /\ db.score[p] # "Banned"
            /\ db.status[p] # "Absent"
         \/ /\ result = "Disconnected" /\ sc = "Disconnected"
            /\ db.status[p] \in {"Connected", "Dialing"}
         \/ result = "NoAction" /\ (sc = "Banned" <=> db.score[p] = "Banned")
  BY <1>1, PenaltyResult
<1>3. /\ db'.status = [db.status EXCEPT ![p] = IF result = "Banned" THEN StatusToBan(db.status[p])
                                               ELSE IF result = "Disconnected" THEN "Disconnecting"
                                               ELSE db.status[p]]
      /\ db'.score = [db.score EXCEPT ![p] = sc]
      /\ db'.trusted = db.trusted
  BY <1>1, <1>2, ReportEffect DEF ReportWithScore
<1>4. /\ db'.score[p] = sc
      /\ db'.status[p] = IF result = "Banned" THEN StatusToBan(db.status[p])
                         ELSE IF result = "Disconnected" THEN "Disconnecting"
                         ELSE db.status[p]
      /\ \A q \in Peers \ {p} : db'.status[q] = db.status[q] /\ db'.score[q] = db.score[q]
  BY <1>1, <1>3 DEF Databases
<1> PICK r : r = ReportResult(db, p, sc)
  OBVIOUS
<1>5. handle_score_action(p, r)
  BY DEF ReportWithScore
<1>6. ping_peers' \subseteq ping_peers
  BY <1>5 DEF handle_score_action
<1>7. r = IF result = "Banned" THEN BanOperation(db, p)
          ELSE IF result = "Disconnected" THEN "Disconnect" ELSE "NoAction"
  BY <1>2 DEF ReportResult
<1> DEFINE bye == <<Event("DisconnectPeer", p)>>
           ban == <<Event("Banned", p)>>
<1>8. /\ r \in {"DisconnectThePeer", "Disconnect"} => events' = events \o bye
      /\ r = "ReadyToBan" => events' = events \o ban
      /\ r \in {"PeerDisconnecting", "NoAction"} => events' = events \o <<>>
  BY <1>5 DEF handle_score_action, Push
<1>9. /\ bye \in Seq(Events) /\ Speaks(bye, p, "None", "None") /\ Bye(bye, p)
      /\ \A q \in Peers \ {p} : Speaks(bye, q, "None", "None")
      /\ ban \in Seq(Events) /\ Speaks(ban, p, "Banned", "None") /\ Bye(ban, p)
      /\ \A q \in Peers \ {p} : Speaks(ban, q, "None", "None")
  BY SpeaksOne DEF EventKinds, BanKinds, PeerKinds, GoodbyeKinds
<1>10. <<>> \in Seq(Events) /\ \A q \in Peers : Speaks(<<>>, q, "None", "None")
  BY SpeaksNothing
<1> HIDE DEF bye, ban
<1>11. CASE result = "Banned"
  <2>1. sc = "Banned" /\ db.score[p] # "Banned" /\ db.status[p] # "Absent"
    BY <1>2, <1>11
  <2>2. CASE db.status[p] \in {"Disconnected", "Unknown", "Banned"}
    <3>1. r = "ReadyToBan" /\ db'.status[p] = "Banned"
      BY <1>4, <1>7, <1>11, <2>2 DEF BanOperation, StatusToBan
    <3>2. BannedAtOnce(p, ban)
      BY <1>4, <1>9, <2>1, <2>2, <3>1 DEF BannedAtOnce
    <3>3. \A q \in Peers \ {p} : Unmoved(q, ban)
      BY <1>4, <1>9 DEF Unmoved
    <3> QED BY <1>3, <1>6, <1>8, <1>9, <3>1, <3>2, <3>3 DEF Penalised
  <2>3. CASE db.status[p] \in {"Connected", "Dialing"}
    <3>1. r = "DisconnectThePeer" /\ db'.status[p] = "DisconnectingToBan"
      BY <1>4, <1>7, <1>11, <2>3 DEF BanOperation, StatusToBan
    <3>2. BanAnnounced(p, bye)
      BY <1>4, <1>9, <2>1, <2>3, <3>1 DEF BanAnnounced
    <3>3. \A q \in Peers \ {p} : Unmoved(q, bye)
      BY <1>4, <1>9 DEF Unmoved
    <3> QED BY <1>3, <1>6, <1>8, <1>9, <3>1, <3>2, <3>3 DEF Penalised
  <2>4. CASE db.status[p] \in {"Disconnecting", "DisconnectingToBan"}
    <3>1. r = "PeerDisconnecting" /\ db'.status[p] = "DisconnectingToBan"
      BY <1>4, <1>7, <1>11, <2>4 DEF BanOperation, StatusToBan
    <3>2. BanAnnounced(p, <<>>)
      BY <1>4, <1>10, <2>1, <2>4, <3>1 DEF BanAnnounced
    <3>3. \A q \in Peers \ {p} : Unmoved(q, <<>>)
      BY <1>4, <1>10 DEF Unmoved
    <3> QED BY <1>3, <1>6, <1>8, <1>10, <3>1, <3>2, <3>3 DEF Penalised
  <2> QED BY <1>1, <2>1, <2>2, <2>3, <2>4 DEF Statuses
<1>12. CASE result = "Disconnected"
  <2>1. /\ sc = "Disconnected" /\ db.status[p] \in {"Connected", "Dialing"}
        /\ r = "Disconnect" /\ db'.status[p] = "Disconnecting"
    BY <1>2, <1>4, <1>7, <1>12
  <2>2. Warned(p, bye)
    BY <1>4, <1>9, <2>1 DEF Warned
  <2>3. \A q \in Peers \ {p} : Unmoved(q, bye)
    BY <1>4, <1>9 DEF Unmoved
  <2> QED BY <1>3, <1>6, <1>8, <1>9, <2>1, <2>2, <2>3 DEF Penalised
<1>13. CASE result = "NoAction"
  <2>1. (sc = "Banned" <=> db.score[p] = "Banned") /\ r = "NoAction" /\ db'.status[p] = db.status[p]
    BY <1>2, <1>4, <1>7, <1>13
  <2>2. \A q \in Peers : Unmoved(q, <<>>)
    BY <1>4, <1>10, <2>1 DEF Unmoved
  <2> QED BY <1>3, <1>6, <1>8, <1>10, <2>1, <2>2 DEF Penalised
<1> QED BY <1>2, <1>11, <1>12, <1>13

\* A peer is purged, and a ban of it lifted.
Purged(d, p, s, word) ==
    /\ db'.status[p] = "Absent"
    /\ db'.score[p] = "Healthy"
    /\ Speaks(s, p, IF d.status[p] \in {"Banned", "DisconnectingToBan"} THEN "UnBanned" ELSE "None",
              word)

\* A disconnection ends, of a peer that had this record in the database d.
Ended(d, p, s, word) ==
    \/ Purged(d, p, s, word)
    \/ /\ db'.score[p] = d.score[p]
       /\ db'.status[p] = IF d.status[p] \in {"Banned", "DisconnectingToBan"} THEN "Banned"
                          ELSE "Disconnected"
       /\ Speaks(s, p, IF d.status[p] = "DisconnectingToBan" THEN "Banned" ELSE "None", word)

\* Another peer is purged with it, or not.
Spared(d, q, s) ==
    \/ Purged(d, q, s, "None") /\ d.status[q] \in {"Banned", "Disconnected"}
    \/ /\ db'.score[q] = d.score[q]
       /\ db'.status[q] = d.status[q]
       /\ Speaks(s, q, "None", "None")

\* The events that come first are about this peer only.
Opens(first, p, word) ==
    /\ first \in Seq(Events)
    /\ word \in {"None", "PeerDisconnected"}
    /\ Speaks(first, p, "None", word)
    /\ \A q \in Peers \ {p} : Speaks(first, q, "None", "None")

Disconnects(d, p, word) ==
    /\ ping_peers' = ping_peers \ {p} /\ status_peers' = status_peers \ {p}
    /\ \A q \in Peers : db'.trusted[q] => d.trusted[q]
    /\ \E s \in Seq(Events) :
          /\ events' = events \o s
          /\ Ended(d, p, s, word)
          /\ \A q \in Peers \ {p} : Spared(d, q, s)

\* inject_disconnect, with its purge.
LEMMA InjectDisconnectEffect ==
    ASSUME NEW d, Sound(d), NEW p \in Peers, NEW first, NEW word, Opens(first, p, word),
           InjectDisconnect(d, p, first)
    PROVE  Disconnects(d, p, word)
<1>0. /\ first \in Seq(Events) /\ word \in {"None", "PeerDisconnected"}
      /\ Speaks(first, p, "None", word)
      /\ \A q \in Peers \ {p} : Speaks(first, q, "None", "None")
  BY DEF Opens
<1> DEFINE gone == ToDisconnected(d, p)
<1>1. d \in Databases /\ Sound(gone) /\ gone \in Databases
  BY ToDisconnectedSound DEF Sound
<1>2. PICK RB \in Oldest(gone, Banned(gone), ExcessBanned(gone)),
           RD \in Oldest(gone, Disconnected(gone), ExcessDisconnected(gone)) :
        \E o \in Orders(RB) :
           /\ db' = shrink_to_fit(gone, RB, RD)
           /\ Push(first \o PendingBan(d, p) \o UnbanEvents(o))
           /\ ping_peers' = ping_peers \ {p}
           /\ status_peers' = status_peers \ {p}
  BY DEF InjectDisconnect
<1>3. PICK o \in Orders(RB) :
           /\ db' = shrink_to_fit(gone, RB, RD)
           /\ Push(first \o PendingBan(d, p) \o UnbanEvents(o))
           /\ ping_peers' = ping_peers \ {p}
           /\ status_peers' = status_peers \ {p}
  BY <1>2
<1>4. /\ gone.status = [d.status EXCEPT ![p] = IF d.status[p] \in {"Banned", "DisconnectingToBan"}
                                               THEN "Banned" ELSE "Disconnected"]
      /\ KeepsRecords(d, gone)
  BY <1>1, ToDisconnectedEffect
<1>5. /\ gone.status[p] = IF d.status[p] \in {"Banned", "DisconnectingToBan"}
                          THEN "Banned" ELSE "Disconnected"
      /\ \A q \in Peers \ {p} : gone.status[q] = d.status[q]
      /\ gone.score = d.score /\ gone.trusted = d.trusted
  BY <1>1, <1>4 DEF KeepsRecords, Databases
<1> HIDE DEF gone
<1>6. /\ RB \in SUBSET Banned(gone) /\ RD \in SUBSET Disconnected(gone)
      /\ RB \in SUBSET Peers
      /\ \A q \in RB : gone.status[q] = "Banned"
      /\ \A q \in RD : gone.status[q] = "Disconnected"
  BY DEF Oldest, Banned, Disconnected, InState
<1>7. DroppedFrom(gone, db', RB \cup RD)
  BY <1>1, <1>3, <1>6, ShrinkEffect
<1>8. \A q \in Peers :
         /\ db'.status[q] = IF q \in RB \cup RD THEN "Absent" ELSE gone.status[q]
         /\ db'.score[q] = IF q \in RB \cup RD THEN "Healthy" ELSE d.score[q]
         /\ db'.trusted[q] => d.trusted[q]
  <2>1. \A q \in Peers :
           /\ db'.status[q] = IF q \in RB \cup RD THEN "Absent" ELSE gone.status[q]
           /\ db'.score[q] = IF q \in RB \cup RD THEN "Healthy" ELSE d.score[q]
    BY <1>5, <1>7 DEF DroppedFrom
  <2>2. \A q \in Peers : db'.trusted[q] => gone.trusted[q]
    BY <1>7, Zenon DEF DroppedFrom
  <2> QED BY <1>5, <2>1, <2>2
<1> DEFINE pend == PendingBan(d, p)
           free == UnbanEvents(o)
           s == first \o pend \o free
<1>9. /\ pend \in Seq(Events)
      /\ \A q \in Peers : Speaks(pend, q, IF q = p /\ d.status[p] = "DisconnectingToBan"
                                          THEN "Banned" ELSE "None", "None")
  <2>1. CASE d.status[p] = "DisconnectingToBan"
    <3>1. pend = <<Event("Banned", p)>>
      BY <2>1 DEF PendingBan
    <3>2. /\ <<Event("Banned", p)>> \in Seq(Events)
          /\ \A q \in Peers : Speaks(<<Event("Banned", p)>>, q, IF p = q THEN "Banned" ELSE "None", "None")
      BY SpeaksOne DEF EventKinds, BanKinds, PeerKinds
    <3> QED BY <2>1, <3>1, <3>2
  <2>2. CASE d.status[p] # "DisconnectingToBan"
    <3>1. pend = <<>>
      BY <2>2 DEF PendingBan
    <3> QED BY <2>2, <3>1, SpeaksNothing
  <2> QED BY <2>1, <2>2
<1>10. /\ free \in Seq(Events)
       /\ \A q \in Peers : Speaks(free, q, IF q \in RB THEN "UnBanned" ELSE "None", "None")
  BY <1>6, SpeaksOrder DEF UnbanEvents, EventKinds, BanKinds, PeerKinds
<1> HIDE DEF pend, free
<1>11. /\ first \o pend \in Seq(Events)
       /\ Speaks(first \o pend, p, IF d.status[p] = "DisconnectingToBan" THEN "Banned" ELSE "None",
                 word)
  <2>1. Speaks(pend, p, IF d.status[p] = "DisconnectingToBan" THEN "Banned" ELSE "None", "None")
    BY <1>9
  <2> QED BY <1>0, <1>9, <2>1, SpeaksJoined DEF BanKinds, PeerKinds
<1>12. ASSUME NEW q \in Peers \ {p} PROVE Speaks(first \o pend, q, "None", "None")
  <2>1. Speaks(pend, q, "None", "None")
    BY <1>9
  <2> QED BY <1>0, <1>9, <2>1, SpeaksJoined DEF BanKinds, PeerKinds
<1>13. /\ s \in Seq(Events)
       /\ Speaks(s, p, IF p \in RB THEN "UnBanned"
                       ELSE IF d.status[p] = "DisconnectingToBan" THEN "Banned" ELSE "None", word)
  <2>1. Speaks(free, p, IF p \in RB THEN "UnBanned" ELSE "None", "None")
    BY <1>10
  <2> QED BY <1>0, <1>10, <1>11, <2>1, SpeaksJoined DEF BanKinds, PeerKinds
<1>14. ASSUME NEW q \in Peers \ {p}
       PROVE  Speaks(s, q, IF q \in RB THEN "UnBanned" ELSE "None", "None")
  <2>1. Speaks(free, q, IF q \in RB THEN "UnBanned" ELSE "None", "None")
    BY <1>10
  <2> QED BY <1>0, <1>10, <1>11, <1>12, <2>1, SpeaksJoined DEF BanKinds, PeerKinds
<1>15. events' = events \o s
  BY <1>3 DEF Push, pend, free
<1> HIDE DEF s
<1>16. Ended(d, p, s, word)
  <2>1. CASE p \in RB
    <3>1. d.status[p] \in {"Banned", "DisconnectingToBan"}
      BY <1>5, <1>6, <2>1
    <3> QED BY <1>8, <1>13, <2>1, <3>1 DEF Ended, Purged
  <2>2. CASE p \notin RB /\ p \in RD
    <3>1. d.status[p] \notin {"Banned", "DisconnectingToBan"}
      BY <1>5, <1>6, <2>2
    <3> QED BY <1>8, <1>13, <2>2, <3>1 DEF Ended, Purged
  <2>3. CASE p \notin RB \cup RD
    BY <1>5, <1>8, <1>13, <2>3 DEF Ended
  <2> QED BY <2>1, <2>2, <2>3
<1>17. ASSUME NEW q \in Peers \ {p} PROVE Spared(d, q, s)
  <2>1. CASE q \in RB
    <3>1. d.status[q] = "Banned"
      BY <1>5, <1>6, <2>1
    <3> QED BY <1>8, <1>14, <2>1, <3>1 DEF Spared, Purged
  <2>2. CASE q \notin RB /\ q \in RD
    <3>1. d.status[q] = "Disconnected"
      BY <1>5, <1>6, <2>2
    <3> QED BY <1>8, <1>14, <2>2, <3>1 DEF Spared, Purged
  <2>3. CASE q \notin RB \cup RD
    BY <1>5, <1>8, <1>14, <2>3 DEF Spared
  <2> QED BY <2>1, <2>2, <2>3
<1> QED BY <1>3, <1>8, <1>13, <1>15, <1>16, <1>17 DEF Disconnects

-----------------------------------------------------------------------------
(* Every step but PollEvent, seen by one peer: what it does to the state    *)
(* and the ban of the peer, to its connection, and what is queued for it.   *)

SameConn(p) == p \in conn' <=> p \in conn

\* Nothing happens to it.
Rests(p, s) == Unmoved(p, s) /\ SameConn(p)

\* A report, by whom it may come from.
Reported(p, s) ==
    /\ Warned(p, s) \/ BanAnnounced(p, s) \/ BannedAtOnce(p, s)
    /\ p \in conn => p \in conn'
    /\ db.status[p] = "Connected" \/ ReportAnyPeer \/ p \in conn'

\* Its connection or a dial ends.
Ends(p, s) ==
    /\ \E word \in {"None", "PeerDisconnected"} : Ended(db, p, s, word)
    /\ db.status[p] = "Connected" => p \notin conn'
    /\ p \in conn' => p \in conn

\* It is purged when another one disconnects.
Forgets(p, s) ==
    /\ Purged(db, p, s, "None")
    /\ db.status[p] \in {"Banned", "Disconnected"}
    /\ SameConn(p)

NewConnection(p) == p \notin conn \cup swarm_banned /\ p \in conn'

\* It connects: it is registered, told to go, or only banned.
Joins(p, s) ==
    /\ NewConnection(p)
    /\ db.score[p] # "Banned" \/ db.status[p] = "Absent"
    /\ db'.score[p] = db.score[p]
    /\ \/ db'.status[p] = "Connected" /\ Speaks(s, p, "None", "PeerConnected")
       \/ db'.status[p] = "Disconnecting" /\ Speaks(s, p, "None", "None") /\ Bye(s, p)

\* It is refused for its score or its address, and the goodbye has no effect: its score is
\* banned already, or nothing changes it.
Ignored(p, s) ==
    /\ NewConnection(p)
    /\ ban_status(db, p) # "NotBanned"
    /\ Unmoved(p, s)
    /\ db.score[p] = "Banned" \/ Exempt(db, p)

\* Gossipsub's score lifts a ban of a connected peer.
Relieved(p, s) ==
    /\ db.status[p] = "Connected" /\ db'.status[p] = "Connected"
    /\ db.score[p] = "Banned" /\ db'.score[p] # "Banned"
    /\ Speaks(s, p, "UnBanned", "None")
    /\ SameConn(p)

\* A heartbeat.
Decays(p, s) ==
    /\ SameConn(p)
    /\ db'.score[p] = "Banned" => db.score[p] = "Banned"
    /\ db.status[p] = "Absent" => db'.score[p] = db.score[p]
    /\ BanOutlastsDisconnect /\ db.score[p] = "Banned"
           /\ (p \in closing \/ db.status[p] = "DisconnectingToBan")
         => db'.score[p] = "Banned"
    /\ db.status[p] = "Banned" /\ db.score[p] = "Banned" /\ db'.score[p] # "Banned"
         => db'.status[p] = "Disconnected"
    /\ \/ db'.status[p] = db.status[p]
       \/ db.status[p] = "Dialing" /\ db'.status[p] = "Disconnected"
       \/ db.status[p] = "Connected" /\ db'.status[p] = "Disconnecting" /\ Bye(s, p)
       \/ db.status[p] = "Banned" /\ db'.status[p] = "Disconnected" /\ Speaks(s, p, "UnBanned", "None")
    /\ \/ Speaks(s, p, "None", "None")
       \/ db.score[p] = "Banned" /\ db'.score[p] # "Banned" /\ Speaks(s, p, "UnBanned", "None")

\* An entry is created for it.
Appears(p, s) ==
    /\ db.status[p] = "Absent" /\ db'.status[p] = "Unknown"
    /\ db'.score[p] = db.score[p]
    /\ Speaks(s, p, "None", "None")
    /\ SameConn(p)

\* It is dialed; the dial may be refused at once.
Dials(p, s) ==
    /\ events = <<>>
    /\ peers_to_dial' # peers_to_dial
    /\ SameConn(p)
    /\ db.status[p] \in {"Absent", "Unknown", "Disconnected", "Banned"}
    /\ db'.score[p] \in {db.score[p], "Max", "Healthy"}
    /\ \/ db'.status[p] = "Dialing" /\ p \notin conn \cup swarm_banned
       \/ db'.status[p] \in {"Absent", "Disconnected"}
    /\ db'.status[p] = "Absent" => db'.score[p] = "Healthy"
    /\ Speaks(s, p, "None", "None")

Moves(p, s) ==
    \/ Rests(p, s) \/ Reported(p, s) \/ Ends(p, s) \/ Forgets(p, s) \/ Joins(p, s)
    \/ Ignored(p, s) \/ Relieved(p, s) \/ Decays(p, s) \/ Appears(p, s) \/ Dials(p, s)

ClosingStep(p) == p \in closing /\ p \in conn' => p \in closing'

\* The whole effect of a step on one peer.
Effect(p, s) == Moves(p, s) /\ TimerStep(p) /\ ClosingStep(p)

\* Every such step has these effects, and pushes the events s.
Effects == \E s \in Seq(Events) : events' = events \o s /\ \A p \in Peers : Effect(p, s)

\* A fatal report is a penalty.
LEMMA FatalIsPenalty ==
    ASSUME db \in Databases, NEW p \in Peers
    PROVE  /\ FatalScore(db, p) \in PenaltyScores(db, p)
           /\ FatalScore(db, p) = "Banned" \/ Exempt(db, p) \/ db.status[p] = "Absent"
BY DEF PenaltyScores, FatalScore, Exempt, Rank, Scores, Databases

\* A step of a peer whose timers were not set.
LEMMA TimersShrink ==
    ASSUME NEW p \in Peers, ping_peers' \subseteq ping_peers, status_peers' \subseteq status_peers,
           db.status[p] \in Registered => db'.status[p] \in Registered
    PROVE  TimerStep(p)
BY DEF TimerStep, HasTimers

\* ReportPeer has these effects.
LEMMA ReportPeerEffect ==
    ASSUME IInv, NEW p \in Peers, ReportPeer(p)
    PROVE  Effects
<1>1. PICK sc \in PenaltyScores(db, p) : ReportWithScore(p, sc)
  BY DEF ReportPeer
<1>2. /\ ReportAnyPeer \/ p \in conn
      /\ status_peers' = status_peers /\ conn' = conn /\ closing' = closing
  BY DEF ReportPeer, swarmVars
<1>3. /\ db'.score = [db.score EXCEPT ![p] = sc] /\ db'.trusted = db.trusted
      /\ ping_peers' \subseteq ping_peers
  BY <1>1, PenaltyEffect
<1>4. PICK s \in Seq(Events) :
        /\ events' = events \o s
        /\ Penalised(p, s)
        /\ \A q \in Peers \ {p} : Unmoved(q, s)
  BY <1>1, PenaltyEffect
<1>5. db \in Databases /\ db.score \in [Peers -> Scores]
  BY DEF IInv, Sound, Databases
<1>6. Moves(p, s)
  BY <1>2, <1>4 DEF Penalised, Moves, Rests, Reported, SameConn
<1>7. \A q \in Peers \ {p} : Moves(q, s)
  BY <1>2, <1>4 DEF Moves, Rests, SameConn
<1>8. ASSUME NEW q \in Peers PROVE TimerStep(q)
  <2>1. db.status[q] \in Registered => db'.status[q] \in Registered
    BY <1>4 DEF Penalised, Unmoved, Warned, BanAnnounced, BannedAtOnce, Registered
  <2> QED BY <1>2, <1>3, <2>1, TimersShrink
<1> QED BY <1>2, <1>4, <1>6, <1>7, <1>8 DEF Effects, Effect, ClosingStep

\* What gossipsub's new scores amount to.
LEMMA GossipTransition ==
    ASSUME db \in Databases, NEW p \in Peers, db.status[p] = "Connected", NEW new \in Scores, NEW result,
           result = handle_score_transition(db.score[p], new, "Connected")
    PROVE  \/ result = "Banned" /\ new = "Banned" /\ db.score[p] # "Banned"
           \/ result = "Disconnected" /\ new = "Disconnected"
           \/ result = "Unbanned" /\ new # "Banned" /\ db.score[p] = "Banned"
           \/ result = "NoAction" /\ (new = "Banned" <=> db.score[p] = "Banned")
BY DEF handle_score_transition, Scores, Databases

\* UpdateGossipsubScores has these effects.
LEMMA UpdateGossipsubScoresEffects ==
    ASSUME IInv, UpdateGossipsubScores
    PROVE  Effects
<1>1. PICK sc \in GossipsubScores(db) :
        LET banned == Transition(db, sc, Connected(db), "Banned")
            disconnected == Transition(db, sc, Connected(db), "Disconnected")
            unbanned == Transition(db, sc, Connected(db), "Unbanned")
        IN  /\ db' = update_gossipsub_scores(db, sc)
            /\ \E o \in Orders(banned \cup disconnected \cup unbanned) :
                   Push([i \in DOMAIN o |->
                           Event(IF o[i] \in unbanned THEN "UnBanned" ELSE "DisconnectPeer", o[i])])
            /\ ping_peers' = ping_peers \ disconnected
            /\ UNCHANGED <<peers_to_dial, status_peers, swarmVars, informed>>
  BY DEF UpdateGossipsubScores
<1> DEFINE B == Transition(db, sc, Connected(db), "Banned")
           D == Transition(db, sc, Connected(db), "Disconnected")
           U == Transition(db, sc, Connected(db), "Unbanned")
           S == B \cup D \cup U
<1>2. PICK o \in Orders(S) :
        events' = events \o [i \in DOMAIN o |->
                                Event(IF o[i] \in U THEN "UnBanned" ELSE "DisconnectPeer", o[i])]
  BY <1>1 DEF Push
<1>3. /\ db \in Databases /\ sc \in [Peers -> Scores]
      /\ \A p \in Peers : db.status[p] # "Connected" => sc[p] = db.score[p]
      /\ \A p \in Peers : sc[p] = "Max" => db.score[p] = "Max"
      /\ status_peers' = status_peers /\ conn' = conn /\ closing' = closing
      /\ ping_peers' \subseteq ping_peers
  BY <1>1 DEF IInv, Sound, GossipsubScores, swarmVars
<1>4. /\ db'.status = [p \in Peers |-> IF p \in B THEN "DisconnectingToBan"
                                       ELSE IF p \in D THEN "Disconnecting" ELSE db.status[p]]
      /\ db'.score = sc
      /\ db'.trusted = db.trusted
  BY <1>1, <1>3, UpdateGossipsubScoresEffect
<1>5. S \subseteq Peers /\ \A p \in S : db.status[p] = "Connected"
  BY DEF Transition, Connected, InState
<1>6. ASSUME NEW p \in Peers
      PROVE  \/ p \in B /\ p \notin D /\ p \notin U /\ db.status[p] = "Connected" /\ sc[p] = "Banned"
                  /\ db.score[p] # "Banned"
             \/ p \in D /\ p \notin B /\ p \notin U /\ db.status[p] = "Connected" /\ sc[p] = "Disconnected"
             \/ p \in U /\ p \notin B /\ p \notin D /\ db.status[p] = "Connected" /\ sc[p] # "Banned"
                  /\ db.score[p] = "Banned"
             \/ p \notin S /\ (sc[p] = "Banned" <=> db.score[p] = "Banned")
  <2>1. CASE db.status[p] = "Connected"
    <3> PICK r : r = handle_score_transition(db.score[p], sc[p], "Connected")
      OBVIOUS
    <3>1. (p \in B <=> r = "Banned") /\ (p \in D <=> r = "Disconnected") /\ (p \in U <=> r = "Unbanned")
      BY <2>1 DEF Transition, Connected, InState
    <3> HIDE DEF B, D, U
    <3>2. \/ r = "Banned" /\ sc[p] = "Banned" /\ db.score[p] # "Banned"
          \/ r = "Disconnected" /\ sc[p] = "Disconnected"
          \/ r = "Unbanned" /\ sc[p] # "Banned" /\ db.score[p] = "Banned"
          \/ r = "NoAction" /\ (sc[p] = "Banned" <=> db.score[p] = "Banned")
      BY <1>3, <2>1, GossipTransition
    <3> QED BY <2>1, <3>1, <3>2
  <2>2. CASE db.status[p] # "Connected"
    BY <1>3, <1>5, <2>2
  <2> QED BY <2>1, <2>2
<1> DEFINE f == [p \in S |-> IF p \in U THEN "UnBanned" ELSE "DisconnectPeer"]
           s == [i \in DOMAIN o |-> Event(f[o[i]], o[i])]
<1> HIDE DEF B, D, U
<1>7. f \in [S -> EventKinds] /\ \A p \in S : f[p] = IF p \in U THEN "UnBanned" ELSE "DisconnectPeer"
  BY DEF EventKinds
<1>8. \A i \in DOMAIN o : o[i] \in S
  BY <1>5, OrderHasAll
<1> HIDE DEF f, S
<1>9. s = [i \in DOMAIN o |-> Event(IF o[i] \in U THEN "UnBanned" ELSE "DisconnectPeer", o[i])]
  BY <1>7, <1>8
<1>10. s \in Seq(Events)
  <2>1. DOMAIN o = 1 .. Cardinality(S) /\ Cardinality(S) \in Nat
    BY <1>5, OrderHasAll
  <2>2. \A i \in DOMAIN o : Event(f[o[i]], o[i]) \in Events
    BY <1>5, <1>7, <1>8, EventType
  <2> QED BY <2>1, <2>2
<1>11. \A p \in Peers :
         /\ Speaks(s, p, IF p \in S /\ f[p] \in BanKinds THEN f[p] ELSE "None",
                         IF p \in S /\ f[p] \in PeerKinds THEN f[p] ELSE "None")
         /\ Bye(s, p) <=> p \in S /\ f[p] \in GoodbyeKinds
  BY <1>5, <1>7, SpeaksOrderOf
<1> HIDE DEF s
<1>12. ASSUME NEW p \in Peers
       PROVE  /\ Speaks(s, p, IF p \in U THEN "UnBanned" ELSE "None", "None")
              /\ p \in B \cup D => p \in U \/ Bye(s, p)
  <2>1. CASE p \in S
    <3>1. f[p] = IF p \in U THEN "UnBanned" ELSE "DisconnectPeer"
      BY <1>7, <2>1
    <3> QED BY <1>11, <2>1, <3>1 DEF BanKinds, PeerKinds, GoodbyeKinds
  <2>2. CASE p \notin S
    BY <1>11, <2>2 DEF S
  <2> QED BY <2>1, <2>2
<1>13. ASSUME NEW p \in Peers PROVE Moves(p, s)
  <2>1. CASE p \in B /\ p \notin D /\ p \notin U /\ db.status[p] = "Connected" /\ sc[p] = "Banned"
              /\ db.score[p] # "Banned"
    <3>1. BanAnnounced(p, s)
      BY <1>4, <1>12, <2>1 DEF BanAnnounced
    <3> QED BY <1>3, <2>1, <3>1 DEF Moves, Reported
  <2>2. CASE p \in D /\ p \notin B /\ p \notin U /\ db.status[p] = "Connected" /\ sc[p] = "Disconnected"
    <3>1. Warned(p, s)
      BY <1>4, <1>12, <2>2 DEF Warned
    <3> QED BY <1>3, <2>2, <3>1 DEF Moves, Reported
  <2>3. CASE p \in U /\ p \notin B /\ p \notin D /\ db.status[p] = "Connected" /\ sc[p] # "Banned"
              /\ db.score[p] = "Banned"
    <3>1. Relieved(p, s)
      BY <1>3, <1>4, <1>12, <2>3 DEF Relieved, SameConn
    <3> QED BY <3>1 DEF Moves
  <2>4. CASE p \notin S /\ (sc[p] = "Banned" <=> db.score[p] = "Banned")
    <3>1. Rests(p, s)
      BY <1>3, <1>4, <1>12, <2>4 DEF Rests, Unmoved, SameConn, S
    <3> QED BY <3>1 DEF Moves
  <2> QED BY <1>6, <2>1, <2>2, <2>3, <2>4 DEF S
<1>14. ASSUME NEW p \in Peers PROVE TimerStep(p)
  <2>1. db.status[p] \in Registered => db'.status[p] \in Registered
    BY <1>4 DEF Registered
  <2> QED BY <1>3, <2>1, TimersShrink
<1> QED BY <1>2, <1>3, <1>9, <1>10, <1>13, <1>14 DEF Effects, Effect, ClosingStep

\* A new connection has these effects.
LEMMA ConnectionEstablishedEffect ==
    ASSUME IInv, NEW p \in Peers, NEW incoming \in BOOLEAN, NEW socket \in Sockets,
           p \notin conn \cup swarm_banned, ConnectionEstablished(p, incoming, socket)
    PROVE  Effects
<1>1. /\ db \in Databases /\ db.status \in [Peers -> Statuses] /\ db.score \in [Peers -> Scores]
      /\ conn \subseteq Peers
  BY DEF IInv, Sound, Databases, SwarmOK
<1>2. conn' = conn \cup {p} /\ closing' = closing /\ NewConnection(p)
      /\ \A q \in Peers \ {p} : SameConn(q)
  BY DEF ConnectionEstablished, NewConnection, SameConn
<1>3. CASE ban_status(db, p) # "NotBanned" /\ goodbye_peer(p) /\ UNCHANGED status_peers
  <2> PICK sc : sc = FatalScore(db, p)
    OBVIOUS
  <2>1. /\ sc \in PenaltyScores(db, p) /\ ReportWithScore(p, sc) /\ db.status[p] # "Absent"
        /\ sc = "Banned" \/ Exempt(db, p)
    BY <1>1, <1>3, FatalIsPenalty DEF goodbye_peer, ban_status
  <2>2. /\ db'.score = [db.score EXCEPT ![p] = sc] /\ db'.trusted = db.trusted
        /\ ping_peers' \subseteq ping_peers
    BY <2>1, PenaltyEffect
  <2>3. PICK s \in Seq(Events) :
          /\ events' = events \o s
          /\ Penalised(p, s)
          /\ \A q \in Peers \ {p} : Unmoved(q, s)
    BY <2>1, PenaltyEffect
  <2>4. Moves(p, s)
    <3>1. CASE Unmoved(p, s)
      <4>1. db.score[p] = "Banned" \/ Exempt(db, p)
        BY <1>1, <2>1, <2>2, <3>1 DEF Unmoved
      <4> QED BY <1>2, <1>3, <3>1, <4>1 DEF Moves, Ignored
    <3>2. CASE ~Unmoved(p, s)
      BY <1>2, <2>3, <3>2 DEF Penalised, Moves, Reported
    <3> QED BY <3>1, <3>2
  <2>5. \A q \in Peers \ {p} : Moves(q, s)
    BY <1>2, <2>3 DEF Moves, Rests
  <2>6. ASSUME NEW q \in Peers PROVE TimerStep(q)
    <3>1. db.status[q] \in Registered => db'.status[q] \in Registered
      BY <2>3 DEF Penalised, Unmoved, Warned, BanAnnounced, BannedAtOnce, Registered
    <3> QED BY <1>3, <2>2, <3>1, TimersShrink
  <2> QED BY <1>2, <2>3, <2>4, <2>5, <2>6 DEF Effects, Effect, ClosingStep
<1>4. ASSUME ban_status(db, p) = "NotBanned" PROVE db.score[p] # "Banned" \/ db.status[p] = "Absent"
  BY <1>1, <1>4 DEF ban_status
<1>5. CASE ban_status(db, p) = "NotBanned" /\ disconnect_peer(p) /\ UNCHANGED <<ping_peers, status_peers>>
  <2> DEFINE s == <<Event("DisconnectPeer", p)>>
  <2>1. events' = events \o s /\ db' = ToDisconnecting(db, p)
    BY <1>5 DEF disconnect_peer, Push
  <2>2. /\ s \in Seq(Events) /\ Bye(s, p)
        /\ \A q \in Peers : Speaks(s, q, "None", "None")
    BY SpeaksOne DEF EventKinds, BanKinds, PeerKinds, GoodbyeKinds
  <2> HIDE DEF s
  <2>3. /\ db'.status = [db.status EXCEPT ![p] = "Disconnecting"]
        /\ db'.score = db.score /\ db'.trusted = db.trusted
    BY <1>1, <2>1, ToDisconnectingEffect DEF KeepsRecords
  <2>4. Moves(p, s)
    BY <1>1, <1>2, <1>4, <1>5, <2>2, <2>3 DEF Moves, Joins
  <2>5. \A q \in Peers \ {p} : Moves(q, s)
    BY <1>1, <1>2, <2>2, <2>3 DEF Moves, Rests, Unmoved
  <2>6. ASSUME NEW q \in Peers PROVE TimerStep(q)
    <3>1. db.status[q] \in Registered => db'.status[q] \in Registered
      BY <1>1, <2>3 DEF Registered
    <3> QED BY <1>5, <3>1, TimersShrink
  <2> QED BY <1>2, <2>1, <2>2, <2>4, <2>5, <2>6 DEF Effects, Effect, ClosingStep
<1>6. CASE ban_status(db, p) = "NotBanned" /\ inject_peer_connection(p, socket)
             /\ Push(<<Event("PeerConnected", p)>>)
  <2> DEFINE s == <<Event("PeerConnected", p)>>
  <2>1. events' = events \o s /\ db' = ToConnected(db, p, socket)
        /\ ping_peers' = ping_peers \cup {p} /\ status_peers' = status_peers \cup {p}
    BY <1>6 DEF inject_peer_connection, Push
  <2>2. /\ s \in Seq(Events) /\ Speaks(s, p, "None", "PeerConnected")
        /\ \A q \in Peers \ {p} : Speaks(s, q, "None", "None")
    BY SpeaksOne DEF EventKinds, BanKinds, PeerKinds
  <2> HIDE DEF s
  <2>3. /\ db'.status = [db.status EXCEPT ![p] = "Connected"]
        /\ db'.score = db.score /\ db'.trusted = db.trusted
    <3>1. db \in Databases
      BY <1>1
    <3>2. PICK e : e = ToConnected(db, p, socket)
      OBVIOUS
    <3>3. e.status = [db.status EXCEPT ![p] = "Connected"]
      BY <3>1, <3>2, ToConnectedEffect
    <3>4. e.score = db.score /\ e.trusted = db.trusted
      BY <3>1, <3>2, ToConnectedEffect
    <3> QED BY <2>1, <3>2, <3>3, <3>4
  <2>4. Moves(p, s)
    BY <1>1, <1>2, <1>4, <1>6, <2>2, <2>3 DEF Moves, Joins
  <2>5. \A q \in Peers \ {p} : Moves(q, s)
    BY <1>1, <1>2, <2>2, <2>3 DEF Moves, Rests, Unmoved
  <2>6. \A q \in Peers : TimerStep(q)
    BY <1>1, <2>1, <2>3 DEF TimerStep, HasTimers, Registered
  <2> QED BY <1>2, <2>1, <2>2, <2>4, <2>5, <2>6 DEF Effects, Effect, ClosingStep
<1> QED BY <1>3, <1>5, <1>6 DEF ConnectionEstablished

\* A step that neither queues an event nor touches the database, a connection or a timer.
LEMMA NothingMoves ==
    ASSUME IInv, events' = events, db' = db, conn' = conn, closing' = closing,
           ping_peers' \subseteq ping_peers, status_peers' \subseteq status_peers
    PROVE  Effects
<1>1. events' = events \o <<>> /\ <<>> \in Seq(Events)
  BY ConcatEmptySeq DEF IInv, QueuesOK
<1>2. ASSUME NEW p \in Peers PROVE Effect(p, <<>>)
  <2>1. Moves(p, <<>>)
    BY SpeaksNothing DEF Moves, Rests, Unmoved, SameConn
  <2>2. TimerStep(p)
    BY TimersShrink
  <2> QED BY <2>1, <2>2 DEF Effect, ClosingStep
<1> QED BY <1>1, <1>2 DEF Effects

\* A disconnection, or a dial that fails, of a peer that is not registered as connected
\* unless its connection closes.
LEMMA DisconnectEffects ==
    ASSUME IInv, NEW p \in Peers, NEW first, NEW word, Opens(first, p, word),
           InjectDisconnect(db, p, first),
           db.status[p] = "Connected" => p \notin conn',
           p \in conn' => p \in conn,
           \A q \in Peers \ {p} : SameConn(q) /\ ClosingStep(q), ClosingStep(p)
    PROVE  Effects
<1>1. Disconnects(db, p, word) /\ word \in {"None", "PeerDisconnected"}
  BY InjectDisconnectEffect DEF IInv, Opens
<1>2. PICK s \in Seq(Events) :
        /\ events' = events \o s
        /\ Ended(db, p, s, word)
        /\ \A q \in Peers \ {p} : Spared(db, q, s)
  BY <1>1, Zenon DEF Disconnects
<1>3. Moves(p, s)
  BY <1>1, <1>2 DEF Moves, Ends
<1>4. ASSUME NEW q \in Peers \ {p} PROVE Moves(q, s)
  BY <1>2 DEF Spared, Moves, Rests, Unmoved, Forgets
<1>5. ASSUME NEW q \in Peers PROVE TimerStep(q)
  <2>1. CASE q = p
    BY <1>1, <2>1 DEF TimerStep, HasTimers, Disconnects
  <2>2. CASE q # p
    <3>1. db.status[q] \in Registered => db'.status[q] \in Registered
      BY <1>2, <2>2 DEF Spared, Purged, Registered
    <3> QED BY <1>1, <3>1, TimersShrink DEF Disconnects
  <2> QED BY <2>1, <2>2
<1> QED BY <1>2, <1>3, <1>4, <1>5 DEF Effects, Effect

\* ConnectionClosed has these effects.
LEMMA ConnectionClosedEffect ==
    ASSUME IInv, NEW p \in Peers, ConnectionClosed(p)
    PROVE  Effects
<1>1. conn' = conn \ {p} /\ closing' = closing \ {p}
  BY DEF ConnectionClosed
<1>2. /\ p \notin conn' /\ ClosingStep(p)
      /\ \A q \in Peers \ {p} : SameConn(q) /\ ClosingStep(q)
  BY <1>1 DEF SameConn, ClosingStep
<1>3. CASE is_connected_or_disconnecting(db, p)
  <2>1. InjectDisconnect(db, p, <<Event("PeerDisconnected", p)>>)
    BY <1>3 DEF ConnectionClosed
  <2>2. Opens(<<Event("PeerDisconnected", p)>>, p, "PeerDisconnected")
    BY SpeaksOne DEF EventKinds, BanKinds, PeerKinds, Opens
  <2> QED BY <1>2, <2>1, <2>2, DisconnectEffects
<1>4. CASE ~is_connected_or_disconnecting(db, p)
  <2>1. InjectDisconnect(db, p, <<>>)
    BY <1>4 DEF ConnectionClosed
  <2>2. Opens(<<>>, p, "None")
    BY SpeaksNothing DEF Opens
  <2> QED BY <1>2, <2>1, <2>2, DisconnectEffects
<1> QED BY <1>3, <1>4

\* DialFails has these effects.
LEMMA DialFailsEffect ==
    ASSUME IInv, NEW p \in Peers, DialFails(p)
    PROVE  Effects
<1>1. conn' = conn /\ closing' = closing /\ InjectDialFailure(db, p)
  BY DEF DialFails
<1>2. CASE is_connected(db, p)
  BY <1>1, <1>2, NothingMoves DEF InjectDialFailure
<1>3. CASE ~is_connected(db, p)
  <2>1. InjectDisconnect(db, p, <<>>) /\ db.status[p] # "Connected"
    BY <1>1, <1>3 DEF InjectDialFailure, is_connected
  <2>2. \A q \in Peers : SameConn(q) /\ ClosingStep(q)
    BY <1>1 DEF SameConn, ClosingStep
  <2>3. Opens(<<>>, p, "None")
    BY SpeaksNothing DEF Opens
  <2> QED BY <1>1, <2>1, <2>2, <2>3, DisconnectEffects
<1> QED BY <1>2, <1>3

\* RpcRequest has these effects.
LEMMA RpcRequestEffect ==
    ASSUME IInv, NEW p \in Peers, RpcRequest(p)
    PROVE  Effects
<1>1. /\ db' = db /\ events' = events /\ conn' = conn /\ closing' = closing
      /\ db.status[p] = "Connected"
      /\ ping_peers' \subseteq ping_peers \cup {p} /\ status_peers' \subseteq status_peers \cup {p}
  BY DEF RpcRequest, is_connected, swarmVars
<1>2. events' = events \o <<>> /\ <<>> \in Seq(Events)
  BY <1>1, ConcatEmptySeq DEF IInv, QueuesOK
<1>3. ASSUME NEW q \in Peers PROVE Effect(q, <<>>)
  <2>1. Moves(q, <<>>)
    BY <1>1, SpeaksNothing DEF Moves, Rests, Unmoved, SameConn
  <2>2. TimerStep(q)
    BY <1>1 DEF TimerStep, HasTimers, Registered
  <2> QED BY <1>1, <2>1, <2>2 DEF Effect, ClosingStep
<1> QED BY <1>2, <1>3 DEF Effects

\* PeersDiscovered has these effects.
LEMMA PeersDiscoveredEffect ==
    ASSUME IInv, NEW found \in SUBSET Peers, NEW needed \in SUBSET found,
           PeersDiscovered(found, needed)
    PROVE  Effects
<1>1. PICK D \in SUBSET Peers : db' = update_min_ttl(db, D \cap needed)
  BY DEF PeersDiscovered
<1>2. /\ events' = events /\ ping_peers' = ping_peers /\ status_peers' = status_peers
      /\ conn' = conn /\ closing' = closing
  BY DEF PeersDiscovered, swarmVars
<1>3. db \in Databases
  BY DEF IInv, Sound
<1> PICK S : S = D \cap needed
  OBVIOUS
<1>4. /\ db'.status = [p \in Peers |-> IF p \in S /\ db.status[p] = "Absent" THEN "Unknown"
                                       ELSE db.status[p]]
      /\ db'.score = db.score /\ db'.trusted = db.trusted
  BY <1>1, <1>3, UpdateMinTtlEffect DEF KeepsRecords
<1>5. events' = events \o <<>> /\ <<>> \in Seq(Events)
  BY <1>2, ConcatEmptySeq DEF IInv, QueuesOK
<1>6. ASSUME NEW p \in Peers PROVE Effect(p, <<>>)
  <2>1. Speaks(<<>>, p, "None", "None") /\ SameConn(p)
    BY <1>2, SpeaksNothing DEF SameConn
  <2>2. CASE p \in S /\ db.status[p] = "Absent"
    <3>1. Appears(p, <<>>)
      BY <1>4, <2>1, <2>2 DEF Appears
    <3>2. TimerStep(p)
      BY <1>2, <2>2, TimersShrink DEF Registered
    <3> QED BY <1>2, <1>4, <3>1, <3>2 DEF Effect, Moves, ClosingStep
  <2>3. CASE ~(p \in S /\ db.status[p] = "Absent")
    <3>1. db'.status[p] = db.status[p]
      BY <1>4, <2>3
    <3>2. Rests(p, <<>>)
      BY <1>4, <2>1, <3>1 DEF Rests, Unmoved
    <3>3. TimerStep(p)
      BY <1>2, <3>1, TimersShrink
    <3> QED BY <1>2, <1>4, <3>2, <3>3 DEF Effect, Moves, ClosingStep
  <2> QED BY <2>2, <2>3
<1> QED BY <1>5, <1>6 DEF Effects

\* IncomingConnection has these effects.
LEMMA IncomingConnectionEffect ==
    ASSUME IInv, NEW p \in Peers, IncomingConnection(p)
    PROVE  Effects
<1>1. PICK socket \in Sockets : ConnectionEstablished(p, TRUE, socket)
  BY DEF IncomingConnection
<1>2. p \notin conn \cup swarm_banned
  BY DEF IncomingConnection
<1> QED BY <1>1, <1>2, ConnectionEstablishedEffect

\* DialSucceeds has these effects.
LEMMA DialSucceedsEffect ==
    ASSUME IInv, NEW p \in Peers, DialSucceeds(p)
    PROVE  Effects
<1>1. PICK socket \in Sockets : ConnectionEstablished(p, FALSE, socket)
  BY DEF DialSucceeds
<1>2. p \notin conn \cup swarm_banned
  BY DEF DialSucceeds
<1> QED BY <1>1, <1>2, ConnectionEstablishedEffect

\* DialReachesBannedPeer has these effects.
LEMMA DialReachesBannedPeerEffect ==
    ASSUME IInv, NEW p \in Peers, DialReachesBannedPeer(p)
    PROVE  Effects
BY NothingMoves DEF DialReachesBannedPeer, pmVars

\* DialCachedEnr has these effects.
LEMMA DialCachedEnrEffect ==
    ASSUME IInv, NEW p \in Peers, DialCachedEnr(p)
    PROVE  Effects
BY NothingMoves DEF DialCachedEnr, swarmVars

\* PollDial has these effects.
LEMMA PollDialEffect ==
    ASSUME IInv, PollDial
    PROVE  Effects
<1> PICK h : h = Head(peers_to_dial)
  OBVIOUS
<1>1. /\ peers_to_dial \in Seq([peer : Peers, trusted : BOOLEAN]) /\ peers_to_dial # <<>>
      /\ events = <<>> /\ conn' = conn /\ closing' = closing
      /\ peers_to_dial' = Tail(peers_to_dial)
  BY DEF PollDial, IInv, QueuesOK
<1>2. /\ h \in [peer : Peers, trusted : BOOLEAN]
      /\ Len(Tail(peers_to_dial)) = Len(peers_to_dial) - 1 /\ Len(peers_to_dial) \in Nat
  <2>1. PICK T : T = [peer : Peers, trusted : BOOLEAN]
    OBVIOUS
  <2>2. peers_to_dial \in Seq(T) /\ peers_to_dial # <<>>
    BY <1>1, <2>1
  <2>3. /\ h \in T
        /\ Len(Tail(peers_to_dial)) = Len(peers_to_dial) - 1 /\ Len(peers_to_dial) \in Nat
    BY <2>2, HeadTailProperties, LenProperties
  <2> QED BY <2>1, <2>3
<1>3. peers_to_dial' # peers_to_dial
  <2>1. PICK m, n : m = Len(peers_to_dial) /\ n = Len(Tail(peers_to_dial))
    OBVIOUS
  <2>2. n = m - 1 /\ m \in Nat
    BY <1>2, <2>1
  <2>3. m # n
    BY <2>2
  <2>4. Tail(peers_to_dial) # peers_to_dial
    BY <2>1, <2>3, Zenon
  <2> QED BY <1>1, <2>4
<1> PICK p \in Peers : p = h.peer
  BY <1>2
<1> PICK tr \in BOOLEAN : tr = h.trusted
  BY <1>2
<1> PICK d : d = ToDialing(db, p, tr)
  OBVIOUS
<1>4. /\ p \in conn \cup swarm_banned => InjectDialFailure(d, p)
      /\ p \notin conn \cup swarm_banned =>
           db' = d /\ UNCHANGED <<events, ping_peers, status_peers>>
  BY DEF PollDial
<1>5. tr = TRUE => \E i \in DOMAIN peers_to_dial : peers_to_dial[i].trusted
  <2>1. 1 \in DOMAIN peers_to_dial /\ h = peers_to_dial[1]
    BY <1>1, EmptySeq, LenProperties
  <2> QED BY <2>1
<1>6. /\ Sound(d)
      /\ d.status[p] = IF db.status[p] \in {"Absent", "Unknown", "Disconnected", "Banned"}
                       THEN "Dialing" ELSE db.status[p]
      /\ d.score[p] = IF db.status[p] = "Absent" /\ tr = TRUE THEN "Max" ELSE db.score[p]
      /\ \A q \in Peers \ {p} : d.status[q] = db.status[q] /\ d.score[q] = db.score[q]
      /\ \A q \in Peers : d.trusted[q] => db.trusted[q] \/ tr = TRUE
  <2>1. Sound(db) /\ db \in Databases
    BY DEF IInv, Sound
  <2>2. Sound(d)
    BY <2>1, ToDialingSound
  <2>3. Dialed(db, d, p, tr)
    BY <2>1, ToDialingEffect
  <2> QED BY <2>2, <2>3 DEF Dialed
<1>7. \A q \in Peers : SameConn(q) /\ ClosingStep(q)
  BY <1>1 DEF SameConn, ClosingStep
<1>9. CASE db' = d /\ UNCHANGED <<events, ping_peers, status_peers>>
             /\ (p \notin conn \cup swarm_banned \/ d.status[p] = "Connected")
  <2>1. events' = events \o <<>> /\ <<>> \in Seq(Events) /\ \A q \in Peers : Speaks(<<>>, q, "None", "None")
    BY <1>9, ConcatEmptySeq, SpeaksNothing DEF IInv, QueuesOK
  <2>2. ASSUME NEW q \in Peers \ {p} PROVE Moves(q, <<>>)
    BY <1>6, <1>7, <1>9, <2>1 DEF Moves, Rests, Unmoved
  <2>3. Moves(p, <<>>)
    <3>1. CASE db.status[p] \in {"Absent", "Unknown", "Disconnected", "Banned"}
      <4>1. db'.status[p] = "Dialing" /\ db'.score[p] \in {db.score[p], "Max"} /\ p \notin conn \cup swarm_banned
        BY <1>6, <1>9, <3>1
      <4> QED BY <1>1, <1>3, <1>7, <2>1, <3>1, <4>1 DEF Moves, Dials
    <3>2. CASE db.status[p] \notin {"Absent", "Unknown", "Disconnected", "Banned"}
      <4>1. db'.status[p] = db.status[p] /\ db'.score[p] = db.score[p]
        BY <1>6, <1>9, <3>2
      <4> QED BY <1>7, <2>1, <4>1 DEF Moves, Rests, Unmoved
    <3> QED BY <3>1, <3>2
  <2>4. ASSUME NEW q \in Peers PROVE TimerStep(q)
    <3>1. db.status[q] \in Registered => db'.status[q] \in Registered
      BY <1>6, <1>9 DEF Registered
    <3> QED BY <1>9, <3>1, TimersShrink
  <2> QED BY <1>7, <2>1, <2>2, <2>3, <2>4 DEF Effects, Effect
<1>10. CASE InjectDisconnect(d, p, <<>>) /\ d.status[p] # "Connected"
  <2>1. Opens(<<>>, p, "None")
    BY SpeaksNothing DEF Opens
  <2>2. Disconnects(d, p, "None")
    BY <1>6, <1>10, <2>1, InjectDisconnectEffect
  <2>4. PICK s \in Seq(Events) :
          /\ events' = events \o s
          /\ Ended(d, p, s, "None")
          /\ \A q \in Peers \ {p} : Spared(d, q, s)
    BY <2>2, Zenon DEF Disconnects
  <2>5. ASSUME NEW q \in Peers \ {p} PROVE Moves(q, s)
    <3>1. Spared(d, q, s) /\ d.status[q] = db.status[q] /\ d.score[q] = db.score[q]
      BY <1>6, <2>4
    <3> QED BY <1>7, <3>1 DEF Spared, Purged, Moves, Rests, Unmoved, Forgets
  <2>6. Moves(p, s)
    <3>1. CASE db.status[p] \in {"Absent", "Unknown", "Disconnected", "Banned"}
      <4>1. d.status[p] = "Dialing" /\ d.score[p] \in {db.score[p], "Max"}
        BY <1>6, <3>1
      <4>2. /\ db'.status[p] \in {"Absent", "Disconnected"}
            /\ db'.score[p] \in {db.score[p], "Max", "Healthy"}
            /\ db'.status[p] = "Absent" => db'.score[p] = "Healthy"
            /\ Speaks(s, p, "None", "None")
        BY <2>4, <4>1 DEF Ended, Purged
      <4> QED BY <1>1, <1>3, <1>7, <3>1, <4>2 DEF Moves, Dials
    <3>2. CASE db.status[p] \notin {"Absent", "Unknown", "Disconnected", "Banned"}
      <4>1. d.status[p] = db.status[p] /\ d.score[p] = db.score[p] /\ db.status[p] # "Connected"
        BY <1>6, <1>10, <3>2
      <4>2. \E word \in {"None", "PeerDisconnected"} : Ended(db, p, s, word)
        BY <2>4, <4>1 DEF Ended, Purged
      <4> QED BY <1>7, <4>1, <4>2 DEF Moves, Ends, SameConn
    <3> QED BY <3>1, <3>2
  <2>7. ASSUME NEW q \in Peers PROVE TimerStep(q)
    <3>1. CASE q = p
      BY <2>2, <3>1 DEF TimerStep, HasTimers, Disconnects
    <3>2. CASE q # p
      <4>1. Spared(d, q, s) /\ d.status[q] = db.status[q]
        BY <1>6, <2>4, <3>2
      <4>2. db'.status[q] = db.status[q] \/ db.status[q] \in {"Banned", "Disconnected"}
        BY <4>1 DEF Spared
      <4>3. db.status[q] \in Registered => db'.status[q] \in Registered
        BY <4>2 DEF Registered
      <4> QED BY <2>2, <4>3, TimersShrink DEF Disconnects
    <3> QED BY <3>1, <3>2
  <2> QED BY <1>7, <2>4, <2>5, <2>6, <2>7 DEF Effects, Effect
<1> QED BY <1>4, <1>9, <1>10 DEF InjectDialFailure, is_connected

\* What a decay amounts to.
LEMMA DecayTransition ==
    ASSUME NEW old \in Scores, NEW new \in Scores, NEW st \in Statuses, NEW result,
           result = handle_score_transition(old, new, st)
    PROVE  /\ result = "Unbanned" => old = "Banned" /\ new # "Banned"
           /\ st = "Banned" /\ old = "Banned" /\ new # "Banned" => result = "Unbanned"
BY DEF handle_score_transition, Scores, Statuses

\* Scores after a decay.
LEMMA DecayedBetter ==
    ASSUME NEW d \in Databases, NEW sc \in DecayedScores(d), NEW p \in Peers
    PROVE  /\ sc[p] \in Scores
           /\ sc[p] = "Banned" => d.score[p] = "Banned"
           /\ sc[p] = "Max" => d.score[p] = "Max" \/ d.trusted[p]
           /\ d.status[p] = "Absent" => sc[p] = d.score[p]
<1>1. d.score[p] \in Scores /\ sc[p] \in Scores
  BY DEF Databases, DecayedScores
<1>2. IF Exempt(d, p) \/ d.status[p] = "Absent" THEN sc[p] = d.score[p]
      ELSE sc[p] # "Max" /\ Rank(sc[p]) >= Rank(d.score[p])
  BY DEF DecayedScores
<1>3. CASE Exempt(d, p) \/ d.status[p] = "Absent"
  BY <1>1, <1>2, <1>3
<1>4. CASE ~(Exempt(d, p) \/ d.status[p] = "Absent")
  <2>1. sc[p] # "Max" /\ Rank(sc[p]) >= Rank(d.score[p])
    BY <1>2, <1>4
  <2>2. sc[p] = "Banned" => d.score[p] = "Banned"
    BY <1>1, <2>1 DEF Rank, Scores
  <2> QED BY <1>1, <1>4, <2>1, <2>2
<1> QED BY <1>3, <1>4

\* Heartbeat has these effects.
LEMMA HeartbeatEffect ==
    ASSUME IInv, Heartbeat
    PROVE  Effects
<1>1. PICK T \in SUBSET Dialing(db) :
        LET cleaned == cleanup_dialing_peers(db, T)
        IN  \E sc \in DecayedScores(cleaned) :
                LET decayed == update_scores(cleaned, sc)
                    unbanned == Transition(cleaned, sc, Known(cleaned), "Unbanned")
                IN  \E P \in SUBSET Connected(decayed) :
                    \E u \in Orders(unbanned), o \in Orders(P) :
                        /\ BanOutlastsDisconnect =>
                             \A p \in closing \cup InState(db, {"DisconnectingToBan"}) :
                                 db.score[p] = "Banned" => sc[p] = "Banned"
                        /\ Prunable(decayed, P)
                        /\ db' = ToDisconnectingAll(decayed, P)
                        /\ Push(UnbanEvents(u) \o EventsOf("DisconnectPeer", o))
                        /\ UNCHANGED <<peers_to_dial, ping_peers, status_peers,
                                       swarmVars, informed>>
  BY Zenon DEF Heartbeat
<1> PICK c : c = cleanup_dialing_peers(db, T)
  OBVIOUS
<1>2. PICK sc \in DecayedScores(c) :
        \E P \in SUBSET Connected(update_scores(c, sc)) :
        \E u \in Orders(Transition(c, sc, Known(c), "Unbanned")), o \in Orders(P) :
            /\ BanOutlastsDisconnect =>
                 \A p \in closing \cup InState(db, {"DisconnectingToBan"}) :
                     db.score[p] = "Banned" => sc[p] = "Banned"
            /\ db' = ToDisconnectingAll(update_scores(c, sc), P)
            /\ Push(UnbanEvents(u) \o EventsOf("DisconnectPeer", o))
            /\ UNCHANGED <<peers_to_dial, ping_peers, status_peers, swarmVars, informed>>
  BY <1>1, Zenon
<1> PICK e : e = update_scores(c, sc)
  OBVIOUS
<1> PICK U : U = Transition(c, sc, Known(c), "Unbanned")
  OBVIOUS
<1>pick. PICK P \in SUBSET Connected(e) : \E u \in Orders(U), o \in Orders(P) :
            /\ BanOutlastsDisconnect =>
                 \A p \in closing \cup InState(db, {"DisconnectingToBan"}) :
                     db.score[p] = "Banned" => sc[p] = "Banned"
            /\ db' = ToDisconnectingAll(e, P)
            /\ Push(UnbanEvents(u) \o EventsOf("DisconnectPeer", o))
            /\ UNCHANGED <<peers_to_dial, ping_peers, status_peers, swarmVars, informed>>
  BY <1>2, Zenon
<1>3. PICK u \in Orders(U), o \in Orders(P) :
            /\ BanOutlastsDisconnect =>
                 \A p \in closing \cup InState(db, {"DisconnectingToBan"}) :
                     db.score[p] = "Banned" => sc[p] = "Banned"
            /\ db' = ToDisconnectingAll(e, P)
            /\ Push(UnbanEvents(u) \o EventsOf("DisconnectPeer", o))
            /\ UNCHANGED <<peers_to_dial, ping_peers, status_peers, swarmVars, informed>>
  BY <1>pick, Zenon
<1>4. /\ db \in Databases /\ Sound(c) /\ c \in Databases
      /\ c.status = [p \in Peers |-> IF p \in T THEN "Disconnected" ELSE db.status[p]]
      /\ c.score = db.score /\ c.trusted = db.trusted
  <2>1. Sound(db) /\ db \in Databases
    BY DEF IInv, Sound
  <2>2. Sound(c) /\ c \in Databases
    BY <2>1, CleanupSound DEF Sound
  <2> QED BY <2>1, <2>2, CleanupEffect DEF KeepsRecords
<1>5. /\ e.status = [p \in Peers |-> IF p \in U /\ c.status[p] = "Banned" THEN "Disconnected"
                                     ELSE c.status[p]]
      /\ e.score = sc /\ e.trusted = c.trusted
  BY <1>4, UpdateScoresEffect
<1>6. e \in Databases
  <2>1. sc \in [Peers -> Scores]
    BY DEF DecayedScores
  <2> QED BY <1>4, <2>1, UpdateScoresSound DEF Sound
<1>7. /\ db'.status = [p \in Peers |-> IF p \in P THEN "Disconnecting" ELSE e.status[p]]
      /\ db'.score = sc /\ db'.trusted = db.trusted
  BY <1>3, <1>4, <1>5, <1>6, ToDisconnectingAllEffect DEF KeepsRecords
<1>8. /\ T \subseteq Peers /\ \A p \in T : db.status[p] = "Dialing"
      /\ P \subseteq Peers /\ \A p \in P : e.status[p] = "Connected"
      /\ U \subseteq Peers
  BY DEF Dialing, Connected, InState, Transition, Known
<1>9. /\ conn' = conn /\ closing' = closing /\ ping_peers' = ping_peers /\ status_peers' = status_peers
  BY <1>3 DEF swarmVars
<1> DEFINE s1 == UnbanEvents(u)
           s2 == EventsOf("DisconnectPeer", o)
           s == s1 \o s2
<1>10. events' = events \o s
  BY <1>3 DEF Push
<1>11. /\ s1 \in Seq(Events)
       /\ \A p \in Peers : Speaks(s1, p, IF p \in U THEN "UnBanned" ELSE "None", "None")
  <2>1. /\ "UnBanned" \in EventKinds /\ "UnBanned" \in BanKinds /\ "UnBanned" \notin PeerKinds
        /\ s1 = EventsOf("UnBanned", u)
    BY DEF UnbanEvents, EventKinds, BanKinds, PeerKinds
  <2> HIDE DEF s1
  <2>2. s1 \in Seq(Events)
    BY <1>8, <2>1, EventsOfType
  <2>3. ASSUME NEW p \in Peers
        PROVE  Speaks(s1, p, IF p \in U THEN "UnBanned" ELSE "None", "None")
    <3>1. Speaks(EventsOf("UnBanned", u), p,
                 IF p \in U /\ "UnBanned" \in BanKinds THEN "UnBanned" ELSE "None",
                 IF p \in U /\ "UnBanned" \in PeerKinds THEN "UnBanned" ELSE "None")
      BY <1>8, <2>1, SpeaksOrder
    <3> QED BY <2>1, <3>1
  <2> QED BY <2>2, <2>3
<1>12. /\ s2 \in Seq(Events)
       /\ \A p \in Peers : Speaks(s2, p, "None", "None")
       /\ \A p \in P : Bye(s2, p)
  <2>1. /\ "DisconnectPeer" \in EventKinds /\ "DisconnectPeer" \notin BanKinds
        /\ "DisconnectPeer" \notin PeerKinds /\ "DisconnectPeer" \in GoodbyeKinds
    BY DEF EventKinds, BanKinds, PeerKinds, GoodbyeKinds
  <2>2. s2 \in Seq(Events)
    BY <1>8, <2>1, EventsOfType
  <2>3. ASSUME NEW p \in Peers
        PROVE  Speaks(s2, p, "None", "None") /\ (p \in P => Bye(s2, p))
    <3>1. /\ Speaks(s2, p, IF p \in P /\ "DisconnectPeer" \in BanKinds THEN "DisconnectPeer" ELSE "None",
                           IF p \in P /\ "DisconnectPeer" \in PeerKinds THEN "DisconnectPeer" ELSE "None")
          /\ Bye(s2, p) <=> p \in P /\ "DisconnectPeer" \in GoodbyeKinds
      BY <1>8, <2>1, SpeaksOrder, Zenon
    <3> QED BY <2>1, <3>1
  <2> QED BY <1>8, <2>2, <2>3
<1> HIDE DEF s1, s2
<1>13. s \in Seq(Events)
  BY <1>11, <1>12, ConcatProperties
<1>14. ASSUME NEW p \in Peers
       PROVE  /\ Speaks(s, p, IF p \in U THEN "UnBanned" ELSE "None", "None")
              /\ p \in P => Bye(s, p)
  <2>1. Speaks(s1, p, IF p \in U THEN "UnBanned" ELSE "None", "None") /\ Speaks(s2, p, "None", "None")
    BY <1>11, <1>12
  <2> QED BY <1>11, <1>12, <2>1, SpeaksJoined DEF BanKinds, PeerKinds
<1> HIDE DEF s
<1>15. ASSUME NEW p \in Peers PROVE Effect(p, s)
  <2>1. db.status[p] \in Statuses /\ db.score[p] \in Scores /\ c.status[p] \in Statuses
    BY <1>4 DEF Databases
  <2>2. c.status[p] = IF p \in T THEN "Disconnected" ELSE db.status[p]
    BY <1>4
  <2>3. e.status[p] = IF p \in U /\ c.status[p] = "Banned" THEN "Disconnected" ELSE c.status[p]
    BY <1>5
  <2>4. db'.status[p] = (IF p \in P THEN "Disconnecting" ELSE e.status[p]) /\ db'.score[p] = sc[p]
    BY <1>7
  <2>5. /\ sc[p] \in Scores
        /\ sc[p] = "Banned" => db.score[p] = "Banned"
        /\ sc[p] = "Max" => db.score[p] = "Max" \/ db.trusted[p]
        /\ c.status[p] = "Absent" => sc[p] = db.score[p]
    <3>1. /\ sc[p] \in Scores
          /\ sc[p] = "Banned" => c.score[p] = "Banned"
          /\ sc[p] = "Max" => c.score[p] = "Max" \/ c.trusted[p]
          /\ c.status[p] = "Absent" => sc[p] = c.score[p]
      BY <1>4, DecayedBetter
    <3> QED BY <1>4, <3>1
  <2>6. /\ p \in U => db.score[p] = "Banned" /\ sc[p] # "Banned"
        /\ c.status[p] = "Banned" /\ db.score[p] = "Banned" /\ sc[p] # "Banned" => p \in U
    <3> PICK r : r = handle_score_transition(db.score[p], sc[p], c.status[p])
      OBVIOUS
    <3>1. p \in U <=> c.status[p] # "Absent" /\ r = "Unbanned"
      BY <1>4 DEF Transition, Known
    <3>2. /\ r = "Unbanned" => db.score[p] = "Banned" /\ sc[p] # "Banned"
          /\ c.status[p] = "Banned" /\ db.score[p] = "Banned" /\ sc[p] # "Banned" => r = "Unbanned"
      BY <2>1, <2>5, DecayTransition
    <3> QED BY <3>1, <3>2
  <2>7. BanOutlastsDisconnect /\ db.score[p] = "Banned"
           /\ (p \in closing \/ db.status[p] = "DisconnectingToBan")
         => sc[p] = "Banned"
    BY <1>3 DEF InState
  <2>8. p \in T => db.status[p] = "Dialing"
    BY <1>8
  <2>9. p \in P => db.status[p] = "Connected" /\ p \notin T
    BY <1>8, <2>2, <2>3
  <2>10. \/ db'.status[p] = db.status[p]
         \/ db.status[p] = "Dialing" /\ db'.status[p] = "Disconnected"
         \/ db.status[p] = "Connected" /\ db'.status[p] = "Disconnecting" /\ Bye(s, p)
         \/ db.status[p] = "Banned" /\ db'.status[p] = "Disconnected" /\ Speaks(s, p, "UnBanned", "None")
    BY <1>14, <2>2, <2>3, <2>4, <2>8, <2>9
  <2>11. db.status[p] = "Banned" /\ db.score[p] = "Banned" /\ db'.score[p] # "Banned"
         => db'.status[p] = "Disconnected"
    BY <2>2, <2>3, <2>4, <2>6, <2>8, <2>9
  <2>12. \/ Speaks(s, p, "None", "None")
         \/ db.score[p] = "Banned" /\ db'.score[p] # "Banned" /\ Speaks(s, p, "UnBanned", "None")
    BY <1>14, <2>4, <2>6
  <2>13. db.status[p] = "Absent" => db'.score[p] = db.score[p]
    BY <2>2, <2>4, <2>5, <2>8
  <2>14. Decays(p, s)
    BY <1>9, <2>4, <2>5, <2>7, <2>10, <2>11, <2>12, <2>13 DEF Decays, SameConn
  <2>15. TimerStep(p)
    <3>1. db.status[p] \in Registered => db'.status[p] \in Registered
      BY <2>10 DEF Registered
    <3> QED BY <1>9, <3>1, TimersShrink
  <2>16. ClosingStep(p)
    BY <1>9 DEF ClosingStep
  <2> QED BY <2>14, <2>15, <2>16 DEF Effect, Moves
<1> QED BY <1>10, <1>13, <1>15 DEF Effects

\* Every step of the peer manager but PollEvent has these effects on every peer, and
\* leaves what the swarm and the application were told alone.
LEMMA InnerEffects ==
    ASSUME IInv, InnerNext
    PROVE  Effects /\ swarm_banned' = swarm_banned /\ informed' = informed
<1>1. Effects
  BY ReportPeerEffect, UpdateGossipsubScoresEffects, IncomingConnectionEffect, DialSucceedsEffect,
     DialReachesBannedPeerEffect, ConnectionClosedEffect, DialFailsEffect, PeersDiscoveredEffect,
     DialCachedEnrEffect, PollDialEffect, RpcRequestEffect, HeartbeatEffect
     DEF InnerNext
<1>2. swarm_banned' = swarm_banned /\ informed' = informed
  BY DEF InnerNext, ReportPeer, UpdateGossipsubScores, IncomingConnection, DialSucceeds,
         ConnectionEstablished, DialReachesBannedPeer, ConnectionClosed, DialFails,
         PeersDiscovered, DialCachedEnr, PollDial, RpcRequest, Heartbeat, swarmVars
<1> QED BY <1>1, <1>2

-----------------------------------------------------------------------------
(* The invariants, peer by peer.                                           *)

\* Timers run for registered peers only.
TimersInv == \A p \in Peers : HasTimers(p) => db.status[p] \in Registered

\* It is the property of PeerManager.
LEMMA TimersMeaning ==
    ASSUME IInv
    PROVE  TimersInv <=> TimersFollowConnections
BY DEF TimersInv, HasTimers, TimersFollowConnections, InState, Registered, IInv, QueuesOK

\* A handler sets and stops timers with the registration of the peer.
LEMMA TimersStep ==
    ASSUME IInv, TimersInv, [Next]_vars
    PROVE  TimersInv'
<1>1. CASE InnerNext
  <2>1. \A p \in Peers : TimerStep(p)
    BY <1>1, InnerEffects DEF Effects, Effect
  <2> QED BY <2>1 DEF TimerStep, TimersInv
<1>2. CASE PollEvent
  BY <1>2 DEF PollEvent, TimersInv, HasTimers
<1>3. CASE UNCHANGED vars
  BY <1>3 DEF vars, TimersInv, HasTimers
<1> QED BY <1>1, <1>2, <1>3 DEF Next

\* Ping and status timers run only for peers with a registered connection, for any
\* number of peers: inject_disconnect stops them whichever way a connection or a dial
\* ends, and a late RPC message of a peer that is gone starts none.
THEOREM TimersAlwaysFollow == Spec => []TimersFollowConnections
<1>1. Init => TimersInv
  BY DEF Init, TimersInv, HasTimers
<1>2. IInv /\ TimersInv /\ [Next]_vars => TimersInv'
  BY TimersStep
<1>3. IInv /\ TimersInv => TimersFollowConnections
  BY TimersMeaning
<1> QED BY <1>1, <1>2, <1>3, AlwaysIInv, PTL DEF Spec

\* What the queue says about a peer's ban and its connection.
QueuedBan(p) == LastIs(events, p, BanKinds, "Banned")
Barred(p) == Will(events, p, BanKinds, "Banned", p \in swarm_banned)
Heard(p) == Will(events, p, PeerKinds, "PeerConnected", p \in informed)

\* They are the terms of the properties.
LEMMA PropertyTerms ==
    ASSUME NEW p \in Peers
    PROVE  (WillBeBanned(p) <=> Barred(p)) /\ (WillBeInformed(p) <=> Heard(p))
BY QueueTerms DEF Barred, Heard, BanKinds, PeerKinds

\* What new events change.
LEMMA WordAppended ==
    ASSUME NEW s \in Seq(Events), NEW t \in Seq(Events), NEW p, NEW K, NEW k \in K,
           NEW w \in K \cup {"None"}, "None" \notin K, LastWord(t, p, K, w)
    PROVE  /\ Has(s \o t, p, K) <=> w # "None" \/ Has(s, p, K)
           /\ LastIs(s \o t, p, K, k) <=> w = k \/ (w = "None" /\ LastIs(s, p, K, k))
<1>1. /\ Has(s \o t, p, K) <=> Has(s, p, K) \/ Has(t, p, K)
      /\ LastIs(s \o t, p, K, k) <=> LastIs(t, p, K, k) \/ (~Has(t, p, K) /\ LastIs(s, p, K, k))
  BY HasJoined, LastJoined
<1>2. LastIs(t, p, K, k) => Has(t, p, K)
  BY LastHas
<1>3. CASE w = "None"
  <2>1. ~Has(t, p, K) /\ w # k
    BY <1>3 DEF LastWord
  <2> QED BY <1>1, <1>2, <1>3, <2>1
<1>4. CASE w # "None"
  <2>1. LastIs(t, p, K, w) /\ w \in K
    BY <1>4 DEF LastWord
  <2>2. Has(t, p, K)
    BY <2>1, LastHas
  <2>3. DOMAIN t \subseteq Nat
    <3>1. Len(t) \in Nat /\ DOMAIN t = 1 .. Len(t)
      BY LenProperties
    <3> QED BY <3>1
  <2>4. LastIs(t, p, K, k) <=> w = k
    BY <2>1, <2>3, OneLastWord
  <2> QED BY <1>1, <1>4, <2>2, <2>4
<1> QED BY <1>3, <1>4

\* What the events of a step change.
LEMMA SpeaksWill ==
    ASSUME IInv, NEW s \in Seq(Events), events' = events \o s, swarm_banned' = swarm_banned,
           informed' = informed, NEW p \in Peers,
           NEW ban \in BanKinds \cup {"None"}, NEW peer \in PeerKinds \cup {"None"},
           Speaks(s, p, ban, peer)
    PROVE  /\ QueuedBan(p)' <=> IF ban = "None" THEN QueuedBan(p) ELSE ban = "Banned"
           /\ Barred(p)' <=> IF ban = "None" THEN Barred(p) ELSE ban = "Banned"
           /\ Heard(p)' <=> IF peer = "None" THEN Heard(p) ELSE peer = "PeerConnected"
<1>1. events \in Seq(Events)
  BY DEF IInv, QueuesOK
<1>2. /\ "None" \notin BanKinds /\ "Banned" \in BanKinds
      /\ "None" \notin PeerKinds /\ "PeerConnected" \in PeerKinds
  BY DEF BanKinds, PeerKinds
<1>3. LastWord(s, p, BanKinds, ban) /\ LastWord(s, p, PeerKinds, peer)
  BY DEF Speaks
<1>4. /\ Has(events \o s, p, BanKinds) <=> ban # "None" \/ Has(events, p, BanKinds)
      /\ LastIs(events \o s, p, BanKinds, "Banned") <=>
            ban = "Banned" \/ (ban = "None" /\ LastIs(events, p, BanKinds, "Banned"))
  BY <1>1, <1>2, <1>3, WordAppended
<1>5. /\ Has(events \o s, p, PeerKinds) <=> peer # "None" \/ Has(events, p, PeerKinds)
      /\ LastIs(events \o s, p, PeerKinds, "PeerConnected") <=>
            \/ peer = "PeerConnected"
            \/ peer = "None" /\ LastIs(events, p, PeerKinds, "PeerConnected")
  BY <1>1, <1>2, <1>3, WordAppended
<1>6. /\ QueuedBan(p)' <=> LastIs(events \o s, p, BanKinds, "Banned")
      /\ Barred(p)' <=> \/ LastIs(events \o s, p, BanKinds, "Banned")
                        \/ ~Has(events \o s, p, BanKinds) /\ p \in swarm_banned
      /\ Heard(p)' <=> \/ LastIs(events \o s, p, PeerKinds, "PeerConnected")
                       \/ ~Has(events \o s, p, PeerKinds) /\ p \in informed
  BY DEF QueuedBan, Barred, Heard, Will
<1>7. QueuedBan(p)' <=> IF ban = "None" THEN QueuedBan(p) ELSE ban = "Banned"
  BY <1>4, <1>6 DEF QueuedBan
<1>8. Barred(p)' <=> IF ban = "None" THEN Barred(p) ELSE ban = "Banned"
  BY <1>4, <1>6 DEF Barred, Will
<1>9. Heard(p)' <=> IF peer = "None" THEN Heard(p) ELSE peer = "PeerConnected"
  BY <1>5, <1>6 DEF Heard, Will
<1> QED BY <1>7, <1>8, <1>9

\* Handling an event leaves what is true in the end alone; a goodbye that is handled
\* closes the connection.
LEMMA PollEventEffect ==
    ASSUME IInv, PollEvent, NEW p \in Peers
    PROVE  /\ QueuedBan(p)' => QueuedBan(p)
           /\ Barred(p)' <=> Barred(p)
           /\ Heard(p)' <=> Heard(p)
           /\ Bye(events, p) /\ p \in conn => Bye(events', p) \/ p \in closing'
           /\ closing \subseteq closing'
           /\ db' = db /\ conn' = conn
<1> PICK h : h = Head(events)
  OBVIOUS
<1>1. /\ events \in Seq(Events) /\ events # <<>> /\ events' = Tail(events)
      /\ db' = db /\ conn' = conn
      /\ swarm_banned' = CASE h.kind = "Banned" -> swarm_banned \cup {h.peer}
                           [] h.kind = "UnBanned" -> swarm_banned \ {h.peer}
                           [] h.kind \notin {"Banned", "UnBanned"} -> swarm_banned
      /\ closing' = closing \cup GoodbyeTo(h.kind, h.peer)
      /\ informed' = CASE h.kind = "PeerConnected" -> informed \cup {h.peer}
                       [] h.kind = "PeerDisconnected" -> informed \ {h.peer}
                       [] h.kind \notin {"PeerConnected", "PeerDisconnected"} -> informed
  BY DEF PollEvent, IInv, QueuesOK
<1>2. h.kind \in EventKinds /\ h.peer \in Peers
  <2>1. h \in Events
    BY <1>1, HeadTailProperties
  <2> QED BY <2>1 DEF Events
<1>3. /\ "Banned" \in BanKinds /\ "PeerConnected" \in PeerKinds /\ "Banned" \in GoodbyeKinds
      /\ h.kind \in BanKinds <=> h.kind \in {"Banned", "UnBanned"}
      /\ h.kind \in PeerKinds <=> h.kind \in {"PeerConnected", "PeerDisconnected"}
  BY DEF BanKinds, PeerKinds, GoodbyeKinds
<1>4. p \in swarm_banned' <=> IF h.peer = p /\ h.kind \in BanKinds THEN h.kind = "Banned"
                              ELSE p \in swarm_banned
  BY <1>1, <1>2, <1>3 DEF EventKinds
<1>5. p \in informed' <=> IF h.peer = p /\ h.kind \in PeerKinds THEN h.kind = "PeerConnected"
                          ELSE p \in informed
  BY <1>1, <1>2, <1>3 DEF EventKinds
<1>6. /\ Has(events, p, BanKinds) <=>
            (h.peer = p /\ h.kind \in BanKinds) \/ Has(Tail(events), p, BanKinds)
      /\ LastIs(events, p, BanKinds, "Banned") <=>
            \/ LastIs(Tail(events), p, BanKinds, "Banned")
            \/ ~Has(Tail(events), p, BanKinds) /\ h.peer = p /\ h.kind = "Banned"
  BY <1>1, <1>3, TailWords
<1>7. /\ Has(events, p, PeerKinds) <=>
            (h.peer = p /\ h.kind \in PeerKinds) \/ Has(Tail(events), p, PeerKinds)
      /\ LastIs(events, p, PeerKinds, "PeerConnected") <=>
            \/ LastIs(Tail(events), p, PeerKinds, "PeerConnected")
            \/ ~Has(Tail(events), p, PeerKinds) /\ h.peer = p /\ h.kind = "PeerConnected"
  BY <1>1, <1>3, TailWords
<1>8. Has(events, p, GoodbyeKinds) <=>
         (h.peer = p /\ h.kind \in GoodbyeKinds) \/ Has(Tail(events), p, GoodbyeKinds)
  BY <1>1, <1>3, TailWords
<1>9. QueuedBan(p)' => QueuedBan(p)
  BY <1>1, <1>6 DEF QueuedBan
<1>10. Barred(p)' <=> Barred(p)
  <2>1. Barred(p)' <=> \/ LastIs(Tail(events), p, BanKinds, "Banned")
                       \/ ~Has(Tail(events), p, BanKinds) /\ p \in swarm_banned'
    BY <1>1 DEF Barred, Will
  <2> QED BY <1>3, <1>4, <1>6, <2>1 DEF Barred, Will
<1>11. Heard(p)' <=> Heard(p)
  <2>1. Heard(p)' <=> \/ LastIs(Tail(events), p, PeerKinds, "PeerConnected")
                      \/ ~Has(Tail(events), p, PeerKinds) /\ p \in informed'
    BY <1>1 DEF Heard, Will
  <2> QED BY <1>3, <1>5, <1>7, <2>1 DEF Heard, Will
<1>12. Bye(events, p) /\ p \in conn => Bye(events', p) \/ p \in closing'
  BY <1>1, <1>8 DEF Bye, GoodbyeTo, GoodbyeKinds
<1> QED BY <1>1, <1>9, <1>10, <1>11, <1>12

\* A step that changes nothing.
LEMMA StutterEffect ==
    ASSUME UNCHANGED vars, NEW p \in Peers
    PROVE  /\ QueuedBan(p)' <=> QueuedBan(p)
           /\ Barred(p)' <=> Barred(p)
           /\ Heard(p)' <=> Heard(p)
           /\ db' = db /\ conn' = conn /\ events' = events /\ closing' = closing
BY DEF vars, QueuedBan, Barred, Heard

\* The application will take a connected peer for connected.
AnnouncedInv == \A p \in Peers : db.status[p] = "Connected" => Heard(p)

\* A peer enters the connected state together with its announcement.
LEMMA ConnectedWord ==
    ASSUME NEW p \in Peers, NEW s, Moves(p, s), db'.status[p] = "Connected"
    PROVE  \E ban \in BanKinds \cup {"None"} :
               \/ Speaks(s, p, ban, "PeerConnected")
               \/ db.status[p] = "Connected" /\ Speaks(s, p, ban, "None")
<1>1. "UnBanned" \in BanKinds /\ "None" \in BanKinds \cup {"None"}
  BY DEF BanKinds
<1>2. CASE Rests(p, s) \/ Ignored(p, s)
  BY <1>1, <1>2 DEF Rests, Ignored, Unmoved
<1>3. CASE Joins(p, s)
  BY <1>1, <1>3 DEF Joins
<1>4. CASE Relieved(p, s)
  BY <1>1, <1>4 DEF Relieved
<1>5. CASE Decays(p, s)
  BY <1>1, <1>5 DEF Decays
<1>6. CASE Reported(p, s) \/ Ends(p, s) \/ Forgets(p, s) \/ Appears(p, s) \/ Dials(p, s)
  BY <1>6 DEF Reported, Warned, BanAnnounced, BannedAtOnce, Ends, Ended, Forgets, Purged, Appears, Dials
<1> QED BY <1>2, <1>3, <1>4, <1>5, <1>6 DEF Moves

\* Every step keeps the announcements right.
LEMMA AnnouncedStep ==
    ASSUME IInv, AnnouncedInv, [Next]_vars
    PROVE  AnnouncedInv'
<1> SUFFICES ASSUME NEW p \in Peers, db'.status[p] = "Connected" PROVE Heard(p)'
  BY DEF AnnouncedInv
<1>1. CASE InnerNext
  <2>1. swarm_banned' = swarm_banned /\ informed' = informed
    BY <1>1, InnerEffects
  <2>2. PICK s \in Seq(Events) : events' = events \o s /\ Effect(p, s)
    BY <1>1, InnerEffects DEF Effects
  <2>3. PICK ban \in BanKinds \cup {"None"} :
               \/ Speaks(s, p, ban, "PeerConnected")
               \/ db.status[p] = "Connected" /\ Speaks(s, p, ban, "None")
    BY <2>2, ConnectedWord DEF Effect
  <2>4. "PeerConnected" \in PeerKinds \cup {"None"} /\ "None" \in PeerKinds \cup {"None"}
    BY DEF PeerKinds
  <2>5. CASE Speaks(s, p, ban, "PeerConnected")
    BY <2>1, <2>2, <2>4, <2>5, SpeaksWill
  <2>6. CASE db.status[p] = "Connected" /\ Speaks(s, p, ban, "None")
    <3>1. Heard(p)
      BY <2>6 DEF AnnouncedInv
    <3> QED BY <2>1, <2>2, <2>4, <2>6, <3>1, SpeaksWill
  <2> QED BY <2>3, <2>5, <2>6
<1>2. CASE PollEvent
  BY <1>2, PollEventEffect DEF AnnouncedInv
<1>3. CASE UNCHANGED vars
  BY <1>3, StutterEffect DEF AnnouncedInv
<1> QED BY <1>1, <1>2, <1>3 DEF Next

\* For any number of peers, and whatever the swarm does while events wait: a peer that the
\* database calls connected is announced to the application, and no earlier
\* disconnection of it is reported after that.
THEOREM ConnectedAlwaysAnnounced == Spec => []ConnectedIsAnnounced
<1>1. Init => AnnouncedInv
  BY InitDatabase DEF AnnouncedInv
<1>2. IInv /\ AnnouncedInv /\ [Next]_vars => AnnouncedInv'
  BY AnnouncedStep
<1>3. AnnouncedInv => ConnectedIsAnnounced
  BY PropertyTerms DEF AnnouncedInv, ConnectedIsAnnounced, Connected, InState
<1> QED BY <1>1, <1>2, <1>3, AlwaysIInv, PTL DEF Spec

-----------------------------------------------------------------------------
(* Bans.                                                                   *)

\* What the database says about a ban of p, against what the swarm knows or will know.
BanInv(p) ==
    /\ db.status[p] = "Absent" => db.score[p] # "Banned"
    /\ db.status[p] = "DisconnectingToBan" => db.score[p] = "Banned"
    /\ QueuedBan(p) => db.status[p] = "Banned"
    /\ db.status[p] = "Banned" => Barred(p) /\ db.score[p] = "Banned"
    /\ db.status[p] = "Connected" => p \in conn /\ db.score[p] # "Banned" /\ ~Barred(p)

\* A peer is barred by a queued ban, or by the swarm.
LEMMA BarredBy ==
    ASSUME NEW p \in Peers
    PROVE  /\ QueuedBan(p) => Barred(p)
           /\ Barred(p) /\ p \notin swarm_banned => QueuedBan(p)
           /\ events = <<>> => ~QueuedBan(p) /\ (Barred(p) <=> p \in swarm_banned)
BY DEF QueuedBan, Barred, Will, LastIs, Has

\* What a word about a ban changes.
LEMMA BanWord ==
    ASSUME IInv, NEW s \in Seq(Events), events' = events \o s, swarm_banned' = swarm_banned,
           informed' = informed, NEW p \in Peers, NEW peer \in PeerKinds \cup {"None"}
    PROVE  /\ Speaks(s, p, "None", peer) =>
                (QueuedBan(p)' <=> QueuedBan(p)) /\ (Barred(p)' <=> Barred(p))
           /\ Speaks(s, p, "Banned", peer) => QueuedBan(p)' /\ Barred(p)'
           /\ Speaks(s, p, "UnBanned", peer) => ~QueuedBan(p)' /\ ~Barred(p)'
<1>1. "None" \in BanKinds \cup {"None"} /\ "Banned" \in BanKinds \cup {"None"}
      /\ "UnBanned" \in BanKinds \cup {"None"}
  BY DEF BanKinds
<1>2. ASSUME Speaks(s, p, "None", peer)
      PROVE  (QueuedBan(p)' <=> QueuedBan(p)) /\ (Barred(p)' <=> Barred(p))
  BY <1>1, <1>2, SpeaksWill
<1>3. ASSUME Speaks(s, p, "Banned", peer) PROVE QueuedBan(p)' /\ Barred(p)'
  BY <1>1, <1>3, SpeaksWill
<1>4. ASSUME Speaks(s, p, "UnBanned", peer) PROVE ~QueuedBan(p)' /\ ~Barred(p)'
  BY <1>1, <1>4, SpeaksWill
<1> QED BY <1>2, <1>3, <1>4

\* Every effect of a step on a peer keeps its ban consistent.
LEMMA BanMoves ==
    ASSUME IInv, BanOutlastsDisconnect, NEW s \in Seq(Events), events' = events \o s,
           swarm_banned' = swarm_banned, informed' = informed, NEW p \in Peers,
           BanInv(p), Moves(p, s)
    PROVE  BanInv(p)'
<1>1. /\ "None" \in PeerKinds \cup {"None"} /\ "PeerConnected" \in PeerKinds \cup {"None"}
      /\ "PeerDisconnected" \in PeerKinds \cup {"None"}
  BY DEF PeerKinds
<1>2. \A peer \in PeerKinds \cup {"None"} :
        /\ Speaks(s, p, "None", peer) =>
             (QueuedBan(p)' <=> QueuedBan(p)) /\ (Barred(p)' <=> Barred(p))
        /\ Speaks(s, p, "Banned", peer) => QueuedBan(p)' /\ Barred(p)'
        /\ Speaks(s, p, "UnBanned", peer) => ~QueuedBan(p)' /\ ~Barred(p)'
  BY BanWord
<1>3. /\ QueuedBan(p) => Barred(p)
      /\ Barred(p) /\ p \notin swarm_banned => QueuedBan(p)
      /\ events = <<>> => ~QueuedBan(p) /\ (Barred(p) <=> p \in swarm_banned)
  BY BarredBy
<1>4. CASE Rests(p, s)
  BY <1>1, <1>2, <1>4 DEF Rests, Unmoved, SameConn, BanInv
<1>5. CASE Reported(p, s)
  <2>1. CASE Warned(p, s)
    BY <1>1, <1>2, <2>1 DEF Warned, BanInv
  <2>2. CASE BanAnnounced(p, s)
    BY <1>1, <1>2, <2>2 DEF BanAnnounced, BanInv
  <2>3. CASE BannedAtOnce(p, s)
    BY <1>1, <1>2, <2>3 DEF BannedAtOnce, BanInv
  <2> QED BY <1>5, <2>1, <2>2, <2>3 DEF Reported
<1>6. CASE Ends(p, s)
  <2>1. PICK word \in {"None", "PeerDisconnected"} : Ended(db, p, s, word)
    BY <1>6 DEF Ends
  <2>2. word \in PeerKinds \cup {"None"}
    BY <1>1
  <2>3. CASE Purged(db, p, s, word)
    BY <1>2, <2>2, <2>3 DEF Purged, BanInv
  <2>4. CASE ~Purged(db, p, s, word)
    <3>1. /\ db'.score[p] = db.score[p]
          /\ db'.status[p] = IF db.status[p] \in {"Banned", "DisconnectingToBan"} THEN "Banned"
                             ELSE "Disconnected"
          /\ Speaks(s, p, IF db.status[p] = "DisconnectingToBan" THEN "Banned" ELSE "None", word)
      BY <2>1, <2>4 DEF Ended
    <3>2. CASE db.status[p] = "DisconnectingToBan"
      BY <1>2, <2>2, <3>1, <3>2 DEF BanInv
    <3>3. CASE db.status[p] # "DisconnectingToBan"
      BY <1>2, <2>2, <3>1, <3>3 DEF BanInv
    <3> QED BY <3>2, <3>3
  <2> QED BY <2>3, <2>4
<1>7. CASE Forgets(p, s)
  BY <1>1, <1>2, <1>7 DEF Forgets, Purged, BanInv
<1>8. CASE Joins(p, s)
  <2>1. p \notin conn \cup swarm_banned /\ p \in conn'
    BY <1>8 DEF Joins, NewConnection
  <2>2. ~QueuedBan(p) /\ db.score[p] # "Banned" /\ db'.score[p] = db.score[p]
    BY <1>8 DEF Joins, BanInv
  <2>3. ~Barred(p)
    BY <1>3, <2>1, <2>2
  <2>4. (QueuedBan(p)' <=> QueuedBan(p)) /\ (Barred(p)' <=> Barred(p))
    BY <1>1, <1>2, <1>8 DEF Joins
  <2> QED BY <1>8, <2>1, <2>2, <2>3, <2>4 DEF Joins, BanInv
<1>9. CASE Ignored(p, s)
  BY <1>1, <1>2, <1>9 DEF Ignored, Unmoved, NewConnection, BanInv
<1>10. CASE Relieved(p, s)
  BY <1>10 DEF Relieved, BanInv
<1>11. CASE Decays(p, s)
  <2>1. \/ Speaks(s, p, "None", "None") /\ (QueuedBan(p)' <=> QueuedBan(p)) /\ (Barred(p)' <=> Barred(p))
        \/ db.score[p] = "Banned" /\ db'.score[p] # "Banned" /\ ~QueuedBan(p)' /\ ~Barred(p)'
    BY <1>1, <1>2, <1>11 DEF Decays
  <2>2. db.status[p] = "Banned" /\ db'.status[p] = "Disconnected" => ~QueuedBan(p)'
    <3>1. db.status[p] = "Banned" /\ db'.status[p] = "Disconnected" => Speaks(s, p, "UnBanned", "None")
      BY <1>11 DEF Decays
    <3> QED BY <1>1, <1>2, <3>1
  <2>3. /\ SameConn(p)
        /\ db'.score[p] = "Banned" => db.score[p] = "Banned"
        /\ db.status[p] = "Absent" => db'.score[p] = db.score[p]
        /\ db.score[p] = "Banned" /\ db.status[p] = "DisconnectingToBan" => db'.score[p] = "Banned"
        /\ db.status[p] = "Banned" /\ db.score[p] = "Banned" /\ db'.score[p] # "Banned"
             => db'.status[p] = "Disconnected"
        /\ \/ db'.status[p] = db.status[p]
           \/ db.status[p] = "Dialing" /\ db'.status[p] = "Disconnected"
           \/ db.status[p] = "Connected" /\ db'.status[p] = "Disconnecting"
           \/ db.status[p] = "Banned" /\ db'.status[p] = "Disconnected"
    BY <1>11 DEF Decays
  <2> QED BY <2>1, <2>2, <2>3 DEF BanInv, SameConn
<1>12. CASE Appears(p, s)
  BY <1>1, <1>2, <1>12 DEF Appears, BanInv
<1>13. CASE Dials(p, s)
  BY <1>1, <1>2, <1>3, <1>13 DEF Dials, BanInv
<1> QED BY <1>4, <1>5, <1>6, <1>7, <1>8, <1>9, <1>10, <1>11, <1>12, <1>13 DEF Moves

AllBanInv == \A p \in Peers : BanInv(p)

\* Every step keeps the bans consistent.
LEMMA BanStep ==
    ASSUME IInv, BanOutlastsDisconnect, AllBanInv, [Next]_vars
    PROVE  AllBanInv'
<1> SUFFICES ASSUME NEW p \in Peers PROVE BanInv(p)'
  BY DEF AllBanInv
<1>0. BanInv(p)
  BY DEF AllBanInv
<1>1. CASE InnerNext
  <2>1. swarm_banned' = swarm_banned /\ informed' = informed
    BY <1>1, InnerEffects
  <2>2. PICK s \in Seq(Events) : events' = events \o s /\ Effect(p, s)
    BY <1>1, InnerEffects DEF Effects
  <2> QED BY <1>0, <2>1, <2>2, BanMoves DEF Effect
<1>2. CASE PollEvent
  BY <1>0, <1>2, PollEventEffect DEF BanInv
<1>3. CASE UNCHANGED vars
  BY <1>0, <1>3, StutterEffect DEF BanInv
<1> QED BY <1>1, <1>2, <1>3 DEF Next

\* Initially nobody is banned.
LEMMA BanInit == Init => AllBanInv
<1> SUFFICES ASSUME Init, NEW p \in Peers PROVE BanInv(p)
  BY DEF AllBanInv
<1>1. /\ db.status[p] \in {"Absent", "Unknown"} /\ db.score[p] \in {"Healthy", "Max"}
      /\ events = <<>>
  BY InitDatabase DEF Init
<1>2. ~QueuedBan(p)
  BY <1>1, BarredBy
<1> QED BY <1>1, <1>2 DEF BanInv

\* In every reachable state the bans are consistent.
LEMMA AlwaysBanInv ==
    ASSUME BanOutlastsDisconnect
    PROVE  Spec => []AllBanInv
<1>1. IInv /\ AllBanInv /\ [Next]_vars => AllBanInv'
  BY BanStep
<1> QED BY <1>1, BanInit, AlwaysIInv, PTL DEF Spec

\* For any number of peers, when a disconnection takes less time than a banned score
\* keeps from decaying (SHUTDOWN_TIMEOUT_SECS against BANNED_BEFORE_DECAY): a peer that
\* the database calls banned is refused by the swarm once the queue is drained, and its
\* score, whose decay is the way out, is banned.
THEOREM BanAlwaysEnforced ==
    ASSUME BanOutlastsDisconnect
    PROVE  Spec => []BanEnforced
<1>1. AllBanInv => BanEnforced
  BY PropertyTerms DEF AllBanInv, BanInv, BanEnforced, Banned, InState
<1> QED BY <1>1, AlwaysBanInv, PTL

\* Under the same condition, a peer that the database calls connected has a connection
\* and is neither banned by its score nor refused by the swarm.
THEOREM ConnectedAlwaysConnected ==
    ASSUME BanOutlastsDisconnect
    PROVE  Spec => []ConnectedIsConnected
<1>1. AllBanInv => ConnectedIsConnected
  BY PropertyTerms DEF AllBanInv, BanInv, ConnectedIsConnected, Connected, InState
<1> QED BY <1>1, AlwaysBanInv, PTL

\* A banned peer that is no longer one, but by a dial, is no longer barred.
LEMMA UnbanWord ==
    ASSUME IInv, NEW s \in Seq(Events), events' = events \o s,
           swarm_banned' = swarm_banned, informed' = informed, NEW p \in Peers,
           BanInv(p), Moves(p, s), peers_to_dial' = peers_to_dial,
           db.status[p] = "Banned", db'.status[p] # "Banned"
    PROVE  ~Barred(p)'
<1>1. "None" \in PeerKinds \cup {"None"} /\ "PeerDisconnected" \in PeerKinds \cup {"None"}
  BY DEF PeerKinds
<1>2. \A peer \in PeerKinds \cup {"None"} : Speaks(s, p, "UnBanned", peer) => ~Barred(p)'
  BY BanWord
<1>3. db.score[p] = "Banned"
  BY DEF BanInv
<1>4. CASE Ends(p, s)
  <2>1. PICK word \in {"None", "PeerDisconnected"} : Ended(db, p, s, word)
    BY <1>4 DEF Ends
  <2>2. Speaks(s, p, "UnBanned", word)
    BY <2>1 DEF Ended, Purged
  <2> QED BY <1>1, <1>2, <2>2
<1>5. CASE Forgets(p, s)
  BY <1>1, <1>2, <1>5 DEF Forgets, Purged
<1>6. CASE Decays(p, s)
  BY <1>1, <1>2, <1>6 DEF Decays
<1>7. CASE Joins(p, s)
  BY <1>3, <1>7 DEF Joins
<1>8. CASE Rests(p, s) \/ Reported(p, s) \/ Ignored(p, s) \/ Relieved(p, s) \/ Appears(p, s)
             \/ Dials(p, s)
  BY <1>8 DEF Rests, Reported, Ignored, Relieved, Appears, Dials, Unmoved, Warned, BanAnnounced,
              BannedAtOnce
<1> QED BY <1>4, <1>5, <1>6, <1>7, <1>8 DEF Moves

\* Under the same condition, whenever a peer ceases to be banned, because its score
\* decayed or because it is purged, the swarm will lift its ban.
THEOREM UnbanAlwaysPropagated ==
    ASSUME BanOutlastsDisconnect
    PROVE  Spec => UnbanIsPropagated
<1>1. ASSUME IInv, AllBanInv, [Next]_vars
      PROVE  [peers_to_dial' = peers_to_dial =>
                \A p \in Banned(db) \ Banned(db)' : ~WillBeBanned(p)']_vars
  <2> SUFFICES ASSUME peers_to_dial' = peers_to_dial, NEW p \in Banned(db) \ Banned(db)'
               PROVE  ~WillBeBanned(p)'
    OBVIOUS
  <2>1. p \in Peers /\ db.status[p] = "Banned" /\ db'.status[p] # "Banned"
    BY DEF Banned, InState
  <2>2. (WillBeBanned(p) <=> Barred(p))'
    BY <2>1 DEF WillBeBanned, LastQueued, NoneQueued, Barred, Will, LastIs, Has, BanKinds
  <2>3. CASE InnerNext
    <3>1. swarm_banned' = swarm_banned /\ informed' = informed
      BY <2>3, InnerEffects, <1>1
    <3>2. PICK s \in Seq(Events) : events' = events \o s /\ Effect(p, s)
      BY <2>1, <2>3, InnerEffects, <1>1 DEF Effects
    <3>3. ~Barred(p)'
      BY <1>1, <2>1, <3>1, <3>2, UnbanWord DEF Effect, AllBanInv
    <3> QED BY <2>2, <3>3
  <2>4. CASE PollEvent \/ UNCHANGED vars
    BY <2>1, <2>4 DEF PollEvent, vars
  <2> QED BY <1>1, <2>3, <2>4 DEF Next
<1> QED BY <1>1, AlwaysIInv, AlwaysBanInv, PTL DEF Spec, UnbanIsPropagated

-----------------------------------------------------------------------------
(* Connections.                                                            *)

\* Who is being disconnected has a connection, and who has a banned score is refused by
\* the swarm once the queue is drained, or is being disconnected for it.
ConnInv(p) ==
    /\ db.status[p] \in {"Disconnecting", "DisconnectingToBan"} => p \in conn
    /\ db.score[p] = "Banned" /\ db.status[p] # "DisconnectingToBan" => Barred(p)

\* What a step's words about a ban change, for one peer.
BanWords(p, s) ==
    \A peer \in PeerKinds \cup {"None"} :
        /\ Speaks(s, p, "None", peer) => (Barred(p)' <=> Barred(p))
        /\ Speaks(s, p, "Banned", peer) => Barred(p)'
        /\ Speaks(s, p, "UnBanned", peer) => ~Barred(p)'

\* Every effect of a step on a peer keeps that.
LEMMA ConnMoves ==
    ASSUME IInv, BanOutlastsDisconnect, ~ReportAnyPeer, NEW s \in Seq(Events), events' = events \o s,
           swarm_banned' = swarm_banned, informed' = informed, NEW p \in Peers,
           BanInv(p), ConnInv(p), Moves(p, s)
    PROVE  ConnInv(p)'
<1>1. /\ "None" \in PeerKinds \cup {"None"} /\ "PeerConnected" \in PeerKinds \cup {"None"}
      /\ "PeerDisconnected" \in PeerKinds \cup {"None"}
  BY DEF PeerKinds
<1>2. BanWords(p, s)
  BY BanWord DEF BanWords
<1>3. CASE Rests(p, s)
  BY <1>1, <1>2, <1>3 DEF Rests, Unmoved, SameConn, ConnInv, BanWords
<1>4. CASE Reported(p, s)
  <2>0. (p \in conn => p \in conn') /\ (db.status[p] = "Connected" \/ p \in conn')
    BY <1>4 DEF Reported
  <2>1. CASE Warned(p, s)
    BY <1>1, <1>2, <2>0, <2>1 DEF Warned, BanInv, ConnInv
  <2>2. CASE BanAnnounced(p, s)
    BY <2>0, <2>2 DEF BanAnnounced, BanInv, ConnInv
  <2>3. CASE BannedAtOnce(p, s)
    BY <1>1, <1>2, <2>3 DEF BannedAtOnce, ConnInv, BanWords
  <2> QED BY <1>4, <2>1, <2>2, <2>3 DEF Reported
<1>5. CASE Ends(p, s)
  <2>1. PICK word \in {"None", "PeerDisconnected"} : Ended(db, p, s, word)
    BY <1>5 DEF Ends
  <2>2. word \in PeerKinds \cup {"None"}
    BY <1>1
  <2>3. db'.status[p] \in {"Absent", "Banned", "Disconnected"}
    BY <2>1 DEF Ended, Purged
  <2>4. db'.score[p] = "Banned" => Barred(p)'
    BY <1>2, <2>1, <2>2 DEF Ended, Purged, ConnInv, BanWords
  <2> QED BY <2>3, <2>4 DEF ConnInv
<1>6. CASE Forgets(p, s)
  BY <1>6 DEF Forgets, Purged, ConnInv, SameConn
<1>7. CASE Joins(p, s)
  <2>1. db'.score[p] # "Banned"
    BY <1>7 DEF Joins, BanInv
  <2> QED BY <1>7, <2>1 DEF Joins, NewConnection, ConnInv
<1>8. CASE Ignored(p, s)
  BY <1>1, <1>2, <1>8 DEF Ignored, NewConnection, Unmoved, ConnInv, BanWords
<1>9. CASE Relieved(p, s)
  BY <1>9 DEF Relieved, BanInv
<1>10. CASE Decays(p, s)
  <2>1. /\ SameConn(p)
        /\ db'.score[p] = "Banned" => db.score[p] = "Banned" /\ (Barred(p)' <=> Barred(p))
        /\ \/ db'.status[p] = db.status[p]
           \/ db.status[p] = "Dialing" /\ db'.status[p] = "Disconnected"
           \/ db.status[p] = "Connected" /\ db'.status[p] = "Disconnecting"
           \/ db.status[p] = "Banned" /\ db'.status[p] = "Disconnected"
    BY <1>1, <1>2, <1>10 DEF Decays, BanWords
  <2> QED BY <2>1 DEF ConnInv, BanInv, SameConn
<1>11. CASE Appears(p, s)
  BY <1>11 DEF Appears, ConnInv, BanInv, SameConn
<1>12. CASE Dials(p, s)
  BY <1>1, <1>2, <1>12 DEF Dials, ConnInv, SameConn, BanWords
<1> QED BY <1>3, <1>4, <1>5, <1>6, <1>7, <1>8, <1>9, <1>10, <1>11, <1>12 DEF Moves

\* A connection that is neither registered nor on its way out.
Loose(p) == p \in conn /\ db.status[p] # "Connected" /\ p \notin closing /\ ~Bye(events, p)

\* The exception: the new connection of a peer that is refused and exempt from penalties.
MayForget(p) == p \notin conn /\ ban_status(db, p) # "NotBanned" /\ Exempt(db, p)

\* No effect of a step on a peer leaves its connection loose, but by the exception.
LEMMA AttendedMoves ==
    ASSUME IInv, ~ReportAnyPeer, NEW s \in Seq(Events), events' = events \o s, NEW p \in Peers,
           BanInv(p), ConnInv(p), Moves(p, s), ClosingStep(p), ~Loose(p), Loose(p)'
    PROVE  MayForget(p)
<1>1. /\ p \in conn' /\ db'.status[p] # "Connected" /\ p \notin closing'
      /\ ~Bye(events, p) /\ ~Bye(s, p)
  <2>1. events \in Seq(Events)
    BY DEF IInv, QueuesOK
  <2>2. Bye(events', p) <=> Bye(events, p) \/ Bye(s, p)
    BY <2>1, HasJoined DEF Bye
  <2>3. Bye(events, p)' <=> Bye(events', p)
    BY DEF Bye
  <2> QED BY <2>2, <2>3 DEF Loose
<1>2. p \notin closing
  BY <1>1 DEF ClosingStep
<1>3. p \notin conn \/ db.status[p] = "Connected"
  BY <1>1, <1>2 DEF Loose
<1>4. db.status[p] \notin {"Disconnecting", "DisconnectingToBan"}
  BY <1>3 DEF ConnInv
<1>5. CASE Ignored(p, s)
  <2>1. p \notin conn \cup swarm_banned /\ ban_status(db, p) # "NotBanned"
    BY <1>5 DEF Ignored, NewConnection
  <2>2. ASSUME db.score[p] = "Banned" PROVE FALSE
    <3>1. Barred(p)
      BY <1>4, <2>2 DEF ConnInv
    <3>2. QueuedBan(p)
      BY <2>1, <3>1, BarredBy
    <3>3. Bye(events, p)
      BY <3>2 DEF QueuedBan, LastIs, Bye, Has, Event, GoodbyeKinds
    <3> QED BY <1>1, <3>3
  <2>3. Exempt(db, p)
    BY <1>5, <2>2 DEF Ignored
  <2> QED BY <2>1, <2>3 DEF MayForget
<1>6. ~Rests(p, s)
  BY <1>1, <1>3 DEF Rests, Unmoved, SameConn
<1>7. ~Reported(p, s)
  BY <1>1, <1>4 DEF Reported, Warned, BanAnnounced, BannedAtOnce
<1>8. ~Ends(p, s)
  BY <1>1, <1>3 DEF Ends
<1>9. ~Forgets(p, s)
  BY <1>1, <1>3 DEF Forgets, SameConn
<1>10. ~Joins(p, s)
  BY <1>1 DEF Joins
<1>11. ~Relieved(p, s)
  BY <1>1 DEF Relieved
<1>12. ~Decays(p, s)
  BY <1>1, <1>3 DEF Decays, SameConn
<1>13. ~Appears(p, s)
  BY <1>1, <1>3 DEF Appears, SameConn
<1>14. ~Dials(p, s)
  BY <1>1, <1>3 DEF Dials, SameConn
<1> QED BY <1>5, <1>6, <1>7, <1>8, <1>9, <1>10, <1>11, <1>12, <1>13, <1>14 DEF Moves

AllConnInv == \A p \in Peers : ConnInv(p)

\* Every step keeps that.
LEMMA ConnStep ==
    ASSUME IInv, BanOutlastsDisconnect, ~ReportAnyPeer, AllBanInv, AllConnInv, [Next]_vars
    PROVE  AllConnInv'
<1> SUFFICES ASSUME NEW p \in Peers PROVE ConnInv(p)'
  BY DEF AllConnInv
<1>0. BanInv(p) /\ ConnInv(p)
  BY DEF AllBanInv, AllConnInv
<1>1. CASE InnerNext
  <2>1. swarm_banned' = swarm_banned /\ informed' = informed
    BY <1>1, InnerEffects
  <2>2. PICK s \in Seq(Events) : events' = events \o s /\ Effect(p, s)
    BY <1>1, InnerEffects DEF Effects
  <2> QED BY <1>0, <2>1, <2>2, ConnMoves DEF Effect
<1>2. CASE PollEvent
  BY <1>0, <1>2, PollEventEffect DEF ConnInv
<1>3. CASE UNCHANGED vars
  BY <1>0, <1>3, StutterEffect DEF ConnInv
<1> QED BY <1>1, <1>2, <1>3 DEF Next

\* Initially nobody has a connection or a banned score.
LEMMA ConnInit == Init => AllConnInv
BY InitDatabase DEF AllConnInv, ConnInv

\* The step that NoForgottenConnection allows.
AttendsConnections ==
    \A p \in Peers :
        ~Unattended(p) /\ Unattended(p)' =>
            p \notin conn /\ ban_status(db, p) # "NotBanned" /\ Exempt(db, p)

\* No step leaves a connection unattended, but by the exception.
LEMMA AttendedStep ==
    ASSUME IInv, ~ReportAnyPeer, AllBanInv, AllConnInv, [Next]_vars
    PROVE  AttendsConnections
<1> SUFFICES ASSUME NEW p \in Peers, ~Unattended(p), Unattended(p)' PROVE MayForget(p)
  BY DEF AttendsConnections, MayForget
<1>1. ~Loose(p)
  BY DEF Unattended, Loose, Bye, Has, GoodbyeKinds, NoneQueued, Connected, InState
<1>2. Loose(p)'
  BY DEF Unattended, Loose, Bye, Has, GoodbyeKinds, NoneQueued, Connected, InState
<1>3. CASE InnerNext
  <2>1. PICK s \in Seq(Events) : events' = events \o s /\ Effect(p, s)
    BY <1>3, InnerEffects DEF Effects
  <2> QED BY <1>1, <1>2, <2>1, AttendedMoves DEF Effect, AllBanInv, AllConnInv
<1>4. Bye(events, p)' <=> Bye(events', p)
  BY DEF Bye
<1>5. CASE PollEvent
  BY <1>1, <1>2, <1>4, <1>5, PollEventEffect DEF Loose
<1>6. CASE UNCHANGED vars
  BY <1>1, <1>2, <1>4, <1>6, StutterEffect DEF Loose
<1> QED BY <1>3, <1>5, <1>6 DEF Next

\* For any number of peers, trusted by the configuration or not, when only peers with a
\* connection are reported (the reports of the peer manager itself) and a disconnection is
\* shorter than BANNED_BEFORE_DECAY: no step leaves a connection unattended that the
\* database does not call connected, with no goodbye queued and no handler shutting it
\* down, unless it refuses, for its score or its address, a new connection of a peer that
\* is exempt from penalties.
THEOREM NoConnectionForgotten ==
    ASSUME BanOutlastsDisconnect, ~ReportAnyPeer
    PROVE  Spec => NoForgottenConnection
<1>1. IInv /\ AllBanInv /\ AllConnInv /\ [Next]_vars => AllConnInv'
  BY ConnStep
<1>2. IInv /\ AllBanInv /\ AllConnInv /\ [Next]_vars =>
        [\A p \in Peers :
            ~Unattended(p) /\ Unattended(p)' =>
                p \notin conn /\ ban_status(db, p) # "NotBanned" /\ Exempt(db, p)]_vars
  BY AttendedStep DEF AttendsConnections
<1> QED BY <1>1, <1>2, ConnInit, AlwaysIInv, AlwaysBanInv, PTL DEF Spec, NoForgottenConnection

-----------------------------------------------------------------------------
(* The counters of bans.  A handler is a composition of operations of the  *)
(* database that each keep them; the one operation that would not, on a    *)
(* banned peer, is applied only to peers that are not.                     *)

\* A report moves the counters with the map.
LEMMA ReportWithScoreBans ==
    ASSUME IInv, CountsBanned(db), NEW p \in Peers, NEW sc \in Scores, ReportWithScore(p, sc)
    PROVE  CountsBanned(db')
BY ReportCounts DEF IInv, Sound, ReportWithScore

\* A new connection: the peer is banned, refused or registered.  A peer that is
\* refused has no banned score, so it is not in the banned state.
LEMMA ConnectionEstablishedBans ==
    ASSUME IInv, AllBanInv, CountsBanned(db), NEW p \in Peers, NEW incoming,
           NEW socket \in Sockets, ConnectionEstablished(p, incoming, socket)
    PROVE  CountsBanned(db')
<1>0. db \in Databases
  BY DEF IInv, Sound
<1>1. CASE goodbye_peer(p)
  <2>1. FatalScore(db, p) \in Scores
    BY <1>0 DEF FatalScore, Databases, Scores
  <2> QED BY <1>1, <2>1, ReportWithScoreBans DEF goodbye_peer
<1>2. CASE ban_status(db, p) = "NotBanned" /\ disconnect_peer(p)
  <2>1. db.status[p] # "Banned"
    <3>1. db.status[p] = "Banned" => db.score[p] = "Banned"
      BY DEF AllBanInv, BanInv
    <3>2. db.status[p] = "Banned" /\ db.score[p] = "Banned" => ban_status(db, p) = "BadScore"
      BY DEF ban_status
    <3> QED BY <1>2, <3>1, <3>2
  <2> QED BY <1>0, <1>2, <2>1, ToDisconnectingCounts DEF disconnect_peer
<1>3. CASE inject_peer_connection(p, socket)
  BY <1>0, <1>3, ToConnectedCounts DEF inject_peer_connection
<1> QED BY <1>1, <1>2, <1>3 DEF ConnectionEstablished

\* A disconnection counts the pending ban, and its purge discounts what it drops; both
\* kinds of peers are then within their limits.
LEMMA InjectDisconnectBans ==
    ASSUME NEW d, Sound(d), CountsBanned(d), NEW p \in Peers, NEW first,
           InjectDisconnect(d, p, first)
    PROVE  CountsBanned(db') /\ WithinLimits(db')
<1> DEFINE gone == ToDisconnected(d, p)
<1>1. Sound(gone) /\ CountsBanned(gone)
  BY ToDisconnectedSound, ToDisconnectedCounts DEF Sound
<1>2. PICK RB \in Oldest(gone, Banned(gone), ExcessBanned(gone)),
           RD \in Oldest(gone, Disconnected(gone), ExcessDisconnected(gone)) :
        db' = shrink_to_fit(gone, RB, RD)
  BY DEF InjectDisconnect
<1> HIDE DEF gone
<1> QED BY <1>1, <1>2, ShrinkCounts DEF WithinLimits

\* The failure of a dial.
LEMMA InjectDialFailureBans ==
    ASSUME NEW d, Sound(d), CountsBanned(d), NEW p \in Peers, InjectDialFailure(d, p)
    PROVE  CountsBanned(db')
BY InjectDisconnectBans DEF InjectDialFailure

\* A dial is handed to the swarm, or fails at once.
LEMMA PollDialBans ==
    ASSUME IInv, CountsBanned(db), PollDial
    PROVE  CountsBanned(db')
<1> DEFINE h == Head(peers_to_dial)
           d == ToDialing(db, h.peer, h.trusted)
<1>1. peers_to_dial \in Seq([peer : Peers, trusted : BOOLEAN]) /\ peers_to_dial # <<>>
  BY DEF PollDial, IInv, QueuesOK
<1>2. h \in [peer : Peers, trusted : BOOLEAN]
  BY <1>1, HeadTailProperties
<1>3. h.peer \in Peers /\ h.trusted \in BOOLEAN
  BY <1>2
<1>4. Sound(d) /\ CountsBanned(d)
  BY <1>3, ToDialingSound, ToDialingCounts DEF IInv, Sound
<1>5. InjectDialFailure(d, h.peer) \/ db' = d
  BY DEF PollDial
<1> HIDE DEF d, h
<1> QED BY <1>3, <1>4, <1>5, InjectDialFailureBans

\* The heartbeat: timeouts, decay and pruning.
LEMMA HeartbeatBans ==
    ASSUME IInv, CountsBanned(db), Heartbeat
    PROVE  CountsBanned(db')
<1>1. PICK T \in SUBSET Dialing(db) :
        \E sc \in DecayedScores(cleanup_dialing_peers(db, T)) :
          \E P \in SUBSET Connected(update_scores(cleanup_dialing_peers(db, T), sc)) :
             db' = ToDisconnectingAll(update_scores(cleanup_dialing_peers(db, T), sc), P)
  BY DEF Heartbeat
<1>2. PICK cleaned : cleaned = cleanup_dialing_peers(db, T)
  OBVIOUS
<1>3. Sound(cleaned) /\ CountsBanned(cleaned)
  BY <1>2, CleanupSound, CleanupCounts DEF IInv, Sound
<1>4. PICK sc \in DecayedScores(cleaned) :
        \E P \in SUBSET Connected(update_scores(cleaned, sc)) :
           db' = ToDisconnectingAll(update_scores(cleaned, sc), P)
  BY <1>1, <1>2
<1>5. sc \in [Peers -> Scores]
  BY DEF DecayedScores
<1>6. PICK decayed : decayed = update_scores(cleaned, sc)
  OBVIOUS
<1>7. decayed \in Databases /\ CountsBanned(decayed)
  BY <1>3, <1>5, <1>6, UpdateScoresSound, UpdateScoresCounts DEF Sound
<1>8. PICK P \in SUBSET Connected(decayed) : db' = ToDisconnectingAll(decayed, P)
  BY <1>4, <1>6
<1> QED BY <1>7, <1>8, ToDisconnectingAllCounts

\* Every step keeps the counters of bans right.
LEMMA BansStep ==
    ASSUME IInv, AllBanInv, CountsBanned(db), [Next]_vars
    PROVE  CountsBanned(db')
<1>0. Sound(db) /\ db \in Databases
  BY DEF IInv, Sound
<1>1. ASSUME NEW p \in Peers, ReportPeer(p) PROVE CountsBanned(db')
  <2>1. PICK sc \in PenaltyScores(db, p) : ReportWithScore(p, sc)
    BY <1>1 DEF ReportPeer
  <2>2. sc \in Scores
    BY <1>0, <2>1 DEF PenaltyScores, Databases
  <2> QED BY <2>1, <2>2, ReportWithScoreBans
<1>2. CASE UpdateGossipsubScores
  BY <1>0, <1>2, UpdateGossipsubScoresCounts DEF UpdateGossipsubScores
<1>3. ASSUME NEW p \in Peers, IncomingConnection(p) \/ DialSucceeds(p) PROVE CountsBanned(db')
  BY <1>3, ConnectionEstablishedBans DEF IncomingConnection, DialSucceeds
<1>4. ASSUME NEW p \in Peers, ConnectionClosed(p) PROVE CountsBanned(db')
  BY <1>0, <1>4, InjectDisconnectBans DEF ConnectionClosed
<1>5. ASSUME NEW p \in Peers, DialFails(p) PROVE CountsBanned(db')
  BY <1>0, <1>5, InjectDialFailureBans DEF DialFails
<1>6. ASSUME NEW found \in SUBSET Peers, NEW needed \in SUBSET found, PeersDiscovered(found, needed)
      PROVE  CountsBanned(db')
  BY <1>0, <1>6, UpdateMinTtlCounts DEF PeersDiscovered
<1>7. CASE db' = db
  BY <1>7
<1>8. ASSUME NEW p \in Peers, DialReachesBannedPeer(p) \/ DialCachedEnr(p) \/ RpcRequest(p)
      PROVE  db' = db
  BY <1>8 DEF DialReachesBannedPeer, DialCachedEnr, RpcRequest, pmVars
<1>9. CASE UNCHANGED vars \/ PollEvent
  <2>1. db' = db
    BY <1>9 DEF PollEvent, vars
  <2> QED BY <1>7, <2>1
<1>10. CASE InnerNext
  BY <1>1, <1>2, <1>3, <1>4, <1>5, <1>6, <1>7, <1>8, <1>10, PollDialBans, HeartbeatBans
     DEF InnerNext
<1> QED BY <1>9, <1>10 DEF Next

\* BannedPeersCount agrees with the map in every reachable state, for any number of
\* peers, of addresses and of ports: as many banned peers, and for every IP as many
\* addresses of banned peers, although bans wait for disconnections and end by a decay,
\* a dial or a purge, and a banned peer may come back on another address.
THEOREM BannedAlwaysCounted ==
    ASSUME BanOutlastsDisconnect
    PROVE  Spec => []BannedCounted
<1>1. CountsBanned(db) <=> BannedCounted
  BY DEF CountsBanned, BannedCounted
<1>2. Init => BannedCounted
  <2>1. ASSUME Init PROVE CountsBanned(db)
    <3>1. PICK trusted \in SUBSET Peers : db = NewDatabase(trusted)
      BY <2>1 DEF Init
    <3> QED BY <3>1, NewDatabaseCounts
  <2> QED BY <1>1, <2>1
<1>3. IInv /\ AllBanInv /\ BannedCounted /\ [Next]_vars => BannedCounted'
  BY <1>1, BansStep DEF CountsBanned, BannedCounted
<1> QED BY <1>2, <1>3, AlwaysIInv, AlwaysBanInv, PTL DEF Spec

-----------------------------------------------------------------------------
(* The purge.                                                              *)

\* A disconnection adds to the order of instants only pairs that end in its peer.
LEMMA ToDisconnectedOlder ==
    ASSUME NEW d \in Databases, NEW c \in Peers, NEW p, NEW q, q # c,
           <<p, q>> \in ToDisconnected(d, c).older
    PROVE  <<p, q>> \in d.older
<1>1. d.status[c] \in Statuses
  BY DEF Databases
<1>2. \/ ToDisconnected(d, c).older = d.older
      \/ ToDisconnected(d, c).older = Stamp(d, {c})
      \/ ToDisconnected(d, c).older = Stamp(add_banned_peer(d, c), {c})
  BY <1>1 DEF ToDisconnected, StampStatus, add_banned_peer, Databases, Statuses
<1>3. add_banned_peer(d, c).older = d.older
  BY DEF add_banned_peer, Databases
<1> QED BY <1>2, <1>3 DEF Stamp, Forget

\* A peer that a disconnection purges is no younger than one in the same state that stays.
LEMMA PurgesTheOldest ==
    ASSUME Sound(db), NEW c \in Peers, NEW first, InjectDisconnect(db, c, first),
           NEW p \in Peers, NEW q \in Peers, Forgotten(p),
           db.status[p] \in {"Disconnected", "Banned"}, Kept(q, db.status[p])
    PROVE  <<p, q>> \in db.older
<1>0. db \in Databases
  BY DEF Sound
<1>1. PICK gone : gone = ToDisconnected(db, c)
  OBVIOUS
<1>2. Sound(gone) /\ gone \in Databases
  BY <1>0, <1>1, ToDisconnectedSound DEF Sound
<1>3. PICK RB \in Oldest(gone, Banned(gone), ExcessBanned(gone)),
           RD \in Oldest(gone, Disconnected(gone), ExcessDisconnected(gone)) :
        db' = shrink_to_fit(gone, RB, RD)
  BY <1>1 DEF InjectDisconnect
<1>4. RB \in SUBSET Banned(gone) /\ RD \in SUBSET Disconnected(gone)
  BY DEF Oldest
<1>5. DroppedFrom(gone, db', RB \cup RD)
  BY <1>2, <1>3, <1>4, ShrinkEffect
<1>6. gone.status = [db.status EXCEPT ![c] = IF db.status[c] \in {"Banned", "DisconnectingToBan"}
                                             THEN "Banned" ELSE "Disconnected"]
  BY <1>0, <1>1, ToDisconnectedEffect
<1>7. db.status \in [Peers -> Statuses]
  BY <1>0 DEF Databases
<1>8. gone.status[p] = db.status[p] /\ gone.status[q] = db.status[p]
  BY <1>6, <1>7 DEF Kept
<1>9. p \in RB \cup RD /\ q \notin RB \cup RD
  <2>1. \A x \in Peers : db'.status[x] = IF x \in RB \cup RD THEN "Absent" ELSE gone.status[x]
    BY <1>5 DEF DroppedFrom
  <2> QED BY <1>8, <2>1 DEF Forgotten, Kept
<1>10. <<p, q>> \in gone.older
  <2>1. CASE p \in RB
    <3>1. q \in Banned(gone) \ RB
      BY <1>4, <1>8, <1>9, <2>1 DEF Banned, InState
    <3> QED BY <2>1, <3>1 DEF Oldest
  <2>2. CASE p \in RD
    <3>1. q \in Disconnected(gone) \ RD
      BY <1>4, <1>8, <1>9, <2>2 DEF Disconnected, InState
    <3> QED BY <2>2, <3>1 DEF Oldest
  <2> QED BY <1>9, <2>1, <2>2
<1>11. CASE q = c
  <2>1. gone = db
    BY <1>1, <1>11 DEF ToDisconnected, Kept
  <2> QED BY <1>10, <2>1
<1>12. CASE q # c
  BY <1>0, <1>1, <1>10, <1>12, ToDisconnectedOlder
<1> QED BY <1>11, <1>12

NobodyForgotten == \A p \in Peers : ~Forgotten(p)

\* A report forgets nobody.
LEMMA ReportForgetsNobody ==
    ASSUME IInv, NEW p \in Peers, NEW sc \in Scores, ReportWithScore(p, sc)
    PROVE  NobodyForgotten
<1> PICK result : result = handle_score_transition(db.score[p], sc, db.status[p])
  OBVIOUS
<1>1. db \in Databases
  BY DEF IInv, Sound
<1>2. /\ db'.status = [db.status EXCEPT ![p] = IF result = "Banned" THEN StatusToBan(db.status[p])
                                               ELSE IF result = "Disconnected" THEN "Disconnecting"
                                               ELSE db.status[p]]
      /\ db'.score = [db.score EXCEPT ![p] = sc]
      /\ db'.trusted = db.trusted
  BY <1>1, ReportEffect DEF ReportWithScore
<1>3. db.status \in [Peers -> Statuses]
  BY DEF IInv, Sound, Databases
<1>4. \A st \in Statuses : st # "Absent" => StatusToBan(st) # "Absent"
  <2> TAKE st \in Statuses
  <2>1. CASE st \in {"Disconnected", "Unknown", "Banned"}
    BY <2>1 DEF StatusToBan
  <2>2. CASE st \in {"Disconnecting", "DisconnectingToBan", "Connected", "Dialing"}
    BY <2>2 DEF StatusToBan
  <2> QED BY <2>1, <2>2 DEF Statuses
<1> QED BY <1>2, <1>3, <1>4 DEF NobodyForgotten, Forgotten

\* A new connection forgets nobody.
LEMMA ConnectionForgetsNobody ==
    ASSUME IInv, NEW p \in Peers, NEW incoming, NEW socket \in Sockets,
           ConnectionEstablished(p, incoming, socket)
    PROVE  NobodyForgotten
<1>0. db \in Databases /\ db.status \in [Peers -> Statuses]
  BY DEF IInv, Sound, Databases
<1>1. CASE goodbye_peer(p)
  <2>1. FatalScore(db, p) \in Scores
    BY <1>0 DEF FatalScore, Databases, Scores
  <2> QED BY <1>1, <2>1, ReportForgetsNobody DEF goodbye_peer
<1>2. CASE disconnect_peer(p)
  <2>1. db'.status = [db.status EXCEPT ![p] = "Disconnecting"]
    BY <1>0, <1>2, ToDisconnectingEffect DEF disconnect_peer
  <2> QED BY <1>0, <2>1 DEF NobodyForgotten, Forgotten
<1>3. CASE inject_peer_connection(p, socket)
  <2>1. db'.status = [db.status EXCEPT ![p] = "Connected"]
    BY <1>0, <1>3, ToConnectedEffect DEF inject_peer_connection
  <2> QED BY <1>0, <2>1 DEF NobodyForgotten, Forgotten
<1> QED BY <1>1, <1>2, <1>3 DEF ConnectionEstablished

\* The heartbeat forgets nobody.
LEMMA HeartbeatForgetsNobody ==
    ASSUME IInv, Heartbeat
    PROVE  NobodyForgotten
<1>1. PICK T \in SUBSET Dialing(db) :
        \E sc \in DecayedScores(cleanup_dialing_peers(db, T)) :
          \E P \in SUBSET Connected(update_scores(cleanup_dialing_peers(db, T), sc)) :
             db' = ToDisconnectingAll(update_scores(cleanup_dialing_peers(db, T), sc), P)
  BY DEF Heartbeat
<1>2. PICK cleaned : cleaned = cleanup_dialing_peers(db, T)
  OBVIOUS
<1>3. /\ Sound(cleaned)
      /\ cleaned.status = [p \in Peers |-> IF p \in T THEN "Disconnected" ELSE db.status[p]]
  BY <1>2, CleanupSound, CleanupEffect DEF IInv, Sound
<1>4. PICK sc \in DecayedScores(cleaned) :
        \E P \in SUBSET Connected(update_scores(cleaned, sc)) :
           db' = ToDisconnectingAll(update_scores(cleaned, sc), P)
  BY <1>1, <1>2
<1>5. PICK decayed : decayed = update_scores(cleaned, sc)
  OBVIOUS
<1>6. PICK U : U = Transition(cleaned, sc, Known(cleaned), "Unbanned")
  OBVIOUS
<1>7. decayed.status = [p \in Peers |-> IF p \in U /\ cleaned.status[p] = "Banned" THEN "Disconnected"
                                        ELSE cleaned.status[p]]
  BY <1>3, <1>5, <1>6, UpdateScoresEffect
<1>8. decayed \in Databases
  <2>1. sc \in [Peers -> Scores]
    BY DEF DecayedScores
  <2> QED BY <1>3, <1>5, <2>1, UpdateScoresSound DEF Sound
<1>9. PICK P \in SUBSET Connected(decayed) : db' = ToDisconnectingAll(decayed, P)
  BY <1>4, <1>5
<1>10. db'.status = [p \in Peers |-> IF p \in P THEN "Disconnecting" ELSE decayed.status[p]]
  BY <1>8, <1>9, ToDisconnectingAllEffect
<1> QED BY <1>3, <1>7, <1>10 DEF NobodyForgotten, Forgotten

\* What the purge of a disconnection forgets, unless the step also starts a dial.
OldestForgotten ==
    \A p, q \in Peers :
        Forgotten(p) /\ db.status[p] \in {"Disconnected", "Banned"} /\ Kept(q, db.status[p])
            => <<p, q>> \in db.older

\* Every step but a dial forgets the oldest peers, if any.
LEMMA StepForgetsOldest ==
    ASSUME IInv, [Next]_vars, peers_to_dial' = peers_to_dial
    PROVE  OldestForgotten
<1>0. db \in Databases /\ db.status \in [Peers -> Statuses] /\ Sound(db)
  BY DEF IInv, Sound, Databases
<1>1. CASE NobodyForgotten
  BY <1>1 DEF NobodyForgotten, OldestForgotten
<1>2. ASSUME NEW c \in Peers, NEW first, InjectDisconnect(db, c, first) PROVE OldestForgotten
  BY <1>0, <1>2, PurgesTheOldest DEF OldestForgotten
<1>3. CASE db' = db
  BY <1>1, <1>3 DEF NobodyForgotten, Forgotten
<1>4. ASSUME NEW p \in Peers, ReportPeer(p) PROVE OldestForgotten
  <2>1. PICK sc \in PenaltyScores(db, p) : ReportWithScore(p, sc)
    BY <1>4 DEF ReportPeer
  <2>2. sc \in Scores
    BY <1>0, <2>1 DEF PenaltyScores, Databases
  <2> QED BY <1>1, <2>1, <2>2, ReportForgetsNobody
<1>5. CASE UpdateGossipsubScores
  <2>1. PICK sc \in GossipsubScores(db) : db' = update_gossipsub_scores(db, sc)
    BY <1>5 DEF UpdateGossipsubScores
  <2>2. \A p \in Peers : db'.status[p] \in {"DisconnectingToBan", "Disconnecting", db.status[p]}
    <3>1. db'.status = [p \in Peers |->
            IF p \in Transition(db, sc, Connected(db), "Banned") THEN "DisconnectingToBan"
            ELSE IF p \in Transition(db, sc, Connected(db), "Disconnected") THEN "Disconnecting"
            ELSE db.status[p]]
      BY <1>0, <2>1, UpdateGossipsubScoresEffect
    <3> QED BY <3>1
  <2> QED BY <1>1, <2>2 DEF NobodyForgotten, Forgotten
<1>6. ASSUME NEW p \in Peers, IncomingConnection(p) \/ DialSucceeds(p) PROVE OldestForgotten
  BY <1>1, <1>6, ConnectionForgetsNobody DEF IncomingConnection, DialSucceeds
<1>7. ASSUME NEW p \in Peers, ConnectionClosed(p) PROVE OldestForgotten
  BY <1>2, <1>7 DEF ConnectionClosed
<1>8. ASSUME NEW p \in Peers, DialFails(p) PROVE OldestForgotten
  BY <1>2, <1>3, <1>8 DEF DialFails, InjectDialFailure
<1>9. ASSUME NEW found \in SUBSET Peers, NEW needed \in SUBSET found, PeersDiscovered(found, needed)
      PROVE  OldestForgotten
  <2>1. PICK S : db' = update_min_ttl(db, S)
    BY <1>9 DEF PeersDiscovered
  <2>2. \A p \in Peers : db'.status[p] \in {"Unknown", db.status[p]}
    <3>1. db'.status = [p \in Peers |-> IF p \in S /\ db.status[p] = "Absent" THEN "Unknown"
                                         ELSE db.status[p]]
      BY <1>0, <2>1, UpdateMinTtlEffect
    <3> QED BY <3>1
  <2> QED BY <1>1, <2>2 DEF NobodyForgotten, Forgotten
<1>10. CASE PollDial
  <2>1. peers_to_dial \in Seq([peer : Peers, trusted : BOOLEAN])
    BY DEF IInv, QueuesOK
  <2>2. Len(Tail(peers_to_dial)) # Len(peers_to_dial)
    BY <1>10, <2>1, HeadTailProperties DEF PollDial
  <2> QED BY <1>10, <2>2 DEF PollDial
<1>11. ASSUME NEW p \in Peers, DialReachesBannedPeer(p) \/ DialCachedEnr(p) \/ RpcRequest(p)
       PROVE  db' = db
  BY <1>11 DEF DialReachesBannedPeer, DialCachedEnr, RpcRequest, pmVars
<1>12. CASE UNCHANGED vars \/ PollEvent
  <2>1. db' = db
    BY <1>12 DEF PollEvent, vars
  <2> QED BY <1>3, <2>1
<1>13. CASE InnerNext
  BY <1>1, <1>3, <1>4, <1>5, <1>6, <1>7, <1>8, <1>9, <1>10, <1>11, <1>13, HeartbeatForgetsNobody
     DEF InnerNext
<1> QED BY <1>12, <1>13 DEF Next

\* A step that ends a connection is the end of a disconnection, with its purge.
LEMMA ClosureShrinks ==
    ASSUME IInv, CountsBanned(db), [Next]_vars, conn' \subseteq conn, conn' # conn
    PROVE  WithinLimits(db')
<1>1. PICK p \in Peers : ConnectionClosed(p)
  BY DEF Next, InnerNext, ReportPeer, UpdateGossipsubScores, IncomingConnection, DialSucceeds,
         ConnectionEstablished, DialReachesBannedPeer, DialFails, PeersDiscovered, DialCachedEnr,
         PollDial, PollEvent, RpcRequest, Heartbeat, swarmVars, vars
<1>2. PICK first : InjectDisconnect(db, p, first)
  BY <1>1 DEF ConnectionClosed
<1> QED BY <1>2, InjectDisconnectBans DEF IInv

\* shrink_to_fit, for any number of peers and any limits: whenever a connection has closed
\* the database holds no more banned and no more disconnected peers than it may, and the
\* banned or disconnected peers that a step forgets have been so for no less time than
\* the ones it keeps.  The first part rests on the counters, which decide how many go.
THEOREM AlwaysShrinksToFit ==
    ASSUME BanOutlastsDisconnect
    PROVE  Spec => ShrinksToFit
<1>1. IInv /\ BannedCounted /\ [Next]_vars =>
        [/\ conn' \subseteq conn /\ conn' # conn => WithinLimits(db)'
         /\ peers_to_dial' = peers_to_dial =>
              \A p, q \in Peers :
                  /\ Forgotten(p)
                  /\ db.status[p] \in {"Disconnected", "Banned"}
                  /\ Kept(q, db.status[p])
                  => <<p, q>> \in db.older]_vars
  <2> SUFFICES ASSUME IInv, BannedCounted, [Next]_vars
               PROVE  /\ conn' \subseteq conn /\ conn' # conn => WithinLimits(db)'
                      /\ peers_to_dial' = peers_to_dial => OldestForgotten
    BY DEF OldestForgotten
  <2>1. CountsBanned(db)
    BY DEF CountsBanned, BannedCounted
  <2>2. conn' \subseteq conn /\ conn' # conn => WithinLimits(db)'
    BY <2>1, ClosureShrinks DEF WithinLimits, Banned, Disconnected, InState
  <2> QED BY <2>2, StepForgetsOldest
<1> QED BY <1>1, AlwaysIInv, BannedAlwaysCounted, PTL DEF Spec, ShrinksToFit

-----------------------------------------------------------------------------
(* The main loop (Sentry).                                                 *)

\* Every trusted peer that is connected is an explicit peer, or its connection is still to
\* be announced.
ExplicitInv ==
    \A p \in trusted_peers : db.status[p] = "Connected" =>
        p \in explicit_peers \/ Has(events, p, {"PeerConnected"})

\* The inductive invariant.
SentryInv ==
    /\ IInv
    /\ trusted_peers \subseteq Peers
    /\ explicit_peers \subseteq trusted_peers
    /\ ExplicitInv

\* Initially nobody is trusted.
LEMMA SentryInitInv == SentryInit => SentryInv
BY InitIInv DEF SentryInit, SentryInv, ExplicitInv

\* An announcement is an event of the queue.
LEMMA AnnouncedHas ==
    ASSUME NEW s, NEW p, NEW ban, Speaks(s, p, ban, "PeerConnected")
    PROVE  Has(s, p, {"PeerConnected"})
BY DEF Speaks, LastWord, LastIs, Has, Event

\* The steps of the peer manager.
LEMMA InnerSentryStep ==
    ASSUME SentryInv, InnerNext, UNCHANGED sentryVars
    PROVE  SentryInv'
<1>1. IInv /\ trusted_peers' = trusted_peers /\ explicit_peers' = explicit_peers
  BY DEF SentryInv, sentryVars
<1>2. IInv'
  BY <1>1, NextIInv DEF Next
<1>3. PICK s \in Seq(Events) : events' = events \o s /\ \A p \in Peers : Effect(p, s)
  BY <1>1, InnerEffects DEF Effects
<1>4. events \in Seq(Events)
  BY <1>1 DEF IInv, QueuesOK
<1>5. ASSUME NEW p \in trusted_peers, db'.status[p] = "Connected"
      PROVE  p \in explicit_peers \/ Has(events', p, {"PeerConnected"})
  <2>1. p \in Peers
    BY DEF SentryInv
  <2>2. Has(events', p, {"PeerConnected"}) <=>
           Has(events, p, {"PeerConnected"}) \/ Has(s, p, {"PeerConnected"})
    BY <1>3, <1>4, HasJoined
  <2>3. Moves(p, s)
    BY <1>3, <2>1 DEF Effect
  <2>4. PICK ban : \/ Speaks(s, p, ban, "PeerConnected")
                   \/ db.status[p] = "Connected" /\ Speaks(s, p, ban, "None")
    BY <1>5, <2>1, <2>3, ConnectedWord
  <2>5. CASE Speaks(s, p, ban, "PeerConnected")
    BY <2>2, <2>5, AnnouncedHas
  <2>6. CASE db.status[p] = "Connected"
    BY <2>2, <2>6 DEF SentryInv, ExplicitInv
  <2> QED BY <2>4, <2>5, <2>6
<1>6. ExplicitInv'
  BY <1>1, <1>5 DEF ExplicitInv, Has
<1> QED BY <1>1, <1>2, <1>6 DEF SentryInv

\* The loop handles an event of the network.
LEMMA NetworkEventStep ==
    ASSUME SentryInv, NetworkEvent
    PROVE  SentryInv'
<1> PICK h : h = Head(events)
  OBVIOUS
<1>1. /\ IInv /\ PollEvent /\ trusted_peers' = trusted_peers
      /\ explicit_peers' = IF h.kind = "PeerConnected"
                           THEN explicit_peers \cup ({h.peer} \cap trusted_peers)
                           ELSE explicit_peers
  BY DEF SentryInv, NetworkEvent
<1>2. IInv'
  BY <1>1, NextIInv DEF Next
<1>3. events \in Seq(Events) /\ events # <<>> /\ events' = Tail(events) /\ db' = db
  BY <1>1 DEF PollEvent, IInv, QueuesOK
<1>4. ASSUME NEW p \in trusted_peers, db'.status[p] = "Connected"
      PROVE  p \in explicit_peers' \/ Has(events', p, {"PeerConnected"})
  <2>1. p \in Peers
    BY DEF SentryInv
  <2>2. p \in explicit_peers \/ Has(events, p, {"PeerConnected"})
    BY <1>3, <1>4 DEF SentryInv, ExplicitInv
  <2>3. Has(events, p, {"PeerConnected"}) <=>
           (h.peer = p /\ h.kind \in {"PeerConnected"}) \/ Has(Tail(events), p, {"PeerConnected"})
    <3>1. "PeerConnected" \in {"PeerConnected"}
      OBVIOUS
    <3> QED BY <1>3, <2>1, <3>1, TailWords
  <2> QED BY <1>1, <1>3, <2>2, <2>3
<1>5. ExplicitInv'
  BY <1>1, <1>4 DEF ExplicitInv, Has
<1> QED BY <1>1, <1>2, <1>5 DEF SentryInv

\* The command that adds a trusted peer: of a connected peer it is ignored.
LEMMA AddTrustedStep ==
    ASSUME SentryInv, NEW p \in Peers, AddTrusted(p)
    PROVE  SentryInv'
<1>1. /\ UNCHANGED <<db, events, ping_peers, status_peers, informed, explicit_peers>>
      /\ UNCHANGED <<conn, closing, dials, swarm_banned>>
  BY DEF AddTrusted, swarmVars
<1>2. peers_to_dial' \in Seq([peer : Peers, trusted : BOOLEAN])
  <2>1. QueuesOK /\ <<p>> \in Seq(Peers) /\ TRUE \in BOOLEAN
    BY DEF SentryInv, IInv
  <2>2. CASE QueueDials(<<p>>, TRUE)
    BY <2>1, <2>2, QueueDialsType
  <2>3. CASE peers_to_dial' = peers_to_dial
    BY <2>1, <2>3 DEF QueuesOK
  <2> QED BY <2>2, <2>3 DEF AddTrusted
<1>3. IInv'
  BY <1>1, <1>2 DEF SentryInv, IInv, QueuesOK, SwarmOK
<1>4. \/ trusted_peers' = trusted_peers
      \/ trusted_peers' = trusted_peers \cup {p} /\ db.status[p] # "Connected"
  BY DEF AddTrusted, is_connected
<1>5. ExplicitInv'
  BY <1>1, <1>4 DEF SentryInv, ExplicitInv
<1> QED BY <1>1, <1>3, <1>4, <1>5 DEF SentryInv

\* The command that removes a trusted peer.
LEMMA RemoveTrustedStep ==
    ASSUME SentryInv, NEW p \in Peers, RemoveTrusted(p)
    PROVE  SentryInv'
<1>1. UNCHANGED <<events, peers_to_dial, ping_peers, status_peers, conn, closing, dials, swarm_banned,
                  informed>>
  BY DEF RemoveTrusted, swarmVars
<1>2. CASE UNCHANGED <<trusted_peers, explicit_peers, db>>
  BY <1>1, <1>2 DEF SentryInv, IInv, QueuesOK, SwarmOK, ExplicitInv
<1>3. CASE /\ trusted_peers' = trusted_peers \ {p}
           /\ explicit_peers' = explicit_peers \ {p}
           /\ db' = [db EXCEPT !.trusted[p] = FALSE]
  <2> DEFINE f == [db.trusted EXCEPT ![p] = FALSE]
  <2>1. Sound(db) /\ db \in Databases
    BY DEF SentryInv, IInv, Sound
  <2>2. f \in [Peers -> BOOLEAN] /\ db' = [db EXCEPT !.trusted = f]
    BY <1>3, <2>1 DEF Databases
  <2> HIDE DEF f
  <2>3. /\ db' \in Databases /\ db'.status = db.status
        /\ db'.disconnected_peers = db.disconnected_peers
    BY <2>1, <2>2 DEF Databases
  <2>4. Sound(db')
    BY <2>1, <2>3, SoundSame
  <2>5. IInv'
    BY <1>1, <2>4 DEF SentryInv, IInv, QueuesOK, SwarmOK
  <2>6. ExplicitInv'
    BY <1>1, <1>3, <2>3 DEF SentryInv, ExplicitInv
  <2> QED BY <1>3, <2>5, <2>6 DEF SentryInv
<1> QED BY <1>2, <1>3 DEF RemoveTrusted

\* Every step keeps the inductive invariant.
LEMMA SentryNextInv ==
    ASSUME SentryInv, [SentryNext]_allVars
    PROVE  SentryInv'
<1>1. CASE SentryNext
  BY <1>1, InnerSentryStep, NetworkEventStep, AddTrustedStep, RemoveTrustedStep DEF SentryNext
<1>2. CASE UNCHANGED allVars
  BY <1>2 DEF allVars, vars, sentryVars, SentryInv, IInv, QueuesOK, SwarmOK, ExplicitInv
<1> QED BY <1>1, <1>2

\* Whatever the order of AddTrusted and RemoveTrusted commands, connections and queued
\* events, for any number of peers: gossipsub has no explicit peer that the sentry does
\* not trust, and every trusted peer that is connected is an explicit one, or becomes one
\* when the event that announces its connection is handled.
THEOREM ExplicitAlwaysMatch == SentrySpec => []ExplicitMatchTrusted
<1>1. SentryInv => ExplicitMatchTrusted
  <2> SUFFICES ASSUME SentryInv PROVE ExplicitMatchTrusted
    OBVIOUS
  <2>1. SentryTypeOK
    BY IInvMeaning DEF SentryInv, SentryTypeOK
  <2>2. ASSUME NEW p \in trusted_peers \cap Connected(db)
        PROVE  p \in explicit_peers \/ ~NoneQueued(p, {"PeerConnected"})
    BY <2>2 DEF SentryInv, ExplicitInv, Connected, InState, Has, NoneQueued
  <2> QED BY <2>1, <2>2 DEF ExplicitMatchTrusted, SentryInv
<1> QED BY <1>1, SentryInitInv, SentryNextInv, PTL DEF SentrySpec

\* The bans and the connections of the peer manager under the loop's commands: a command
\* changes neither a status nor a score, neither the queue nor the swarm.
LEMMA SentryBansStep ==
    ASSUME BanOutlastsDisconnect, ~ReportAnyPeer, SentryInv, AllBanInv, AllConnInv,
           [SentryNext]_allVars
    PROVE  AllBanInv' /\ AllConnInv' /\ (vars' = vars \/ AttendsConnections)
<1>0. IInv
  BY DEF SentryInv
<1>1. CASE [Next]_vars
  BY <1>0, <1>1, BanStep, ConnStep, AttendedStep
<1>2. CASE \E p \in Peers : AddTrusted(p) \/ RemoveTrusted(p)
  <2>1. /\ UNCHANGED <<events, conn, closing, swarm_banned, informed>>
        /\ db'.status = db.status /\ db'.score = db.score
    <3>1. PICK p \in Peers : AddTrusted(p) \/ RemoveTrusted(p)
      BY <1>2
    <3>2. CASE AddTrusted(p)
      BY <3>2 DEF AddTrusted, swarmVars
    <3>3. CASE RemoveTrusted(p)
      <4>1. db \in Databases
        BY <1>0 DEF IInv, Sound
      <4>2. db' = db \/ db' = [db EXCEPT !.trusted[p] = FALSE]
        BY <3>3 DEF RemoveTrusted
      <4>3. db'.status = db.status /\ db'.score = db.score
        BY <4>1, <4>2 DEF Databases
      <4> QED BY <3>3, <4>3 DEF RemoveTrusted, swarmVars
    <3> QED BY <3>1, <3>2, <3>3
  <2>2. ASSUME NEW p \in Peers
        PROVE  /\ (QueuedBan(p)' <=> QueuedBan(p)) /\ (Barred(p)' <=> Barred(p))
               /\ Unattended(p)' <=> Unattended(p)
    BY <2>1 DEF QueuedBan, Barred, Unattended, NoneQueued, Connected, InState
  <2> QED BY <2>1, <2>2 DEF AllBanInv, AllConnInv, BanInv, ConnInv, AttendsConnections
<1>3. [Next]_vars \/ \E p \in Peers : AddTrusted(p) \/ RemoveTrusted(p)
  BY DEF SentryNext, NetworkEvent, Next, allVars
<1> QED BY <1>1, <1>2, <1>3

\* The same for the whole sentry, whatever peers are trusted and untrusted on the way, by
\* commands or by a dial that is marked as trusted.
THEOREM SentryForgetsNoConnection ==
    ASSUME BanOutlastsDisconnect, ~ReportAnyPeer
    PROVE  SentrySpec => NoForgottenConnection
<1>1. SentryInit => AllBanInv /\ AllConnInv
  BY BanInit, ConnInit DEF SentryInit
<1>2. SentryInv /\ AllBanInv /\ AllConnInv /\ [SentryNext]_allVars => AllBanInv' /\ AllConnInv'
  BY SentryBansStep
<1>3. SentryInv /\ AllBanInv /\ AllConnInv /\ [SentryNext]_allVars =>
        [\A p \in Peers :
            ~Unattended(p) /\ Unattended(p)' =>
                p \notin conn /\ ban_status(db, p) # "NotBanned" /\ Exempt(db, p)]_vars
  BY SentryBansStep DEF AttendsConnections
<1> QED BY <1>1, <1>2, <1>3, SentryInitInv, SentryNextInv, PTL DEF SentrySpec, NoForgottenConnection
=============================================================================
