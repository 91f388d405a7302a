----------------------------- MODULE LocalRecord -----------------------------
(***************************************************************************)
(* What the node tells others of itself: its key, its ENR (discovery/enr.rs *)
(* and discovery/mod.rs) and its metadata (network/utils.rs and             *)
(* network/mod.rs), each with a file that survives a restart.               *)
(*                                                                         *)
(* Others keep, for a node id, the ENR and the metadata of the highest      *)
(* sequence number.  So a node that comes back must not use a sequence      *)
(* number again for something else.                                         *)
(*                                                                         *)
(* A file is truncated (File::create) and then written.  Each of the two is *)
(* a step that can fail, and the program can be killed before, between and  *)
(* after them: todo holds the steps that the running handler has still to   *)
(* take.  discv5 runs in a task of its own and changes the ENR meanwhile.   *)
(***************************************************************************)
EXTENDS Integers, Sequences

CONSTANTS
    Keys,       \* the keys that can be generated
    Configs,    \* records [ip, udp, tcp, eth2] of NetworkConfig and fork id
    NextForks,  \* the fork ids that the application may change to
    Sockets,    \* records [ip, udp]: addresses that peers may report
    Subnets,    \* attestation and sync committee subnets
    None, NoFile, Garbage,
    MaxSeq,     \* bound: the largest sequence number of an ENR
    MaxEvents,  \* bound on the events that wait for discovery
    MaxFaults   \* bound on the operations on files that fail

ASSUME RecordAssumption ==
    /\ \A c \in Configs :
           c = [ip |-> c.ip, udp |-> c.udp, tcp |-> c.tcp, eth2 |-> c.eth2]
    /\ \A a \in Sockets : DOMAIN a = {"ip", "udp"} /\ None \notin {a.ip, a.udp}
    /\ MaxSeq \in Nat \ {0}
    /\ MaxEvents \in Nat /\ MaxFaults \in Nat

VARIABLES
    disk,               \* the three files
    mode,               \* "Down", "Starting" or "Serving"
    todo,               \* the steps before the running handler returns
    node,               \* the memory of the program
    used_keys,          \* the keys generated so far: they never repeat
    faults,             \* the operations on files that have failed
    missed,             \* history: the copies that a failure left behind
    published_enrs,     \* history: the ENRs that others may have seen
    published_metadata, \* history: the metadata that others have seen, by key
    kept                \* history: no crash or failed read has lost a record
                        \* that others may have seen

recordVars == <<disk, mode, todo, node, used_keys, faults, missed, published_enrs,
                published_metadata, kept>>
histories == <<published_enrs, published_metadata, kept>>

Seqs == 1 .. MaxSeq
MetadataSeqs == 0 .. MaxSeq - 1
Values(field) == {c[field] : c \in Configs}
Forks == Values("eth2") \cup NextForks
Enrs == [key : Keys, seq : Seqs, ip : Values("ip") \cup {a.ip : a \in Sockets},
         udp : Values("udp") \cup {a.udp : a \in Sockets}, tcp : Values("tcp"),
         eth2 : Forks, subnets : SUBSET Subnets]
\* What MetaDataV2 and MetaDataV1 decode to; a V1 is a V2 cut short.
Metadata == [version : {1, 2}, seq : MetadataSeqs, subnets : SUBSET Subnets]

\* What stands for the absence of a value or of a file, and for a file that does not
\* decode, is none of the records.
ASSUME MarkersAssumption ==
    \A x \in {None, NoFile, Garbage} : x \notin Keys /\ x \notin Enrs /\ x \notin Metadata

Files == {"key", "enr", "metadata"}
Create == [key |-> "create_key", enr |-> "create_enr", metadata |-> "create_metadata"]
Write == [key |-> "write_key", enr |-> "write_enr", metadata |-> "write_metadata"]
Steps == {"load_private_key", "use_or_load_enr", "load_or_build_metadata", "start",
          "globals", "hold", "metadata", "fork_id", "globals_held"}
         \cup {Create[file] : file \in Files} \cup {Write[file] : file \in Files}

\* The memory: what the application has asked for (config), the key, the ENR of
\* discv5 (enr) and of NetworkGlobals (globals), the ENR that a save was called with
\* (held), the metadata, the network service's fork id, discovery's stream of events and
\* the SocketUpdated events in it.
NoMemory ==
    [config |-> None, key |-> None, enr |-> None, globals |-> None, held |-> None,
     metadata |-> None, fork |-> None, stream |-> "InActive", events |-> 0]

\* The files, the memory and the handler's progress have their types.
RecordTypeOK ==
    /\ disk.key \in Keys \cup {NoFile, Garbage}
    /\ disk.enr \in Enrs \cup {NoFile, Garbage}
    /\ disk.metadata \in Metadata \cup {NoFile, Garbage}
    /\ mode \in {"Down", "Starting", "Serving"}
    /\ \A i \in DOMAIN todo : todo[i] \in Steps
    /\ node.key \in Keys \cup {None} /\ used_keys \subseteq Keys
    /\ {node.enr, node.globals, node.held} \subseteq Enrs \cup {None}
    /\ node.metadata \in Metadata \cup {None} /\ node.fork \in Forks \cup {None}
    /\ node.stream \in {"Awaiting", "Present", "InActive"}
    /\ node.events \in 0 .. MaxEvents /\ faults \in 0 .. MaxFaults
    /\ missed \subseteq {"key", "enr", "metadata", "globals"}
    /\ published_enrs \subseteq Enrs /\ kept \in BOOLEAN

RecordInit ==
    /\ disk = [key |-> NoFile, enr |-> NoFile, metadata |-> NoFile]
    /\ mode = "Down" /\ todo = <<>> /\ node = NoMemory
    /\ used_keys = {} /\ faults = 0 /\ missed = {}
    /\ published_enrs = {} /\ published_metadata = {} /\ kept = TRUE

\* The histories of the key on disk, if nothing of them is lost: a key that is not
\* there any longer never returns.
Remember(all) ==
    /\ kept' = (kept /\ all)
    /\ published_enrs' = {e \in published_enrs : kept' /\ e.key = disk.key}
    /\ published_metadata' = {m \in published_metadata : kept' /\ m.key = disk.key}

Seen(records) == IF kept THEN records ELSE {}

Reached(step) == todo # <<>> /\ Head(todo) = step

-----------------------------------------------------------------------------
(* Files.                                                                  *)

Save(file) == <<Create[file], Write[file]>>

Fault == faults < MaxFaults /\ faults' = faults + 1

\* File::create truncates; if it fails, the write is skipped.
CreateFile(file) ==
    /\ Reached(Create[file])
    /\ \/ /\ disk' = [disk EXCEPT ![file] = Garbage]
          /\ todo' = Tail(todo)
          /\ UNCHANGED <<missed, faults>>
       \/ /\ Fault
          /\ todo' = Tail(Tail(todo))
          /\ missed' = missed \cup {file}
          /\ UNCHANGED disk
    /\ UNCHANGED <<mode, node, used_keys, histories>>

Content(file) ==
    CASE file = "key" -> node.key
      [] file = "enr" -> node.held
      [] file = "metadata" -> node.metadata

\* What a write that stops early leaves: nothing that decodes, or of a V2
\* metadata the part that is a V1.
Partial(file) ==
    {Garbage} \cup IF file = "metadata" THEN {[node.metadata EXCEPT !.version = 1]} ELSE {}

\* The copy is current again, unless discv5 has changed the record since the save
\* was called.
Repaired(file) == IF file = "enr" /\ node.held # node.enr THEN missed ELSE missed \ {file}

\* A failed write is logged and not tried again.
WriteFile(file) ==
    /\ Reached(Write[file])
    /\ \/ /\ disk' = [disk EXCEPT ![file] = Content(file)]
          /\ missed' = Repaired(file)
          /\ UNCHANGED faults
       \/ \E part \in Partial(file) :
              /\ Fault
              /\ disk' = [disk EXCEPT ![file] = part]
              /\ missed' = missed \cup {file}
    /\ todo' = Tail(todo)
    /\ UNCHANGED <<mode, node, used_keys, histories>>

\* A file may not open or not be read although it is there: it counts as no file,
\* and what it held is lost; the key's successor has no past.
Reads(file, found) ==
    \/ found = disk[file] /\ UNCHANGED <<faults, histories>>
    \/ found = NoFile /\ disk[file] # NoFile /\ Fault /\ Remember(file = "key")

-----------------------------------------------------------------------------
(* Start-up: Network::new.                                                 *)

Start(c) ==
    /\ mode = "Down"
    /\ mode' = "Starting"
    /\ node' = [NoMemory EXCEPT !.config = c]
    /\ todo' = <<"load_private_key", "use_or_load_enr", "load_or_build_metadata", "start">>
    /\ UNCHANGED <<disk, used_keys, faults, missed, histories>>

\* The key on disk, or a fresh one that is saved.
load_private_key ==
    /\ Reached("load_private_key")
    /\ \E found \in {disk.key, NoFile} :
           /\ Reads("key", found)
           /\ \/ /\ found \in Keys
                 /\ node' = [node EXCEPT !.key = found]
                 /\ todo' = Tail(todo)
                 /\ UNCHANGED used_keys
              \/ /\ found \notin Keys
                 /\ \E fresh \in Keys \ used_keys :
                        /\ node' = [node EXCEPT !.key = fresh]
                        /\ used_keys' = used_keys \cup {fresh}
                 /\ todo' = Save("key") \o Tail(todo)
    /\ UNCHANGED <<disk, mode, missed>>

\* The ENR that the configuration asks for, with the least sequence number.
build_enr ==
    [key |-> node.key, seq |-> 1, ip |-> node.config.ip, udp |-> node.config.udp,
     tcp |-> node.config.tcp, eth2 |-> node.config.eth2, subnets |-> {}]

\* Mutant: the subnets of the file are taken as they are.
compare_enr_AnySubnets(enr, found) ==
    /\ enr.ip \in {None, found.ip} /\ enr.udp \in {None, found.udp}
    /\ enr.tcp = found.tcp /\ enr.eth2 = found.eth2

\* The file's ENR says what the configuration asks for.
compare_enr(enr, found) ==
    /\ enr.ip \in {None, found.ip} /\ enr.udp \in {None, found.udp}
    /\ enr.tcp = found.tcp /\ enr.eth2 = found.eth2
    /\ enr.subnets = found.subnets

OfThisKey(found) == found \in Enrs /\ found.key = node.key

\* Mutant: the number is raised only when the endpoint changed.
NextSeq_SameEndpoint(found) ==
    IF found.ip = node.config.ip /\ found.tcp = node.config.tcp THEN found.seq
    ELSE found.seq + 1

NextSeq(found) == found.seq + 1

\* Network::new goes on with the ENR and does the steps first.
UseEnr(enr, steps) ==
    /\ node' = [node EXCEPT !.enr = enr, !.globals = enr, !.held = enr]
    /\ todo' = steps \o Tail(todo)
    /\ UNCHANGED <<mode, missed>>

StartFails ==
    /\ mode' = "Down" /\ todo' = <<>> /\ node' = NoMemory /\ missed' = {}

\* The ENR on disk, the new one with the next sequence number or, without a readable
\* ENR of this key, the new one as it is; without a next number the start fails.
use_or_load_enr ==
    /\ Reached("use_or_load_enr")
    /\ \E found \in {disk.enr, NoFile} :
           /\ Reads("enr", found)
           /\ IF ~OfThisKey(found) THEN UseEnr(build_enr, Save("enr"))
              ELSE IF compare_enr(build_enr, found) THEN UseEnr(found, <<>>)
              ELSE IF NextSeq(found) \in Seqs
              THEN UseEnr([build_enr EXCEPT !.seq = NextSeq(found)], Save("enr"))
              ELSE StartFails
    /\ UNCHANGED <<disk, used_keys>>

\* The sequence number of the first metadata: a V2 that is not the default, and
\* every V1, is another metadata than the one it is replaced by.
LoadedSeq(found) ==
    IF found \notin Metadata THEN 0
    ELSE IF found.version = 2 /\ found.subnets = {} THEN found.seq
    ELSE found.seq + 1

load_or_build_metadata ==
    /\ Reached("load_or_build_metadata")
    /\ \E found \in {disk.metadata, NoFile} :
           /\ Reads("metadata", found)
           /\ LoadedSeq(found) \in MetadataSeqs
           /\ node' = [node EXCEPT !.held = None,
                  !.metadata = [version |-> 2, seq |-> LoadedSeq(found), subnets |-> {}]]
    /\ todo' = Save("metadata") \o Tail(todo)
    /\ UNCHANGED <<disk, mode, used_keys, missed>>

\* Discovery::new starts discv5 with the ENR, and others can see it from now on;
\* the network service takes its fork id from it.
StartDiscovery ==
    /\ Reached("start")
    /\ mode' = "Serving" /\ todo' = Tail(todo)
    /\ node' = [node EXCEPT !.fork = node.globals.eth2, !.stream = "Awaiting"]
    /\ published_enrs' = published_enrs \cup Seen({node.enr})
    /\ UNCHANGED <<disk, used_keys, faults, missed, published_metadata, kept>>

-----------------------------------------------------------------------------
(* A running node.                                                         *)

Idle == mode = "Serving" /\ todo = <<>>

\* discv5 changes fields of its ENR and raises the sequence number.
Inserted(enr) == [enr EXCEPT !.seq = @ + 1]

\* The node goes on with this memory, and others may see its ENR.
Becomes(memory) ==
    /\ memory.enr.seq \in Seqs
    /\ node' = memory
    /\ published_enrs' = published_enrs \cup Seen({memory.enr})
    /\ UNCHANGED <<disk, mode, used_keys, faults, published_metadata, kept>>

SaveMetadata == <<"metadata">> \o Save("metadata")

\* What follows an insertion: the global copy, and the file.
EnrSteps == <<"globals", "hold">> \o Save("enr")

\* The subnet is put into the ENR or taken out; nothing is done, and nothing
\* saved, when it has its value already.
update_enr_bitfield(s, value) ==
    \/ /\ (s \in node.enr.subnets) = value
       /\ Becomes(node)
       /\ todo' = SaveMetadata
    \/ /\ (s \in node.enr.subnets) # value
       /\ LET subnets == IF value THEN node.enr.subnets \cup {s} ELSE node.enr.subnets \ {s}
          IN  Becomes([node EXCEPT !.enr = Inserted([node.enr EXCEPT !.subnets = subnets])])
       /\ todo' = EnrSteps \o SaveMetadata

\* The metadata is updated whether the ENR has changed or not.
update_enr_subnet(s, value) ==
    /\ Idle
    /\ node.metadata.seq + 1 \in MetadataSeqs
    /\ update_enr_bitfield(s, value)
    /\ UNCHANGED missed

update_eth2_enr(fork) ==
    Becomes([node EXCEPT !.enr = Inserted([node.enr EXCEPT !.eth2 = fork]), !.config.eth2 = fork])

update_fork_version(fork) ==
    /\ Idle
    /\ update_eth2_enr(fork)
    /\ todo' = EnrSteps \o <<"fork_id">>
    /\ UNCHANGED missed

\* The metadata is raised and takes the subnets that the ENR has by now.
update_metadata_bitfields ==
    [node EXCEPT !.held = None,
                 !.metadata = [node.metadata EXCEPT !.seq = @ + 1, !.subnets = node.enr.subnets]]

\* The steps of the handlers between their saves: the global copy, the ENR that a save
\* is called with, the metadata, and the network service's fork id.
UpdateStep ==
    /\ \/ Reached("globals") /\ node' = [node EXCEPT !.globals = node.enr]
       \/ Reached("hold") /\ node' = [node EXCEPT !.held = node.enr]
       \/ Reached("metadata") /\ node' = update_metadata_bitfields
       \/ Reached("fork_id") /\ node' = [node EXCEPT !.held = None, !.fork = node.config.eth2]
       \/ Reached("globals_held") /\ node' = [node EXCEPT !.held = None, !.globals = node.held]
    /\ todo' = Tail(todo)
    /\ missed' = IF node'.globals = node.enr THEN missed \ {"globals"} ELSE missed
    /\ UNCHANGED <<disk, mode, used_keys, faults, histories>>

\* A peer asks for the metadata, or learns its number from a PING and then asks.
send_meta_data_response ==
    /\ Idle
    /\ published_metadata' =
           published_metadata \cup Seen({[key |-> node.key, metadata |-> node.metadata]})
    /\ UNCHANGED <<disk, mode, todo, node, used_keys, faults, missed, published_enrs, kept>>

\* discv5 learns its address from peers, at any time, and tells whoever has asked
\* for its events by then.
SocketUpdate(a) ==
    /\ mode = "Serving"
    /\ node.enr.ip # a.ip \/ node.enr.udp # a.udp
    /\ LET moved == [node EXCEPT !.enr = Inserted([node.enr EXCEPT !.ip = a.ip, !.udp = a.udp])]
       IN  \/ /\ node.stream = "Present"
              /\ node.events < MaxEvents
              /\ Becomes([moved EXCEPT !.events = @ + 1])
              /\ UNCHANGED missed
           \/ /\ node.stream # "Present"
              /\ Becomes(moved)
              /\ missed' = missed \cup {"enr", "globals"}
    /\ UNCHANGED todo

\* poll gets the stream of events, or learns that there is none.
PollStream ==
    /\ Idle
    /\ node.stream = "Awaiting"
    /\ \E stream \in {"Present", "InActive"} : node' = [node EXCEPT !.stream = stream]
    /\ UNCHANGED <<disk, mode, todo, used_keys, faults, missed, histories>>

\* poll takes a SocketUpdated event: the ENR as it is now is saved, and becomes the
\* global copy afterwards.
PollSocketUpdated ==
    /\ Idle
    /\ node.events > 0
    /\ node' = [node EXCEPT !.events = @ - 1, !.held = node.enr]
    /\ todo' = Save("enr") \o <<"globals_held">>
    /\ UNCHANGED <<disk, mode, used_keys, faults, missed, histories>>

-----------------------------------------------------------------------------

\* The files are as new as everything that others may have seen of this key.
Recorded ==
    /\ \A e \in published_enrs : e.key = disk.key =>
           /\ disk.enr \in Enrs
           /\ disk.enr.key = e.key
           /\ e.seq < disk.enr.seq \/ e = disk.enr
    /\ \A m \in published_metadata : m.key = disk.key =>
           /\ disk.metadata \in Metadata
           /\ \/ m.metadata.seq < disk.metadata.seq
              \/ m.metadata = disk.metadata
              \/ m.metadata.seq = disk.metadata.seq /\ disk.metadata.version = 1

\* The program is stopped or killed: the files stay as they are.
Crash ==
    /\ mode # "Down"
    /\ mode' = "Down" /\ todo' = <<>> /\ node' = NoMemory /\ missed' = {}
    /\ Remember(Recorded)
    /\ UNCHANGED <<disk, used_keys, faults>>

RecordNext ==
    \/ \E file \in Files : CreateFile(file) \/ WriteFile(file)
    \/ \E c \in Configs : Start(c)
    \/ load_private_key \/ use_or_load_enr \/ load_or_build_metadata \/ StartDiscovery
    \/ \E s \in Subnets : \E value \in BOOLEAN : update_enr_subnet(s, value)
    \/ \E fork \in NextForks : update_fork_version(fork)
    \/ UpdateStep \/ send_meta_data_response
    \/ \E a \in Sockets : SocketUpdate(a)
    \/ PollStream \/ PollSocketUpdated
    \/ Crash

RecordSpec == RecordInit /\ [][RecordNext]_recordVars

-----------------------------------------------------------------------------

\* Between two handlers, and once the events of discv5 are handled, every copy of the
\* node's record is current, unless a failed write or an event that nobody was told
\* of has left it behind; nothing else does, not even discv5 changing the ENR in
\* the middle of an update.
CopiesCurrent ==
    Idle /\ node.events = 0 =>
        /\ "key" \notin missed => disk.key = node.key
        /\ "enr" \notin missed => disk.enr = node.enr
        /\ "globals" \notin missed => node.globals = node.enr
        /\ "metadata" \notin missed => disk.metadata = node.metadata

\* The ENR, the metadata and the fork id say the same, and what the application has
\* asked for, whichever ENR was on disk.
SaysTheSame ==
    Idle =>
        /\ node.metadata.subnets = node.enr.subnets
        /\ node.enr.tcp = node.config.tcp
        /\ node.enr.eth2 = node.config.eth2 /\ node.fork = node.config.eth2

\* The node's records agree in memory and on disk, through updates, restarts, failed
\* operations on files and changes by discv5.
RecordsConsistent == RecordTypeOK /\ CopiesCurrent /\ SaysTheSame

\* Unless a crash or a failed read has lost what others may have seen, no sequence
\* number of a key stands for two records, and the node's own is the highest: neither
\* a restart with another configuration nor the subnets of the last run bring an old
\* number back.  And a stop of an idle node without failures loses nothing.
SequenceKept ==
    kept =>
        /\ \A d, e \in published_enrs : d.key = e.key /\ d.seq = e.seq => d = e
        /\ \A m, n \in published_metadata :
               m.key = n.key /\ m.metadata.seq = n.metadata.seq => m = n
        /\ mode = "Serving" =>
               /\ \A e \in published_enrs : e.key = node.key => e.seq <= node.enr.seq
               /\ \A m \in published_metadata :
                      m.key = node.key => m.metadata.seq <= node.metadata.seq
        /\ Idle /\ node.events = 0 /\ missed = {} => Recorded
=============================================================================
