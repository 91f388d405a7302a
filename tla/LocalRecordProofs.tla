------------------------- MODULE LocalRecordProofs -------------------------
(***************************************************************************)
(* Proofs about LocalRecord, for any keys, configurations, forks, addresses *)
(* and subnets and any bounds: the node's records agree, and no sequence    *)
(* number is used twice.                                                   *)
(*                                                                         *)
(* A handler is a list of steps, and the program can be killed between any  *)
(* two.  Every list that can be left is given a label, and the invariant    *)
(* says, for each label, which parts of the memory are set, which copies    *)
(* are current, and what is ahead of everything that others have seen: the  *)
(* files before they are read, the memory from then on.                     *)
(***************************************************************************)
EXTENDS LocalRecord, SequenceTheorems, TLAPS

-----------------------------------------------------------------------------
(* Where a handler is: a label for each list of steps that a node can still *)
(* have to take.                                                           *)

\* The first ten are the start-up, Network::new; s_ and m_ are the update of a subnet,
\* f_ that of the fork, e_ the handling of an event of discv5.
Plan(l) ==
    CASE l = "key" -> <<"load_private_key", "use_or_load_enr", "load_or_build_metadata", "start">>
      [] l = "key_create" -> <<"create_key", "write_key", "use_or_load_enr",
                               "load_or_build_metadata", "start">>
      [] l = "key_write" -> <<"write_key", "use_or_load_enr", "load_or_build_metadata", "start">>
      [] l = "enr" -> <<"use_or_load_enr", "load_or_build_metadata", "start">>
      [] l = "enr_create" -> <<"create_enr", "write_enr", "load_or_build_metadata", "start">>
      [] l = "enr_write" -> <<"write_enr", "load_or_build_metadata", "start">>
      [] l = "meta" -> <<"load_or_build_metadata", "start">>
      [] l = "meta_create" -> <<"create_metadata", "write_metadata", "start">>
      [] l = "meta_write" -> <<"write_metadata", "start">>
      [] l = "start" -> <<"start">>
      [] l = "idle" -> <<>>
      [] l = "s_globals" -> <<"globals", "hold", "create_enr", "write_enr",
                              "metadata", "create_metadata", "write_metadata">>
      [] l = "s_hold" -> <<"hold", "create_enr", "write_enr",
                           "metadata", "create_metadata", "write_metadata">>
      [] l = "s_create" -> <<"create_enr", "write_enr",
                             "metadata", "create_metadata", "write_metadata">>
      [] l = "s_write" -> <<"write_enr", "metadata", "create_metadata", "write_metadata">>
      [] l = "s_metadata" -> <<"metadata", "create_metadata", "write_metadata">>
      [] l = "m_create" -> <<"create_metadata", "write_metadata">>
      [] l = "m_write" -> <<"write_metadata">>
      [] l = "f_globals" -> <<"globals", "hold", "create_enr", "write_enr", "fork_id">>
      [] l = "f_hold" -> <<"hold", "create_enr", "write_enr", "fork_id">>
      [] l = "f_create" -> <<"create_enr", "write_enr", "fork_id">>
      [] l = "f_write" -> <<"write_enr", "fork_id">>
      [] l = "f_id" -> <<"fork_id">>
      [] l = "e_create" -> <<"create_enr", "write_enr", "globals_held">>
      [] l = "e_write" -> <<"write_enr", "globals_held">>
      [] l = "e_globals" -> <<"globals_held">>

\* The labels of a node that starts, and of one that runs.
StartLabels == {"key", "key_create", "key_write", "enr", "enr_create", "enr_write",
                "meta", "meta_create", "meta_write", "start"}
ServeLabels == {"idle", "s_globals", "s_hold", "s_create", "s_write", "s_metadata",
                "m_create", "m_write", "f_globals", "f_hold", "f_create", "f_write", "f_id",
                "e_create", "e_write", "e_globals"}
Labels == StartLabels \cup ServeLabels

\* The labels before the ENR, and the metadata, of this run is known; at which an ENR
\* is being saved, at which a handler will still save the ENR or the metadata, handles an
\* event, or will still set the global copy, the metadata or the fork id.
BeforeEnr == {"key", "key_create", "key_write", "enr"}
BeforeMeta == BeforeEnr \cup {"enr_create", "enr_write", "meta"}
SavesEnr == {"enr_create", "enr_write", "s_create", "s_write", "f_create", "f_write",
             "e_create", "e_write"}
WillSaveEnr == SavesEnr \cup {"s_globals", "s_hold", "f_globals", "f_hold"}
WillSaveMeta == {"meta_create", "meta_write", "m_create", "m_write"}
EventLabels == {"e_create", "e_write", "e_globals"}
WillSetGlobals == EventLabels \cup {"s_globals", "f_globals"}
WillSetMeta == {"s_globals", "s_hold", "s_create", "s_write", "s_metadata"}
WillSetFork == {"f_globals", "f_hold", "f_create", "f_write", "f_id"}

-----------------------------------------------------------------------------
(* The inductive invariant.                                                *)

\* The configuration, with the fork id that may have changed since the start.
Settings == [ip : Values("ip"), udp : Values("udp"), tcp : Values("tcp"), eth2 : Forks]
Memories ==
    [config : Settings \cup {None}, key : Keys \cup {None}, enr : Enrs \cup {None},
     globals : Enrs \cup {None}, held : Enrs \cup {None}, metadata : Metadata \cup {None},
     fork : Forks \cup {None}, stream : {"Awaiting", "Present", "InActive"},
     events : 0 .. MaxEvents]
Disks == [key : Keys \cup {NoFile, Garbage}, enr : Enrs \cup {NoFile, Garbage},
          metadata : Metadata \cup {NoFile, Garbage}]

\* The types.
TypesOK ==
    /\ disk \in Disks /\ node \in Memories
    /\ used_keys \subseteq Keys /\ faults \in 0 .. MaxFaults
    /\ missed \subseteq {"key", "enr", "metadata", "globals"}
    /\ kept \in BOOLEAN
    /\ published_enrs \subseteq Enrs
    /\ published_metadata \subseteq [key : Keys, metadata : Metadata]

\* Every key that is on disk or that others know has been generated.
KeysUsed ==
    /\ disk.key \in Keys => disk.key \in used_keys
    /\ \A e \in published_enrs : e.key \in used_keys
    /\ \A m \in published_metadata : m.key \in used_keys

\* A sequence number of a key stands for one record.
OneRecord ==
    /\ ~kept => published_enrs = {} /\ published_metadata = {}
    /\ \A d, e \in published_enrs : d.key = e.key /\ d.seq = e.seq => d = e
    /\ \A m, n \in published_metadata :
           m.key = n.key /\ m.metadata.seq = n.metadata.seq => m = n

\* The node's ENR, and its metadata, is the newest that others may have of its key.
EnrAhead == \A e \in published_enrs : e.key = node.key => e.seq < node.enr.seq \/ e = node.enr
MetaAhead == \A m \in published_metadata : m.key = node.key =>
    m.metadata.seq < node.metadata.seq \/ m.metadata = node.metadata
\* The file of the ENR, and of the metadata, is as new as what others have of the key.
EnrFile(key) == \A e \in published_enrs : e.key = key =>
           /\ disk.enr \in Enrs
           /\ disk.enr.key = e.key
           /\ e.seq < disk.enr.seq \/ e = disk.enr
MetaFile(key) == \A m \in published_metadata : m.key = key =>
           /\ disk.metadata \in Metadata
           /\ \/ m.metadata.seq < disk.metadata.seq
              \/ m.metadata = disk.metadata
              \/ m.metadata.seq = disk.metadata.seq /\ disk.metadata.version = 1

\* A copy may be old: a failure has left it behind, or an event of discv5 waits.
Outrun(file) == file \in missed \/ node.events > 0

\* What others have seen, compared with the files until they are read, and with the
\* memory afterwards.
HistoryOK(l) ==
    /\ l \in BeforeEnr => EnrFile(disk.key) /\ MetaFile(disk.key)
    /\ l \in BeforeEnr \ {"key"} => EnrFile(node.key)
    /\ l \in BeforeMeta \ {"key"} => MetaFile(node.key)
    /\ l \notin BeforeEnr => EnrAhead
    /\ l \notin BeforeMeta => MetaAhead

\* What the memory says, from the step on that sets it.
ContentOK(l) ==
    /\ node.config \in Settings
    /\ l # "key" => node.key \in used_keys
    /\ l \notin BeforeEnr => 
           /\ node.enr \in Enrs /\ node.enr.key = node.key
           /\ node.enr.tcp = node.config.tcp /\ node.enr.eth2 = node.config.eth2
           /\ l \in StartLabels => node.enr.subnets = {} /\ node.globals = node.enr
    /\ l \notin BeforeMeta =>
           /\ node.metadata \in Metadata /\ node.metadata.version = 2
           /\ l \in WillSetMeta => node.metadata.seq + 1 \in MetadataSeqs
           /\ l \notin WillSetMeta => node.metadata.subnets = node.enr.subnets
    /\ l \in ServeLabels \ WillSetFork => node.fork = node.config.eth2
    /\ l \in SavesEnr \cup EventLabels => node.held \in Enrs

\* Which copies are current: those that the handler does not renew any more.
CopiesOK(l) ==
    /\ l \notin {"key", "key_create", "key_write"} => "key" \in missed \/ disk.key = node.key
    /\ l \notin BeforeEnr \cup WillSaveEnr => Outrun("enr") \/ disk.enr = node.enr
    /\ l \in SavesEnr => Outrun("enr") \/ node.held = node.enr
    /\ l \in EventLabels => Outrun("globals") \/ node.held = node.enr
    /\ l \notin BeforeEnr \cup WillSetGlobals => Outrun("globals") \/ node.globals = node.enr
    /\ l \notin BeforeMeta \cup WillSaveMeta =>
           "metadata" \in missed \/ disk.metadata = node.metadata

\* A node that is at this label.
At(l) ==
    /\ todo = Plan(l)
    /\ mode = IF l \in StartLabels THEN "Starting" ELSE "Serving"
    /\ ContentOK(l) /\ CopiesOK(l) /\ HistoryOK(l)

\* A node that is down, and whose files are as new as what others have seen of the
\* key on disk; or one that is at some label.
RecordInv ==
    /\ TypesOK /\ KeysUsed /\ OneRecord
    /\ \/ mode = "Down" /\ todo = <<>> /\ node = NoMemory
          /\ EnrFile(disk.key) /\ MetaFile(disk.key)
       \/ \E l \in Labels : At(l)

-----------------------------------------------------------------------------
(* Labels and lists.                                                       *)

\* The step to take at a label.
Step(l) ==
    CASE l = "key" -> "load_private_key"
      [] l = "key_create" -> "create_key"
      [] l = "key_write" -> "write_key"
      [] l = "enr" -> "use_or_load_enr"
      [] l \in {"enr_create", "s_create", "f_create", "e_create"} -> "create_enr"
      [] l \in {"enr_write", "s_write", "f_write", "e_write"} -> "write_enr"
      [] l = "meta" -> "load_or_build_metadata"
      [] l \in {"meta_create", "m_create"} -> "create_metadata"
      [] l \in {"meta_write", "m_write"} -> "write_metadata"
      [] l = "start" -> "start"
      [] l \in {"s_globals", "f_globals"} -> "globals"
      [] l \in {"s_hold", "f_hold"} -> "hold"
      [] l = "s_metadata" -> "metadata"
      [] l = "f_id" -> "fork_id"
      [] l = "e_globals" -> "globals_held"

\* The label after that step, when the step adds none of its own.
After(l) ==
    CASE l \in {"key", "key_write"} -> "enr"
      [] l = "key_create" -> "key_write"
      [] l \in {"enr", "enr_write"} -> "meta"
      [] l = "enr_create" -> "enr_write"
      [] l \in {"meta", "meta_write"} -> "start"
      [] l = "meta_create" -> "meta_write"
      [] l \in {"start", "m_write", "f_id", "e_globals"} -> "idle"
      [] l = "s_globals" -> "s_hold"
      [] l = "s_hold" -> "s_create"
      [] l = "s_create" -> "s_write"
      [] l = "s_write" -> "s_metadata"
      [] l = "s_metadata" -> "m_create"
      [] l = "m_create" -> "m_write"
      [] l = "f_globals" -> "f_hold"
      [] l = "f_hold" -> "f_create"
      [] l = "f_create" -> "f_write"
      [] l = "f_write" -> "f_id"
      [] l = "e_create" -> "e_write"
      [] l = "e_write" -> "e_globals"

\* The first step of a list, and the label of the list after it.
LEMMA PlanSteps ==
    ASSUME NEW l \in Labels \ {"idle"}
    PROVE  /\ Plan(l) # <<>> /\ Head(Plan(l)) = Step(l)
           /\ Tail(Plan(l)) = Plan(After(l)) /\ After(l) \in Labels
<1>1. After(l) \in Labels
  BY DEF After, Labels, StartLabels, ServeLabels
<1>2. Plan(l) # <<>> /\ Head(Plan(l)) = Step(l)
  BY DEF Plan, Step, Labels, StartLabels, ServeLabels
<1>3. Tail(Plan(l)) = Plan(After(l))
  <2>1. CASE l = "key"
    BY <2>1 DEF Plan, After
  <2>2. CASE l = "key_create"
    BY <2>2 DEF Plan, After
  <2>3. CASE l = "key_write"
    BY <2>3 DEF Plan, After
  <2>4. CASE l = "enr"
    BY <2>4 DEF Plan, After
  <2>5. CASE l = "enr_create"
    BY <2>5 DEF Plan, After
  <2>6. CASE l = "enr_write"
    BY <2>6 DEF Plan, After
  <2>7. CASE l = "meta"
    BY <2>7 DEF Plan, After
  <2>8. CASE l = "meta_create"
    BY <2>8 DEF Plan, After
  <2>9. CASE l = "meta_write"
    BY <2>9 DEF Plan, After
  <2>10. CASE l = "start"
    BY <2>10 DEF Plan, After
  <2>11. CASE l = "s_globals"
    BY <2>11 DEF Plan, After
  <2>12. CASE l = "s_hold"
    BY <2>12 DEF Plan, After
  <2>13. CASE l = "s_create"
    BY <2>13 DEF Plan, After
  <2>14. CASE l = "s_write"
    BY <2>14 DEF Plan, After
  <2>15. CASE l = "s_metadata"
    BY <2>15 DEF Plan, After
  <2>16. CASE l = "m_create"
    BY <2>16 DEF Plan, After
  <2>17. CASE l = "m_write"
    BY <2>17 DEF Plan, After
  <2>18. CASE l = "f_globals"
    BY <2>18 DEF Plan, After
  <2>19. CASE l = "f_hold"
    BY <2>19 DEF Plan, After
  <2>20. CASE l = "f_create"
    BY <2>20 DEF Plan, After
  <2>21. CASE l = "f_write"
    BY <2>21 DEF Plan, After
  <2>22. CASE l = "f_id"
    BY <2>22 DEF Plan, After
  <2>23. CASE l = "e_create"
    BY <2>23 DEF Plan, After
  <2>24. CASE l = "e_write"
    BY <2>24 DEF Plan, After
  <2>25. CASE l = "e_globals"
    BY <2>25 DEF Plan, After
  <2> QED BY <2>1, <2>2, <2>3, <2>4, <2>5, <2>6, <2>7, <2>8, <2>9, <2>10, <2>11, <2>12, <2>13,
             <2>14, <2>15, <2>16, <2>17, <2>18, <2>19, <2>20, <2>21, <2>22, <2>23, <2>24, <2>25
          DEF Labels, StartLabels, ServeLabels
<1> QED BY <1>1, <1>2, <1>3

\* The lists are made of steps.
LEMMA PlanTypes ==
    ASSUME NEW l \in Labels
    PROVE  Plan(l) \in Seq(Steps)
<1>1. \A file \in Files : Create[file] \in Steps /\ Write[file] \in Steps
  BY DEF Steps
<1>2. /\ {"load_private_key", "use_or_load_enr", "load_or_build_metadata", "start", "globals",
          "hold", "metadata", "fork_id", "globals_held"} \subseteq Steps
      /\ {"create_key", "create_enr", "create_metadata"} \subseteq Steps
      /\ {"write_key", "write_enr", "write_metadata"} \subseteq Steps
  <2>1. {"load_private_key", "use_or_load_enr", "load_or_build_metadata", "start", "globals",
          "hold", "metadata", "fork_id", "globals_held"} \subseteq Steps
    BY DEF Steps
  <2>2. /\ Create["key"] = "create_key" /\ Create["enr"] = "create_enr"
        /\ Create["metadata"] = "create_metadata" /\ Write["key"] = "write_key"
        /\ Write["enr"] = "write_enr" /\ Write["metadata"] = "write_metadata"
    BY DEF Create, Write
  <2>3. {"key", "enr", "metadata"} = Files
    BY DEF Files
  <2> QED BY <1>1, <2>1, <2>2, <2>3
<1> QED BY <1>2 DEF Plan, Labels, StartLabels, ServeLabels

\* A list is its first step and the others.
LEMMA FirstOne ==
    ASSUME NEW S, NEW t \in Seq(S), t # <<>>
    PROVE  <<Head(t)>> \o Tail(t) = t
<1>1. PICK h, u : h = Head(t) /\ u = Tail(t)
  OBVIOUS
<1>2. h \in S /\ u \in Seq(S)
  BY <1>1, HeadTailProperties
<1>3. t = <<h>> \o u
  BY <1>1, <1>2
<1> QED BY <1>1, <1>3

\* The same for its first two.
LEMMA FirstTwo ==
    ASSUME NEW S, NEW t \in Seq(S), t # <<>>, Tail(t) # <<>>
    PROVE  <<Head(t), Head(Tail(t))>> \o Tail(Tail(t)) = t
<1>1. PICK a, b, u, v : a = Head(t) /\ u = Tail(t) /\ b = Head(u) /\ v = Tail(u)
  OBVIOUS
<1>2. a \in S /\ u \in Seq(S) /\ b \in S /\ v \in Seq(S)
  BY <1>1, HeadTailProperties
<1>3. t = <<a>> \o u /\ u = <<b>> \o v
  BY <1>1, <1>2, FirstOne
<1>4. <<a>> \o (<<b>> \o v) = (<<a>> \o <<b>>) \o v
  BY <1>2, ConcatAssociative
<1>5. <<a>> \o <<b>> = <<a, b>>
  <2>1. <<a, b>> \in Seq(S) /\ <<a, b>> # <<>>
    BY <1>2
  <2>2. Head(<<a, b>>) = a /\ Tail(<<a, b>>) = <<b>>
    BY <1>2
  <2> QED BY <2>1, <2>2, FirstOne
<1> QED BY <1>1, <1>3, <1>4, <1>5

\* A handler whose next step is this one is at a label of the step.
LEMMA AtStep ==
    ASSUME RecordInv, NEW step, Reached(step)
    PROVE  \E l \in Labels \ {"idle"} :
               /\ At(l) /\ Step(l) = step
               /\ Tail(todo) = Plan(After(l)) /\ After(l) \in Labels
<1>1. todo # <<>> /\ Head(todo) = step
  BY DEF Reached
<1>2. PICK l \in Labels : At(l)
  BY <1>1 DEF RecordInv
<1>3. todo = Plan(l)
  BY <1>2 DEF At
<1>4. l # "idle"
  BY <1>1, <1>3 DEF Plan
<1> QED BY <1>1, <1>2, <1>3, <1>4, PlanSteps

\* A running node between two handlers is at the label for that.
LEMMA AtIdle == ASSUME RecordInv, Idle PROVE At("idle")
<1>1. PICK l \in Labels : At(l)
  BY DEF RecordInv, Idle
<1>2. l = "idle"
  BY <1>1, PlanSteps DEF At, Idle
<1> QED BY <1>1, <1>2

\* Initially there is no file and no memory.
LEMMA RecordInitInv == RecordInit => RecordInv
<1> SUFFICES ASSUME RecordInit PROVE RecordInv
  OBVIOUS
<1>1. /\ disk = [key |-> NoFile, enr |-> NoFile, metadata |-> NoFile] /\ node = NoMemory
      /\ mode = "Down" /\ todo = <<>>
      /\ used_keys = {} /\ faults = 0 /\ missed = {}
      /\ published_enrs = {} /\ published_metadata = {} /\ kept = TRUE
  BY DEF RecordInit
<1>2. TypesOK
  BY <1>1, RecordAssumption DEF TypesOK, Disks, Memories, NoMemory
<1>3. KeysUsed /\ OneRecord /\ EnrFile(disk.key) /\ MetaFile(disk.key)
  BY <1>1, MarkersAssumption DEF KeysUsed, OneRecord, EnrFile, MetaFile
<1> QED BY <1>1, <1>2, <1>3 DEF RecordInv

-----------------------------------------------------------------------------
(* The steps on files.                                                     *)

\* The labels at which a file is truncated, and written.
LEMMA FileLabels ==
    ASSUME NEW l \in Labels \ {"idle"}
    PROVE  /\ Step(l) = "create_key" => l = "key_create"
           /\ Step(l) = "write_key" => l = "key_write"
           /\ Step(l) = "create_enr" => l \in {"enr_create", "s_create", "f_create", "e_create"}
           /\ Step(l) = "write_enr" => l \in {"enr_write", "s_write", "f_write", "e_write"}
           /\ Step(l) = "create_metadata" => l \in {"meta_create", "m_create"}
           /\ Step(l) = "write_metadata" => l \in {"meta_write", "m_write"}
BY DEF Step, Labels, StartLabels, ServeLabels

\* Where they lead.
LEMMA AfterFile ==
    /\ After("key_create") = "key_write" /\ After("key_write") = "enr"
    /\ After("enr_create") = "enr_write" /\ After("enr_write") = "meta"
    /\ After("s_create") = "s_write" /\ After("s_write") = "s_metadata"
    /\ After("f_create") = "f_write" /\ After("f_write") = "f_id"
    /\ After("e_create") = "e_write" /\ After("e_write") = "e_globals"
    /\ After("meta_create") = "meta_write" /\ After("meta_write") = "start"
    /\ After("m_create") = "m_write" /\ After("m_write") = "idle"
BY DEF After

\* The labels before and after a step on a file.
KeyMoves == {<<"key_create", "key_write">>, <<"key_create", "enr">>, <<"key_write", "enr">>}
EnrMoves == {<<"enr_create", "enr_write">>, <<"enr_create", "meta">>, <<"enr_write", "meta">>,
             <<"s_create", "s_write">>, <<"s_create", "s_metadata">>, <<"s_write", "s_metadata">>,
             <<"f_create", "f_write">>, <<"f_create", "f_id">>, <<"f_write", "f_id">>,
             <<"e_create", "e_write">>, <<"e_create", "e_globals">>, <<"e_write", "e_globals">>}
MetadataMoves == {<<"meta_create", "meta_write">>, <<"meta_create", "start">>,
                  <<"meta_write", "start">>, <<"m_create", "m_write">>, <<"m_create", "idle">>,
                  <<"m_write", "idle">>}

\* A step on files, seen from the handler: the file has new contents, the handler is at
\* another label of the same kind, and copies may have been left behind.
FileStep(l, k) ==
    /\ l \in Labels /\ At(l)
    /\ todo' = Plan(k) /\ k \in Labels
    /\ UNCHANGED <<mode, node, used_keys, histories>>
    /\ missed' \subseteq {"key", "enr", "metadata", "globals"} /\ faults' \in 0 .. MaxFaults

\* What it keeps.
LEMMA FileStepKeeps ==
    ASSUME RecordInv, NEW l, NEW k, FileStep(l, k), disk' \in Disks,
           disk'.key \in Keys => disk'.key \in used_keys
    PROVE  TypesOK' /\ KeysUsed' /\ OneRecord'
<1>1. TypesOK /\ KeysUsed /\ OneRecord
  BY DEF RecordInv
<1>2. TypesOK'
  BY <1>1 DEF FileStep, TypesOK, histories
<1>3. KeysUsed'
  BY <1>1 DEF FileStep, KeysUsed, histories
<1>4. OneRecord'
  BY <1>1 DEF FileStep, OneRecord, histories
<1> QED BY <1>2, <1>3, <1>4

\* The memory is what it has to be after the step.
LEMMA FileStepContent ==
    ASSUME NEW l, NEW k, FileStep(l, k), <<l, k>> \in KeyMoves \cup EnrMoves \cup MetadataMoves
    PROVE  /\ ContentOK(k)'
           /\ mode' = IF k \in StartLabels THEN "Starting" ELSE "Serving"
<1>1. ContentOK(l) /\ node' = node /\ used_keys' = used_keys /\ mode' = mode
      /\ mode = IF l \in StartLabels THEN "Starting" ELSE "Serving"
  BY DEF FileStep, At
<1>2. ContentOK(k)'
  BY <1>1 DEF ContentOK, Labels, StartLabels, ServeLabels, BeforeEnr, BeforeMeta, WillSetMeta,
              WillSetFork, SavesEnr, EventLabels, KeyMoves, EnrMoves, MetadataMoves
<1>3. mode' = IF k \in StartLabels THEN "Starting" ELSE "Serving"
  BY <1>1 DEF StartLabels, KeyMoves, EnrMoves, MetadataMoves
<1> QED BY <1>2, <1>3

\* The key's file.
LEMMA KeyFileStep ==
    ASSUME RecordInv, NEW l, NEW k, FileStep(l, k), <<l, k>> \in KeyMoves,
           NEW new \in {disk.key, Garbage, node.key}, disk' = [disk EXCEPT !.key = new],
           missed' = missed \/ missed' = missed \cup {"key"} \/ missed' = missed \ {"key"},
           k = "enr" => "key" \in missed' \/ new = node.key
    PROVE  RecordInv'
<1>1. /\ l \in {"key_create", "key_write"} /\ k \in {"key_write", "enr"} /\ k \in Labels
      /\ todo' = Plan(k) /\ node' = node /\ UNCHANGED histories /\ mode' = mode
  BY DEF KeyMoves, FileStep
<1>2. TypesOK /\ KeysUsed /\ ContentOK(l) /\ HistoryOK(l)
  BY DEF RecordInv, FileStep, At
<1>3. /\ disk \in Disks /\ disk' \in Disks /\ disk'.key = new
      /\ disk'.enr = disk.enr /\ disk'.metadata = disk.metadata
      /\ node.key \in used_keys /\ node.key \in Keys
  BY <1>1, <1>2 DEF TypesOK, Disks, ContentOK
<1>4. disk'.key \in Keys => disk'.key \in used_keys
  BY <1>2, <1>3, MarkersAssumption DEF KeysUsed
<1>5. TypesOK' /\ KeysUsed' /\ OneRecord'
  BY <1>3, <1>4, FileStepKeeps
<1>6. /\ ContentOK(k)'
      /\ mode' = IF k \in StartLabels THEN "Starting" ELSE "Serving"
  BY FileStepContent
<1>7. CopiesOK(k)'
  BY <1>1, <1>3 DEF CopiesOK, BeforeEnr, BeforeMeta, WillSaveEnr, SavesEnr, EventLabels,
                    WillSetGlobals, WillSaveMeta
<1>8. HistoryOK(k)'
  <2>1. EnrFile(disk.key) /\ MetaFile(disk.key) /\ EnrFile(node.key) /\ MetaFile(node.key)
    BY <1>1, <1>2 DEF HistoryOK, BeforeEnr, BeforeMeta
  <2>2. EnrFile(Garbage) /\ MetaFile(Garbage)
    <3>1. \A e \in published_enrs : e.key # Garbage
      BY <1>2, MarkersAssumption DEF TypesOK, Enrs
    <3>2. \A m \in published_metadata : m.key # Garbage
      BY <1>2, MarkersAssumption DEF TypesOK
    <3> QED BY <3>1, <3>2 DEF EnrFile, MetaFile
  <2>3. EnrFile(new) /\ MetaFile(new)
    BY <2>1, <2>2
  <2>4. /\ EnrFile(disk.key)' /\ MetaFile(disk.key)' /\ EnrFile(node.key)' /\ MetaFile(node.key)'
    BY <1>1, <1>3, <2>1, <2>3 DEF EnrFile, MetaFile, histories
  <2> QED BY <1>1, <2>4 DEF HistoryOK, BeforeEnr, BeforeMeta
<1> QED BY <1>1, <1>5, <1>6, <1>7, <1>8 DEF RecordInv, At

\* The ENR's file.
LEMMA EnrFileStep ==
    ASSUME RecordInv, NEW l, NEW k, FileStep(l, k), <<l, k>> \in EnrMoves,
           NEW new \in {disk.enr, Garbage, node.held}, disk' = [disk EXCEPT !.enr = new],
           \/ missed' = missed \/ missed' = missed \cup {"enr"}
           \/ missed' = missed \ {"enr"} /\ node.held = node.enr,
           k \notin SavesEnr => "enr" \in missed' \/ new = node.held
    PROVE  RecordInv'
<1>1. /\ k \in Labels /\ l \in SavesEnr
      /\ todo' = Plan(k) /\ node' = node /\ UNCHANGED histories /\ mode' = mode
  BY DEF EnrMoves, FileStep, SavesEnr
<1>2. TypesOK /\ KeysUsed /\ ContentOK(l) /\ HistoryOK(l) /\ CopiesOK(l)
  BY DEF RecordInv, FileStep, At
<1>3. /\ disk \in Disks /\ disk' \in Disks /\ disk'.key = disk.key
      /\ disk'.enr = new /\ disk'.metadata = disk.metadata
  BY <1>1, <1>2 DEF TypesOK, Disks, ContentOK
<1>4. TypesOK' /\ KeysUsed' /\ OneRecord'
  BY <1>2, <1>3, FileStepKeeps DEF KeysUsed
<1>5. /\ ContentOK(k)'
      /\ mode' = IF k \in StartLabels THEN "Starting" ELSE "Serving"
  BY FileStepContent
<1>6. CopiesOK(k)'
  <2>1. (Outrun("enr")' \/ node.held = node.enr) /\ (Outrun("globals") => Outrun("globals")')
    BY <1>1, <1>2 DEF CopiesOK, Outrun
  <2>2. k \notin SavesEnr => Outrun("enr")' \/ disk'.enr = node.enr
    BY <1>1, <1>3, <2>1 DEF Outrun
  <2> QED BY <1>1, <1>2, <1>3, <2>1, <2>2
          DEF CopiesOK, BeforeEnr, BeforeMeta, WillSaveEnr, SavesEnr, EventLabels,
              WillSetGlobals, WillSaveMeta, EnrMoves
<1>7. HistoryOK(k)'
  BY <1>1, <1>2, <1>3 DEF HistoryOK, BeforeEnr, BeforeMeta, EnrMoves, MetaFile, EnrAhead, MetaAhead,
                          histories
<1> QED BY <1>1, <1>4, <1>5, <1>6, <1>7 DEF RecordInv, At

\* The metadata's file.
LEMMA MetadataFileStep ==
    ASSUME RecordInv, NEW l, NEW k, FileStep(l, k), <<l, k>> \in MetadataMoves,
           NEW new \in Metadata \cup {disk.metadata, Garbage}, disk' = [disk EXCEPT !.metadata = new],
           \/ missed' = missed \/ missed' = missed \cup {"metadata"}
           \/ missed' = missed \ {"metadata"},
           k \notin WillSaveMeta => "metadata" \in missed' \/ new = node.metadata
    PROVE  RecordInv'
<1>1. /\ k \in Labels
      /\ todo' = Plan(k) /\ node' = node /\ UNCHANGED histories /\ mode' = mode
  BY DEF FileStep
<1>2. TypesOK /\ KeysUsed /\ ContentOK(l) /\ HistoryOK(l) /\ CopiesOK(l)
  BY DEF RecordInv, FileStep, At
<1>3. /\ disk \in Disks /\ disk' \in Disks /\ disk'.key = disk.key
      /\ disk'.enr = disk.enr /\ disk'.metadata = new
  BY <1>2 DEF TypesOK, Disks
<1>4. TypesOK' /\ KeysUsed' /\ OneRecord'
  BY <1>2, <1>3, FileStepKeeps DEF KeysUsed
<1>5. /\ ContentOK(k)'
      /\ mode' = IF k \in StartLabels THEN "Starting" ELSE "Serving"
  BY FileStepContent
<1>6. CopiesOK(k)'
  <2>1. /\ Outrun("enr") => Outrun("enr")'
        /\ Outrun("globals") => Outrun("globals")'
        /\ "key" \in missed => "key" \in missed'
    BY <1>1 DEF Outrun
  <2> QED BY <1>1, <1>2, <1>3, <2>1
          DEF CopiesOK, BeforeEnr, BeforeMeta, WillSaveEnr, SavesEnr, EventLabels,
              WillSetGlobals, WillSaveMeta, MetadataMoves
<1>7. HistoryOK(k)'
  BY <1>1, <1>2 DEF HistoryOK, BeforeEnr, BeforeMeta, MetadataMoves, EnrAhead, MetaAhead, histories
<1> QED BY <1>1, <1>4, <1>5, <1>6, <1>7 DEF RecordInv, At

\* A file is truncated, or the operation fails.
LEMMA CreateFileInv ==
    ASSUME RecordInv, NEW file \in Files, CreateFile(file)
    PROVE  RecordInv'
<1>1. PICK l \in Labels \ {"idle"} :
        /\ At(l) /\ Step(l) = Create[file]
        /\ Tail(todo) = Plan(After(l)) /\ After(l) \in Labels
  BY AtStep DEF CreateFile
<1>2. <<file, l>> \in {<<"key", "key_create">>, <<"enr", "enr_create">>, <<"enr", "s_create">>,
          <<"enr", "f_create">>, <<"enr", "e_create">>, <<"metadata", "meta_create">>,
          <<"metadata", "m_create">>}
  BY <1>1, FileLabels DEF Files, Create
<1>3. After(l) # "idle" /\ Tail(Tail(todo)) = Plan(After(After(l))) /\ After(After(l)) \in Labels
  <2>1. After(l) # "idle"
    BY <1>2, AfterFile
  <2> QED BY <1>1, <2>1, PlanSteps
<1>4. /\ missed \subseteq {"key", "enr", "metadata", "globals"} /\ faults \in 0 .. MaxFaults
      /\ disk \in Disks
  BY DEF RecordInv, TypesOK
<1>5. PICK new, k :
        /\ disk' = [disk EXCEPT ![file] = new] /\ FileStep(l, k)
        /\ \/ new = Garbage /\ k = After(l) /\ missed' = missed
           \/ new = disk[file] /\ k = After(After(l)) /\ missed' = missed \cup {file}
  <2>1. CASE disk' = [disk EXCEPT ![file] = Garbage] /\ todo' = Tail(todo) /\ UNCHANGED <<missed, faults>>
    <3>1. FileStep(l, After(l))
      BY <1>1, <1>4, <2>1 DEF FileStep, CreateFile
    <3> QED BY <2>1, <3>1
  <2>2. CASE Fault /\ todo' = Tail(Tail(todo)) /\ missed' = missed \cup {file} /\ UNCHANGED disk
    <3>1. faults' \in 0 .. MaxFaults
      BY <1>4, <2>2, RecordAssumption DEF Fault
    <3>2. missed' \subseteq {"key", "enr", "metadata", "globals"}
      BY <1>4, <2>2 DEF Files
    <3>3. FileStep(l, After(After(l)))
      BY <1>1, <1>3, <2>2, <3>1, <3>2 DEF FileStep, CreateFile
    <3>4. disk' = [disk EXCEPT ![file] = disk[file]]
      BY <1>4, <2>2 DEF Disks, Files
    <3> QED BY <2>2, <3>3, <3>4
  <2> QED BY <2>1, <2>2 DEF CreateFile
<1>6. CASE file = "key"
  <2>1. l = "key_create" /\ <<l, k>> \in KeyMoves /\ (k = "enr" => "key" \in missed')
    BY <1>2, <1>5, <1>6, AfterFile DEF KeyMoves
  <2>2. disk' = [disk EXCEPT !.key = new] /\ new \in {disk.key, Garbage, node.key}
        /\ missed' \in {missed, missed \cup {"key"}}
    BY <1>5, <1>6
  <2> QED BY <1>5, <2>1, <2>2, KeyFileStep
<1>7. CASE file = "enr"
  <2>1. <<l, k>> \in EnrMoves /\ (k \notin SavesEnr => "enr" \in missed')
    BY <1>2, <1>5, <1>7, AfterFile DEF EnrMoves, SavesEnr
  <2>2. disk' = [disk EXCEPT !.enr = new] /\ new \in {disk.enr, Garbage, node.held}
        /\ missed' \in {missed, missed \cup {"enr"}}
    BY <1>5, <1>7
  <2> QED BY <1>5, <2>1, <2>2, EnrFileStep
<1>8. CASE file = "metadata"
  <2>1. <<l, k>> \in MetadataMoves /\ (k \notin WillSaveMeta => "metadata" \in missed')
    BY <1>2, <1>5, <1>8, AfterFile DEF MetadataMoves, WillSaveMeta
  <2>2. disk' = [disk EXCEPT !.metadata = new] /\ new \in Metadata \cup {disk.metadata, Garbage}
        /\ missed' \in {missed, missed \cup {"metadata"}}
    BY <1>5, <1>8
  <2> QED BY <1>5, <2>1, <2>2, MetadataFileStep
<1> QED BY <1>6, <1>7, <1>8 DEF Files

\* A file is written, or the operation fails.
LEMMA WriteFileInv ==
    ASSUME RecordInv, NEW file \in Files, WriteFile(file)
    PROVE  RecordInv'
<1>1. PICK l \in Labels \ {"idle"} :
        /\ At(l) /\ Step(l) = Write[file]
        /\ Tail(todo) = Plan(After(l)) /\ After(l) \in Labels
  BY AtStep DEF WriteFile
<1>2. <<file, l>> \in {<<"key", "key_write">>, <<"enr", "enr_write">>, <<"enr", "s_write">>,
          <<"enr", "f_write">>, <<"enr", "e_write">>, <<"metadata", "meta_write">>,
          <<"metadata", "m_write">>}
  BY <1>1, FileLabels DEF Files, Write
<1>3. /\ missed \subseteq {"key", "enr", "metadata", "globals"} /\ faults \in 0 .. MaxFaults
      /\ ContentOK(l)
  BY <1>1 DEF RecordInv, TypesOK, At
<1>4. PICK new :
        /\ disk' = [disk EXCEPT ![file] = new]
        /\ \/ new = Content(file) /\ missed' = Repaired(file)
           \/ new \in Partial(file) /\ missed' = missed \cup {file}
  BY DEF WriteFile
<1> PICK k : k = After(l)
  OBVIOUS
<1>5. FileStep(l, k)
  <2>1. faults' \in 0 .. MaxFaults
    BY <1>3, RecordAssumption DEF WriteFile, Fault
  <2>2. missed' \subseteq {"key", "enr", "metadata", "globals"}
    BY <1>3, <1>4 DEF Repaired, Files
  <2> QED BY <1>1, <2>1, <2>2 DEF FileStep, WriteFile
<1>6. CASE file = "key"
  <2>1. <<l, k>> \in KeyMoves
    BY <1>2, <1>6, AfterFile DEF KeyMoves
  <2>2. /\ disk' = [disk EXCEPT !.key = new]
        /\ \/ new = node.key /\ missed' = missed \ {"key"}
           \/ new = Garbage /\ missed' = missed \cup {"key"}
    BY <1>4, <1>6 DEF Content, Partial, Repaired
  <2> QED BY <1>5, <2>1, <2>2, KeyFileStep
<1>7. CASE file = "enr"
  <2>1. <<l, k>> \in EnrMoves
    BY <1>2, <1>7, AfterFile DEF EnrMoves
  <2>2. /\ disk' = [disk EXCEPT !.enr = new]
        /\ \/ new = node.held /\ missed' = missed
           \/ new = node.held /\ missed' = missed \ {"enr"} /\ node.held = node.enr
           \/ new = Garbage /\ missed' = missed \cup {"enr"}
    BY <1>4, <1>7 DEF Content, Partial, Repaired
  <2>3. /\ new \in {disk.enr, Garbage, node.held}
        /\ \/ missed' = missed \/ missed' = missed \cup {"enr"}
           \/ missed' = missed \ {"enr"} /\ node.held = node.enr
        /\ "enr" \in missed' \/ new = node.held
    BY <2>2
  <2> QED BY <1>5, <2>1, <2>2, <2>3, EnrFileStep
<1>8. CASE file = "metadata"
  <2>1. <<l, k>> \in MetadataMoves
    BY <1>2, <1>8, AfterFile DEF MetadataMoves
  <2>2. /\ disk' = [disk EXCEPT !.metadata = new]
        /\ \/ new = node.metadata /\ missed' = missed \ {"metadata"}
           \/ /\ new \in {Garbage, [node.metadata EXCEPT !.version = 1]}
              /\ missed' = missed \cup {"metadata"}
    BY <1>4, <1>8 DEF Content, Partial, Repaired
  <2>3. new \in Metadata \cup {disk.metadata, Garbage}
    <3>1. node.metadata \in Metadata
      BY <1>2, <1>3, <1>8 DEF ContentOK, BeforeMeta, BeforeEnr
    <3> QED BY <2>2, <3>1 DEF Metadata
  <2> QED BY <1>5, <2>1, <2>2, <2>3, MetadataFileStep
<1> QED BY <1>6, <1>7, <1>8 DEF Files

\* The lists that the handlers put together.
LEMMA Lists ==
    /\ Save("key") \o Plan("enr") = Plan("key_create")
    /\ Save("enr") \o Plan("meta") = Plan("enr_create")
    /\ Save("metadata") \o Plan("start") = Plan("meta_create")
    /\ SaveMetadata = Plan("s_metadata")
    /\ EnrSteps \o SaveMetadata = Plan("s_globals")
    /\ EnrSteps \o <<"fork_id">> = Plan("f_globals")
    /\ Save("enr") \o <<"globals_held">> = Plan("e_create")
<1>1. ASSUME NEW l \in Labels \ {"idle"}, After(l) # "idle"
      PROVE  <<Step(l), Step(After(l))>> \o Plan(After(After(l))) = Plan(l)
  BY <1>1, PlanTypes, PlanSteps, FirstTwo
<1>2. /\ Save("key") = <<Step("key_create"), Step(After("key_create"))>>
      /\ Save("enr") = <<Step("enr_create"), Step(After("enr_create"))>>
      /\ Save("enr") = <<Step("s_create"), Step(After("s_create"))>>
      /\ Save("enr") = <<Step("f_create"), Step(After("f_create"))>>
      /\ Save("enr") = <<Step("e_create"), Step(After("e_create"))>>
      /\ Save("metadata") = <<Step("meta_create"), Step(After("meta_create"))>>
  BY DEF Save, Create, Write, Step, After
<1>3. /\ Save("key") \o Plan("enr") = Plan("key_create")
      /\ Save("enr") \o Plan("meta") = Plan("enr_create")
      /\ Save("enr") \o Plan("s_metadata") = Plan("s_create")
      /\ Save("enr") \o Plan("f_id") = Plan("f_create")
      /\ Save("enr") \o Plan("e_globals") = Plan("e_create")
      /\ Save("metadata") \o Plan("start") = Plan("meta_create")
  BY <1>1, <1>2, AfterFile DEF Labels, StartLabels, ServeLabels
<1>4. SaveMetadata = Plan("s_metadata")
  <2>1. <<"metadata">> \o Plan("m_create") = Plan("s_metadata")
    <3>1. PICK l \in Labels \ {"idle"} : l = "s_metadata"
      BY DEF Labels, ServeLabels
    <3>2. Step(l) = "metadata" /\ After(l) = "m_create"
      BY <3>1 DEF Step, After
    <3>3. Plan(l) \in Seq(Steps) /\ Plan(l) # <<>> /\ Head(Plan(l)) = Step(l)
          /\ Tail(Plan(l)) = Plan(After(l))
      BY PlanTypes, PlanSteps
    <3>4. <<Head(Plan(l))>> \o Tail(Plan(l)) = Plan(l)
      BY <3>3, FirstOne
    <3> QED BY <3>1, <3>2, <3>3, <3>4
  <2>2. Save("metadata") = Plan("m_create")
    BY DEF Save, Create, Write, Plan
  <2> QED BY <2>1, <2>2 DEF SaveMetadata
<1>5. /\ EnrSteps \o Plan("s_metadata") = Plan("s_globals")
      /\ EnrSteps \o Plan("f_id") = Plan("f_globals")
  <2>1. /\ <<"globals", "hold">> \in Seq(Steps) /\ Save("enr") \in Seq(Steps)
        /\ Plan("s_metadata") \in Seq(Steps) /\ Plan("f_id") \in Seq(Steps)
    <3>1. /\ "globals" \in Steps /\ "hold" \in Steps /\ "enr" \in Files
          /\ \A file \in Files : Create[file] \in Steps /\ Write[file] \in Steps
      BY DEF Steps, Files
    <3>2. <<"globals", "hold">> \in Seq(Steps) /\ Save("enr") \in Seq(Steps)
      BY <3>1 DEF Save
    <3> QED BY <3>2, PlanTypes DEF Labels, ServeLabels
  <2>2. /\ EnrSteps \o Plan("s_metadata") = <<"globals", "hold">> \o Plan("s_create")
        /\ EnrSteps \o Plan("f_id") = <<"globals", "hold">> \o Plan("f_create")
    <3>1. PICK r, s : r = <<"globals", "hold">> /\ s = Save("enr")
      OBVIOUS
    <3>2. /\ (r \o s) \o Plan("s_metadata") = r \o (s \o Plan("s_metadata"))
          /\ (r \o s) \o Plan("f_id") = r \o (s \o Plan("f_id"))
      BY <2>1, <3>1, ConcatAssociative
    <3> QED BY <1>3, <3>1, <3>2 DEF EnrSteps
  <2>3. /\ <<Step("s_globals"), Step(After("s_globals"))>> \o Plan(After(After("s_globals")))
             = Plan("s_globals")
        /\ <<Step("f_globals"), Step(After("f_globals"))>> \o Plan(After(After("f_globals")))
             = Plan("f_globals")
    <3>1. /\ "s_globals" \in Labels \ {"idle"} /\ "f_globals" \in Labels \ {"idle"}
          /\ After("s_globals") # "idle" /\ After("f_globals") # "idle"
      BY DEF After, Labels, ServeLabels
    <3> QED BY <1>1, <3>1
  <2>4. /\ Step("s_globals") = "globals" /\ Step(After("s_globals")) = "hold"
        /\ After(After("s_globals")) = "s_create"
        /\ Step("f_globals") = "globals" /\ Step(After("f_globals")) = "hold"
        /\ After(After("f_globals")) = "f_create"
    BY DEF Step, After
  <2> QED BY <2>2, <2>3, <2>4
<1>6. Plan("f_id") = <<"fork_id">> /\ Plan("e_globals") = <<"globals_held">>
  BY DEF Plan
<1> QED BY <1>3, <1>4, <1>5, <1>6

-----------------------------------------------------------------------------
(* Start-up.                                                               *)

\* The node starts.
LEMMA StartInv ==
    ASSUME RecordInv, NEW c \in Configs, Start(c)
    PROVE  RecordInv'
<1>1. /\ mode = "Down" /\ mode' = "Starting" /\ node' = [NoMemory EXCEPT !.config = c]
      /\ todo' = Plan("key")
      /\ UNCHANGED <<disk, used_keys, faults, missed, published_enrs, published_metadata, kept>>
  BY DEF Start, Plan, histories
<1>2. TypesOK /\ KeysUsed /\ OneRecord /\ EnrFile(disk.key) /\ MetaFile(disk.key)
  BY <1>1 DEF RecordInv, At
<1>3. c \in Settings
  BY RecordAssumption DEF Settings, Values, Forks
<1>4. node' \in Memories /\ node'.config = c
  BY <1>1, <1>3, RecordAssumption DEF NoMemory, Memories
<1>5. TypesOK' /\ KeysUsed' /\ OneRecord'
  BY <1>1, <1>2, <1>4 DEF TypesOK, KeysUsed, OneRecord
<1>6. ContentOK("key")'
  BY <1>3, <1>4 DEF ContentOK, BeforeEnr, BeforeMeta, ServeLabels, SavesEnr, EventLabels
<1>7. CopiesOK("key")'
  BY DEF CopiesOK, BeforeEnr, BeforeMeta, SavesEnr, EventLabels
<1>8. HistoryOK("key")'
  BY <1>1, <1>2 DEF HistoryOK, BeforeEnr, BeforeMeta, EnrFile, MetaFile
<1> QED BY <1>1, <1>5, <1>6, <1>7, <1>8 DEF RecordInv, At, Labels, StartLabels

\* What is read is the file or nothing; what others have seen is forgotten only if a
\* read has failed, and all of it unless the file is the key's.
LEMMA ReadsEffect ==
    ASSUME RecordInv, NEW file \in Files, NEW found, Reads(file, found)
    PROVE  /\ found = disk[file] \/ found = NoFile
           /\ faults' \in 0 .. MaxFaults /\ kept' \in BOOLEAN
           /\ published_enrs' \subseteq published_enrs
           /\ published_metadata' \subseteq published_metadata
           /\ ~kept' => published_enrs' = {} /\ published_metadata' = {}
           /\ file # "key" => \/ found = disk[file]
                              \/ published_enrs' = {} /\ published_metadata' = {}
<1>1. faults \in 0 .. MaxFaults /\ kept \in BOOLEAN /\ OneRecord
  BY DEF RecordInv, TypesOK
<1>2. CASE found = disk[file] /\ UNCHANGED <<faults, histories>>
  BY <1>1, <1>2 DEF histories, OneRecord
<1>3. CASE found = NoFile /\ Fault /\ Remember(file = "key")
  <2>1. faults' \in 0 .. MaxFaults
    BY <1>1, <1>3, RecordAssumption DEF Fault
  <2>2. /\ kept' = (kept /\ file = "key")
        /\ published_enrs' = {e \in published_enrs : kept' /\ e.key = disk.key}
        /\ published_metadata' = {m \in published_metadata : kept' /\ m.key = disk.key}
    BY <1>3 DEF Remember
  <2> QED BY <1>3, <2>1, <2>2
<1> QED BY <1>2, <1>3 DEF Reads

\* With a past that is part of the past, what holds of it still does.
LEMMA SmallerPast ==
    ASSUME OneRecord, KeysUsed, published_enrs' \subseteq published_enrs,
           published_metadata' \subseteq published_metadata,
           ~kept' => published_enrs' = {} /\ published_metadata' = {},
           used_keys \subseteq used_keys', disk' = disk
    PROVE  /\ OneRecord' /\ KeysUsed'
           /\ \A key : (EnrFile(key) => EnrFile(key)') /\ (MetaFile(key) => MetaFile(key)')
BY DEF OneRecord, KeysUsed, EnrFile, MetaFile

\* The key is loaded, or generated.
LEMMA LoadPrivateKeyInv == ASSUME RecordInv, load_private_key PROVE RecordInv'
<1>1. At("key") /\ Tail(todo) = Plan("enr")
  <2>1. PICK l \in Labels \ {"idle"} :
          At(l) /\ Step(l) = "load_private_key" /\ Tail(todo) = Plan(After(l))
    BY AtStep DEF load_private_key
  <2>2. l = "key"
    BY <2>1 DEF Step, Labels, StartLabels, ServeLabels
  <2> QED BY <2>1, <2>2 DEF After
<1>2. /\ TypesOK /\ KeysUsed /\ OneRecord /\ ContentOK("key") /\ mode = "Starting"
      /\ EnrFile(disk.key) /\ MetaFile(disk.key) /\ disk \in Disks /\ node \in Memories
  BY <1>1 DEF RecordInv, TypesOK, At, HistoryOK, BeforeEnr, StartLabels
<1>3. PICK found :
        /\ Reads("key", found)
        /\ \/ /\ found \in Keys
              /\ node' = [node EXCEPT !.key = found]
              /\ todo' = Tail(todo)
              /\ UNCHANGED used_keys
           \/ /\ found \notin Keys
              /\ \E fresh \in Keys \ used_keys :
                     /\ node' = [node EXCEPT !.key = fresh]
                     /\ used_keys' = used_keys \cup {fresh}
              /\ todo' = Save("key") \o Tail(todo)
  BY DEF load_private_key
<1>4. disk' = disk /\ mode' = mode /\ missed' = missed
  BY DEF load_private_key
<1>5. /\ found = disk.key \/ found = NoFile
      /\ faults' \in 0 .. MaxFaults /\ kept' \in BOOLEAN
      /\ published_enrs' \subseteq published_enrs
      /\ published_metadata' \subseteq published_metadata
      /\ ~kept' => published_enrs' = {} /\ published_metadata' = {}
  BY <1>3, ReadsEffect DEF Files
<1>6. PICK key \in Keys, k \in {"enr", "key_create"} :
        /\ node' = [node EXCEPT !.key = key] /\ todo' = Plan(k)
        /\ used_keys \subseteq used_keys' /\ used_keys' \subseteq Keys /\ key \in used_keys'
        /\ EnrFile(key) /\ MetaFile(key)
        /\ k = "enr" => key = disk.key
  <2>1. CASE found \in Keys
    <3>1. found = disk.key
      BY <1>5, <2>1, MarkersAssumption
    <3>2. found \in used_keys /\ used_keys' = used_keys /\ used_keys \subseteq Keys
      BY <1>2, <1>3, <2>1, <3>1 DEF KeysUsed, TypesOK
    <3> QED BY <1>1, <1>2, <1>3, <2>1, <3>1, <3>2
  <2>2. CASE found \notin Keys
    <3>1. PICK fresh \in Keys \ used_keys :
            /\ node' = [node EXCEPT !.key = fresh] /\ used_keys' = used_keys \cup {fresh}
      BY <1>3, <2>2
    <3>2. todo' = Plan("key_create")
      BY <1>1, <1>3, <2>2, Lists
    <3>3. EnrFile(fresh) /\ MetaFile(fresh)
      BY <1>2, <3>1 DEF KeysUsed, EnrFile, MetaFile
    <3> QED BY <1>2, <3>1, <3>2, <3>3 DEF TypesOK
  <2> QED BY <2>1, <2>2
<1>7. node' \in Memories /\ node'.key = key /\ node'.config = node.config
  BY <1>2, <1>6 DEF Memories
<1>8. /\ OneRecord' /\ KeysUsed' /\ EnrFile(disk.key)' /\ MetaFile(disk.key)'
      /\ EnrFile(node.key)' /\ MetaFile(node.key)'
  <2>1. /\ OneRecord' /\ KeysUsed'
        /\ \A q : (EnrFile(q) => EnrFile(q)') /\ (MetaFile(q) => MetaFile(q)')
    BY <1>2, <1>4, <1>5, <1>6, SmallerPast
  <2> QED BY <1>2, <1>4, <1>6, <1>7, <2>1 DEF EnrFile, MetaFile
<1>9. TypesOK'
  BY <1>2, <1>4, <1>5, <1>6, <1>7 DEF TypesOK
<1>10. ContentOK(k)'
  BY <1>2, <1>6, <1>7 DEF ContentOK, BeforeEnr, BeforeMeta, ServeLabels, SavesEnr, EventLabels
<1>11. CopiesOK(k)'
  BY <1>4, <1>6, <1>7 DEF CopiesOK, BeforeEnr, BeforeMeta, SavesEnr, EventLabels
<1>12. HistoryOK(k)'
  BY <1>8 DEF HistoryOK, BeforeEnr, BeforeMeta
<1> QED BY <1>2, <1>4, <1>6, <1>8, <1>9, <1>10, <1>11, <1>12 DEF RecordInv, At, Labels, StartLabels

\* The ENR that the configuration asks for.
LEMMA BuildEnrType ==
    ASSUME node \in Memories, node.config \in Settings, node.key \in Keys
    PROVE  /\ build_enr \in Enrs /\ build_enr.key = node.key /\ build_enr.subnets = {}
           /\ build_enr.seq = 1
           /\ build_enr.tcp = node.config.tcp /\ build_enr.eth2 = node.config.eth2
<1>1. 1 \in Seqs
  BY RecordAssumption DEF Seqs
<1>2. /\ node.config.ip \in Values("ip") /\ node.config.udp \in Values("udp")
      /\ node.config.tcp \in Values("tcp") /\ node.config.eth2 \in Forks
  BY DEF Settings
<1> QED BY <1>1, <1>2 DEF build_enr, Enrs

\* The start goes on with an ENR that is newer than what others have seen.
LEMMA UseEnrInv ==
    ASSUME RecordInv, At("enr"), Tail(todo) = Plan("meta"), NEW enr \in Enrs, NEW steps,
           UseEnr(enr, steps), UNCHANGED <<disk, used_keys>>,
           faults' \in 0 .. MaxFaults, kept' \in BOOLEAN,
           published_enrs' \subseteq published_enrs,
           published_metadata' \subseteq published_metadata,
           ~kept' => published_enrs' = {} /\ published_metadata' = {},
           enr.key = node.key, enr.tcp = node.config.tcp, enr.eth2 = node.config.eth2,
           enr.subnets = {},
           \A e \in published_enrs' : e.key = node.key => e.seq < enr.seq \/ e = enr,
           steps = Save("enr") \/ (steps = <<>> /\ enr = disk.enr)
    PROVE  RecordInv'
<1>1. /\ node' = [node EXCEPT !.enr = enr, !.globals = enr, !.held = enr]
      /\ todo' = steps \o Plan("meta") /\ mode' = mode /\ missed' = missed
      /\ disk' = disk /\ used_keys' = used_keys
  BY DEF UseEnr
<1>2. /\ TypesOK /\ KeysUsed /\ OneRecord /\ ContentOK("enr") /\ CopiesOK("enr")
      /\ mode = "Starting" /\ MetaFile(node.key) /\ node \in Memories
  BY DEF RecordInv, TypesOK, At, HistoryOK, BeforeEnr, BeforeMeta, StartLabels
<1>3. PICK k \in {"enr_create", "meta"} : todo' = Plan(k) /\ (k = "meta" => enr = disk.enr)
  <2>1. CASE steps = Save("enr")
    BY <1>1, <2>1, Lists
  <2>2. CASE steps = <<>> /\ enr = disk.enr
    <3>1. Plan("meta") \in Seq(Steps)
      BY PlanTypes DEF Labels, StartLabels
    <3>2. <<>> \o Plan("meta") = Plan("meta")
      BY <3>1, ConcatEmptySeq
    <3> QED BY <1>1, <2>2, <3>2
  <2> QED BY <2>1, <2>2
<1>4. /\ node' \in Memories /\ node'.key = node.key /\ node'.config = node.config
      /\ node'.enr = enr /\ node'.globals = enr /\ node'.held = enr
      /\ node'.events = node.events
  BY <1>1, <1>2 DEF Memories
<1>5. OneRecord' /\ KeysUsed' /\ (MetaFile(node.key) => MetaFile(node.key)')
  <2>1. /\ OneRecord' /\ KeysUsed'
        /\ \A q : (EnrFile(q) => EnrFile(q)') /\ (MetaFile(q) => MetaFile(q)')
    BY <1>1, <1>2, SmallerPast
  <2> QED BY <1>4, <2>1 DEF MetaFile
<1>6. TypesOK'
  BY <1>1, <1>2, <1>4 DEF TypesOK
<1>7. ContentOK(k)'
  BY <1>1, <1>2, <1>4 DEF ContentOK, BeforeEnr, BeforeMeta, StartLabels, ServeLabels, SavesEnr,
                          EventLabels
<1>8. CopiesOK(k)'
  BY <1>1, <1>2, <1>3, <1>4 DEF CopiesOK, BeforeEnr, BeforeMeta, SavesEnr, WillSaveEnr, EventLabels,
                                WillSetGlobals
<1>9. HistoryOK(k)'
  <2>1. EnrAhead'
    BY <1>4 DEF EnrAhead
  <2> QED BY <1>2, <1>5, <2>1 DEF HistoryOK, BeforeEnr, BeforeMeta
<1> QED BY <1>1, <1>2, <1>3, <1>5, <1>6, <1>7, <1>8, <1>9
        DEF RecordInv, At, Labels, StartLabels

\* The ENR is loaded or built.
LEMMA UseOrLoadEnrInv == ASSUME RecordInv, use_or_load_enr PROVE RecordInv'
<1>1. At("enr") /\ Tail(todo) = Plan("meta")
  <2>1. PICK l \in Labels \ {"idle"} :
          At(l) /\ Step(l) = "use_or_load_enr" /\ Tail(todo) = Plan(After(l))
    BY AtStep DEF use_or_load_enr
  <2>2. l = "enr"
    BY <2>1 DEF Step, Labels, StartLabels, ServeLabels
  <2> QED BY <2>1, <2>2 DEF After
<1>2. /\ TypesOK /\ KeysUsed /\ OneRecord /\ ContentOK("enr") /\ node \in Memories
      /\ EnrFile(node.key) /\ EnrFile(disk.key) /\ MetaFile(disk.key)
      /\ node.config \in Settings /\ node.key \in Keys
  BY <1>1 DEF RecordInv, TypesOK, At, HistoryOK, BeforeEnr, BeforeMeta, ContentOK
<1>3. /\ build_enr \in Enrs /\ build_enr.key = node.key /\ build_enr.subnets = {}
      /\ build_enr.seq = 1
      /\ build_enr.tcp = node.config.tcp /\ build_enr.eth2 = node.config.eth2
  BY <1>2, BuildEnrType
<1>4. PICK found :
        /\ Reads("enr", found)
        /\ IF ~OfThisKey(found) THEN UseEnr(build_enr, Save("enr"))
           ELSE IF compare_enr(build_enr, found) THEN UseEnr(found, <<>>)
           ELSE IF NextSeq(found) \in Seqs
           THEN UseEnr([build_enr EXCEPT !.seq = NextSeq(found)], Save("enr"))
           ELSE StartFails
  BY DEF use_or_load_enr
<1>5. disk' = disk /\ used_keys' = used_keys
  BY DEF use_or_load_enr
<1>6. /\ found = disk.enr \/ found = NoFile
      /\ faults' \in 0 .. MaxFaults /\ kept' \in BOOLEAN
      /\ published_enrs' \subseteq published_enrs
      /\ published_metadata' \subseteq published_metadata
      /\ ~kept' => published_enrs' = {} /\ published_metadata' = {}
      /\ found = disk.enr \/ (published_enrs' = {} /\ published_metadata' = {})
  BY <1>4, ReadsEffect DEF Files
<1>7. CASE ~OfThisKey(found)
  <2>1. \A e \in published_enrs' : e.key # node.key
    BY <1>2, <1>6, <1>7 DEF EnrFile, OfThisKey
  <2> QED BY <1>1, <1>3, <1>4, <1>5, <1>6, <1>7, <2>1, UseEnrInv
<1>8. CASE OfThisKey(found)
  <2>1. found \in Enrs /\ found.key = node.key /\ found = disk.enr /\ found.seq \in Seqs
    BY <1>6, <1>8, MarkersAssumption DEF OfThisKey, Enrs
  <2>2. \A e \in published_enrs' : e.key = node.key => e.seq < found.seq \/ e = found
    BY <1>2, <1>6, <2>1 DEF EnrFile
  <2>3. CASE compare_enr(build_enr, found)
    <3>1. found.tcp = node.config.tcp /\ found.eth2 = node.config.eth2 /\ found.subnets = {}
      BY <1>3, <2>3 DEF compare_enr
    <3>2. UseEnr(found, <<>>)
      BY <1>4, <1>8, <2>3
    <3> QED BY <1>1, <1>5, <1>6, <2>1, <2>2, <3>1, <3>2, UseEnrInv
  <2>4. CASE ~compare_enr(build_enr, found) /\ NextSeq(found) \in Seqs
    <3>1. PICK enr : enr = [build_enr EXCEPT !.seq = NextSeq(found)]
      OBVIOUS
    <3>2. /\ enr \in Enrs /\ enr.key = node.key /\ enr.subnets = {} /\ enr.seq = found.seq + 1
          /\ enr.tcp = node.config.tcp /\ enr.eth2 = node.config.eth2
      BY <1>3, <2>4, <3>1 DEF Enrs, NextSeq
    <3>3. \A e \in published_enrs' : e.key = node.key => e.seq < enr.seq
      <4>1. \A e \in published_enrs' : e.seq \in Nat
        BY <1>2, <1>6 DEF TypesOK, Enrs, Seqs
      <4> QED BY <2>1, <2>2, <3>2, <4>1 DEF Seqs
    <3>4. UseEnr(enr, Save("enr"))
      BY <1>4, <1>8, <2>4, <3>1
    <3> QED BY <1>1, <1>5, <1>6, <3>2, <3>3, <3>4, UseEnrInv
  <2>5. CASE ~compare_enr(build_enr, found) /\ NextSeq(found) \notin Seqs
    <3>1. mode' = "Down" /\ todo' = <<>> /\ node' = NoMemory /\ missed' = {}
      BY <1>4, <1>8, <2>5 DEF StartFails
    <3>2. NoMemory \in Memories
      BY RecordAssumption DEF NoMemory, Memories
    <3>3. TypesOK'
      BY <1>2, <1>5, <1>6, <3>1, <3>2 DEF TypesOK
    <3>4. /\ OneRecord' /\ KeysUsed'
          /\ \A q : (EnrFile(q) => EnrFile(q)') /\ (MetaFile(q) => MetaFile(q)')
      BY <1>2, <1>5, <1>6, SmallerPast
    <3>5. EnrFile(disk.key)' /\ MetaFile(disk.key)'
      BY <1>2, <1>5, <3>4 DEF EnrFile, MetaFile
    <3> QED BY <3>1, <3>3, <3>4, <3>5 DEF RecordInv
  <2> QED BY <2>3, <2>4, <2>5
<1> QED BY <1>7, <1>8

\* The metadata is loaded or built.
LEMMA LoadMetadataInv == ASSUME RecordInv, load_or_build_metadata PROVE RecordInv'
<1>1. At("meta") /\ Tail(todo) = Plan("start")
  <2>1. PICK l \in Labels \ {"idle"} :
          At(l) /\ Step(l) = "load_or_build_metadata" /\ Tail(todo) = Plan(After(l))
    BY AtStep DEF load_or_build_metadata
  <2>2. l = "meta"
    BY <2>1 DEF Step, Labels, StartLabels, ServeLabels
  <2> QED BY <2>1, <2>2 DEF After
<1>2. /\ TypesOK /\ KeysUsed /\ OneRecord /\ ContentOK("meta") /\ CopiesOK("meta")
      /\ node \in Memories /\ EnrAhead /\ MetaFile(node.key) /\ mode = "Starting"
  BY <1>1 DEF RecordInv, TypesOK, At, HistoryOK, BeforeEnr, BeforeMeta, StartLabels
<1>3. PICK found :
        /\ Reads("metadata", found)
        /\ LoadedSeq(found) \in MetadataSeqs
        /\ node' = [node EXCEPT !.held = None,
               !.metadata = [version |-> 2, seq |-> LoadedSeq(found), subnets |-> {}]]
  BY DEF load_or_build_metadata
<1>4. /\ todo' = Plan("meta_create")
      /\ disk' = disk /\ mode' = mode /\ used_keys' = used_keys /\ missed' = missed
  BY <1>1, Lists DEF load_or_build_metadata
<1>5. /\ found = disk.metadata \/ found = NoFile
      /\ faults' \in 0 .. MaxFaults /\ kept' \in BOOLEAN
      /\ published_enrs' \subseteq published_enrs
      /\ published_metadata' \subseteq published_metadata
      /\ ~kept' => published_enrs' = {} /\ published_metadata' = {}
      /\ found = disk.metadata \/ (published_enrs' = {} /\ published_metadata' = {})
  BY <1>3, ReadsEffect DEF Files
<1>6. PICK new : new = [version |-> 2, seq |-> LoadedSeq(found), subnets |-> {}]
  OBVIOUS
<1>7. /\ new \in Metadata /\ new.version = 2 /\ new.subnets = {} /\ new.seq = LoadedSeq(found)
  BY <1>3, <1>6 DEF Metadata
<1>8. /\ node' \in Memories /\ node'.key = node.key /\ node'.config = node.config
      /\ node'.enr = node.enr /\ node'.globals = node.globals /\ node'.metadata = new
      /\ node'.events = node.events
  BY <1>2, <1>3, <1>6, <1>7 DEF Memories
<1>9. ASSUME NEW m \in published_metadata', m.key = node.key
      PROVE  m.metadata.seq < new.seq \/ m.metadata = new
  <2>1. /\ m \in published_metadata /\ found = disk.metadata /\ found \in Metadata
        /\ \/ m.metadata.seq < found.seq
           \/ m.metadata = found
           \/ m.metadata.seq = found.seq /\ found.version = 1
    BY <1>2, <1>5, <1>9 DEF MetaFile
  <2>2. /\ m.metadata \in Metadata /\ m.metadata.seq \in Nat /\ found.seq \in Nat
        /\ found.version \in {1, 2}
    BY <1>2, <2>1, RecordAssumption DEF TypesOK, Metadata, MetadataSeqs
  <2>3. CASE found.version = 2 /\ found.subnets = {}
    <3>1. new.seq = found.seq
      BY <1>7, <2>1, <2>3 DEF LoadedSeq
    <3>2. new = found
      BY <1>7, <2>1, <2>3, <3>1 DEF Metadata
    <3> QED BY <2>1, <2>3, <3>2
  <2>4. CASE ~(found.version = 2 /\ found.subnets = {})
    <3>1. new.seq = found.seq + 1
      BY <1>7, <2>1, <2>4 DEF LoadedSeq
    <3> QED BY <2>1, <2>2, <3>1
  <2> QED BY <2>3, <2>4
<1>10. OneRecord' /\ KeysUsed'
  BY <1>2, <1>4, <1>5, SmallerPast
<1>11. TypesOK'
  BY <1>2, <1>4, <1>5, <1>8 DEF TypesOK
<1>12. ContentOK("meta_create")'
  BY <1>2, <1>4, <1>7, <1>8 DEF ContentOK, BeforeEnr, BeforeMeta, StartLabels, ServeLabels, SavesEnr,
                                EventLabels, WillSetMeta
<1>13. CopiesOK("meta_create")'
  BY <1>2, <1>4, <1>8 DEF CopiesOK, BeforeEnr, BeforeMeta, SavesEnr, WillSaveEnr, EventLabels,
                          WillSetGlobals, WillSaveMeta, Outrun
<1>14. HistoryOK("meta_create")'
  <2>1. EnrAhead' /\ MetaAhead'
    BY <1>2, <1>5, <1>8, <1>9 DEF EnrAhead, MetaAhead
  <2> QED BY <2>1 DEF HistoryOK, BeforeEnr, BeforeMeta
<1> QED BY <1>2, <1>4, <1>10, <1>11, <1>12, <1>13, <1>14 DEF RecordInv, At, Labels, StartLabels

-----------------------------------------------------------------------------
(* A running node.                                                         *)

\* Others see an ENR that is newer than the others of its key: no number stands for two.
LEMMA PublishEnr ==
    ASSUME TypesOK, OneRecord, KeysUsed, NEW enr \in Enrs, enr.key \in used_keys,
           published_enrs' = published_enrs \cup Seen({enr}),
           UNCHANGED <<published_metadata, kept, used_keys, disk>>,
           \A e \in published_enrs : e.key = enr.key => e.seq < enr.seq \/ e = enr
    PROVE  /\ OneRecord' /\ KeysUsed' /\ published_enrs' \subseteq Enrs
           /\ \A e \in published_enrs' : e.key = enr.key => e.seq < enr.seq \/ e = enr
<1>1. \A e \in published_enrs' : e = enr \/ e \in published_enrs
  BY DEF Seen
<1>2. enr.seq \in Nat /\ \A e \in published_enrs : e.seq \in Nat
  BY DEF TypesOK, Enrs, Seqs
<1>3. ~kept' => published_enrs' = {} /\ published_metadata' = {}
  BY DEF OneRecord, Seen
<1>4. ASSUME NEW d \in published_enrs', NEW e \in published_enrs', d.key = e.key, d.seq = e.seq
      PROVE  d = e
  <2>1. CASE d \in published_enrs /\ e \in published_enrs
    BY <1>4, <2>1 DEF OneRecord
  <2>2. CASE d = enr /\ e \in published_enrs
    BY <1>2, <1>4, <2>2
  <2>3. CASE d \in published_enrs /\ e = enr
    BY <1>2, <1>4, <2>3
  <2> QED BY <1>1, <2>1, <2>2, <2>3
<1>5. OneRecord'
  BY <1>3, <1>4 DEF OneRecord
<1>6. KeysUsed'
  BY <1>1 DEF KeysUsed
<1>7. published_enrs' \subseteq Enrs
  BY <1>1 DEF TypesOK
<1> QED BY <1>1, <1>5, <1>6, <1>7

\* discv5 starts.
LEMMA StartDiscoveryInv == ASSUME RecordInv, StartDiscovery PROVE RecordInv'
<1>1. At("start") /\ Tail(todo) = Plan("idle")
  <2>1. PICK l \in Labels \ {"idle"} :
          At(l) /\ Step(l) = "start" /\ Tail(todo) = Plan(After(l))
    BY AtStep DEF StartDiscovery
  <2>2. l = "start"
    BY <2>1 DEF Step, Labels, StartLabels, ServeLabels
  <2> QED BY <2>1, <2>2 DEF After
<1>2. /\ TypesOK /\ KeysUsed /\ OneRecord /\ ContentOK("start") /\ CopiesOK("start")
      /\ node \in Memories /\ EnrAhead /\ MetaAhead
  BY <1>1 DEF RecordInv, TypesOK, At, HistoryOK, BeforeEnr, BeforeMeta, StartLabels
<1>3. /\ node.enr \in Enrs /\ node.enr.key = node.key /\ node.key \in used_keys
      /\ node.globals = node.enr /\ node.enr.eth2 = node.config.eth2 /\ node.enr.eth2 \in Forks
  BY <1>2 DEF ContentOK, BeforeEnr, StartLabels, Enrs
<1>4. /\ mode' = "Serving" /\ todo' = Plan("idle")
      /\ node' = [node EXCEPT !.fork = node.globals.eth2, !.stream = "Awaiting"]
      /\ published_enrs' = published_enrs \cup Seen({node.enr})
      /\ UNCHANGED <<disk, used_keys, faults, missed, published_metadata, kept>>
  BY <1>1 DEF StartDiscovery
<1>5. /\ node' \in Memories /\ node'.key = node.key /\ node'.config = node.config
      /\ node'.enr = node.enr /\ node'.globals = node.globals /\ node'.metadata = node.metadata
      /\ node'.events = node.events /\ node'.fork = node.config.eth2
  BY <1>2, <1>3, <1>4 DEF Memories
<1>6. /\ OneRecord' /\ KeysUsed' /\ published_enrs' \subseteq Enrs
      /\ \A e \in published_enrs' : e.key = node.enr.key => e.seq < node.enr.seq \/ e = node.enr
  BY <1>2, <1>3, <1>4, PublishEnr DEF EnrAhead
<1>7. TypesOK'
  BY <1>2, <1>4, <1>5, <1>6 DEF TypesOK
<1>8. ContentOK("idle")'
  BY <1>2, <1>3, <1>4, <1>5 DEF ContentOK, BeforeEnr, BeforeMeta, StartLabels, ServeLabels, SavesEnr,
                                EventLabels, WillSetMeta, WillSetFork
<1>9. CopiesOK("idle")'
  BY <1>2, <1>4, <1>5 DEF CopiesOK, BeforeEnr, BeforeMeta, SavesEnr, WillSaveEnr, EventLabels,
                          WillSetGlobals, WillSaveMeta, Outrun
<1>10. HistoryOK("idle")'
  <2>1. EnrAhead' /\ MetaAhead'
    BY <1>2, <1>3, <1>4, <1>5, <1>6 DEF EnrAhead, MetaAhead
  <2> QED BY <2>1 DEF HistoryOK, BeforeEnr, BeforeMeta
<1> QED BY <1>4, <1>6, <1>7, <1>8, <1>9, <1>10 DEF RecordInv, At, Labels, StartLabels, ServeLabels

\* A running node goes on with another memory, whose ENR is the same or one newer.
LEMMA BecomesHistory ==
    ASSUME RecordInv, NEW l \in ServeLabels, At(l), NEW k \in ServeLabels,
           NEW memory \in Memories, Becomes(memory), memory.enr \in Enrs,
           memory.key = node.key, memory.enr.key = node.key, memory.metadata = node.metadata,
           memory.enr = node.enr \/ memory.enr.seq = node.enr.seq + 1,
           missed' \subseteq {"key", "enr", "metadata", "globals"}
    PROVE  TypesOK' /\ KeysUsed' /\ OneRecord' /\ HistoryOK(k)'
<1>1. /\ node' = memory /\ published_enrs' = published_enrs \cup Seen({memory.enr})
      /\ UNCHANGED <<disk, mode, used_keys, faults, published_metadata, kept>>
  BY DEF Becomes
<1>2. TypesOK /\ KeysUsed /\ OneRecord /\ ContentOK(l) /\ HistoryOK(l)
  BY DEF RecordInv, At
<1>3. /\ l \notin BeforeEnr /\ l \notin BeforeMeta /\ l # "key"
      /\ k \notin BeforeEnr /\ k \notin BeforeMeta
  BY DEF BeforeEnr, BeforeMeta, ServeLabels
<1>4. EnrAhead /\ MetaAhead /\ node.key \in used_keys /\ node.enr \in Enrs
  BY <1>2, <1>3 DEF HistoryOK, ContentOK
<1>5. ASSUME NEW e \in published_enrs, e.key = memory.enr.key
      PROVE  e.seq < memory.enr.seq \/ e = memory.enr
  <2>1. e.seq \in Nat /\ node.enr.seq \in Nat /\ memory.enr.seq \in Nat
    BY <1>2, <1>4 DEF TypesOK, Enrs, Seqs
  <2>2. e.seq < node.enr.seq \/ e = node.enr
    BY <1>4, <1>5 DEF EnrAhead
  <2> QED BY <2>1, <2>2
<1>6. /\ OneRecord' /\ KeysUsed' /\ published_enrs' \subseteq Enrs
      /\ \A e \in published_enrs' : e.key = memory.enr.key => e.seq < memory.enr.seq \/ e = memory.enr
  BY <1>1, <1>2, <1>4, <1>5, PublishEnr
<1>7. TypesOK'
  BY <1>1, <1>2, <1>6 DEF TypesOK
<1>8. EnrAhead' /\ MetaAhead'
  BY <1>1, <1>4, <1>6 DEF EnrAhead, MetaAhead
<1> QED BY <1>3, <1>6, <1>7, <1>8 DEF HistoryOK

\* The application subscribes to a subnet or leaves it.
LEMMA UpdateSubnetInv ==
    ASSUME RecordInv, NEW s \in Subnets, NEW value \in BOOLEAN, update_enr_subnet(s, value)
    PROVE  RecordInv'
<1>1. At("idle") /\ Idle
  BY AtIdle DEF update_enr_subnet
<1>2. /\ TypesOK /\ ContentOK("idle") /\ CopiesOK("idle") /\ node \in Memories
      /\ mode = "Serving" /\ missed \subseteq {"key", "enr", "metadata", "globals"}
  BY <1>1 DEF RecordInv, TypesOK, At, StartLabels
<1>3. /\ node.enr \in Enrs /\ node.enr.key = node.key /\ node.key \in used_keys
      /\ node.config \in Settings /\ node.metadata \in Metadata
  BY <1>2 DEF ContentOK, BeforeEnr, BeforeMeta
<1>4. missed' = missed /\ node.metadata.seq + 1 \in MetadataSeqs
  BY DEF update_enr_subnet
<1>5. {"idle", "s_metadata", "s_globals"} \subseteq ServeLabels
      /\ {"idle", "s_metadata", "s_globals"} \cap StartLabels = {}
  BY DEF ServeLabels, StartLabels
<1>6. CASE Becomes(node) /\ todo' = SaveMetadata
  <2>1. node' = node /\ UNCHANGED <<disk, mode, used_keys>> /\ todo' = Plan("s_metadata")
    BY <1>6, Lists DEF Becomes
  <2>2. TypesOK' /\ KeysUsed' /\ OneRecord' /\ HistoryOK("s_metadata")'
    BY <1>1, <1>2, <1>3, <1>4, <1>5, <1>6, BecomesHistory
  <2>3. ContentOK("s_metadata")'
    BY <1>2, <1>4, <2>1 DEF ContentOK, BeforeEnr, BeforeMeta, StartLabels, ServeLabels, SavesEnr,
                            EventLabels, WillSetMeta, WillSetFork
  <2>4. CopiesOK("s_metadata")'
    BY <1>2, <1>4, <2>1 DEF CopiesOK, BeforeEnr, BeforeMeta, SavesEnr, WillSaveEnr, EventLabels,
                            WillSetGlobals, WillSaveMeta, Outrun
  <2> QED BY <1>2, <1>5, <2>1, <2>2, <2>3, <2>4 DEF RecordInv, At, Labels
<1>7. CASE /\ \E subnets \in {node.enr.subnets \cup {s}, node.enr.subnets \ {s}} :
                  Becomes([node EXCEPT !.enr = Inserted([node.enr EXCEPT !.subnets = subnets])])
           /\ todo' = EnrSteps \o SaveMetadata
  <2>1. PICK subnets \in {node.enr.subnets \cup {s}, node.enr.subnets \ {s}} :
          Becomes([node EXCEPT !.enr = Inserted([node.enr EXCEPT !.subnets = subnets])])
    BY <1>7
  <2>2. PICK enr : enr = [node.enr EXCEPT !.subnets = subnets, !.seq = node.enr.seq + 1]
    OBVIOUS
  <2>3. PICK memory : memory = [node EXCEPT !.enr = enr]
    OBVIOUS
  <2>4. /\ Becomes(memory) /\ todo' = Plan("s_globals")
    <3>1. Inserted([node.enr EXCEPT !.subnets = subnets]) = enr
      BY <1>3, <2>2 DEF Inserted, Enrs
    <3> QED BY <1>7, <2>1, <2>3, <3>1, Lists
  <2>5. /\ enr.key = node.key /\ enr.seq = node.enr.seq + 1 /\ enr.tcp = node.enr.tcp
        /\ enr.eth2 = node.enr.eth2 /\ enr.ip = node.enr.ip /\ enr.udp = node.enr.udp
        /\ enr.subnets = subnets
    BY <1>3, <2>2 DEF Enrs
  <2>6. memory.enr = enr
    BY <1>2, <2>3 DEF Memories
  <2>7. enr \in Enrs
    <3>1. enr.seq \in Seqs
      BY <2>4, <2>6 DEF Becomes
    <3>2. subnets \in SUBSET Subnets
      BY <1>3, <2>1 DEF Enrs
    <3> QED BY <1>3, <2>2, <2>5, <3>1, <3>2 DEF Enrs
  <2>8. /\ memory \in Memories /\ memory.key = node.key /\ memory.config = node.config
        /\ memory.metadata = node.metadata /\ memory.events = node.events
        /\ memory.globals = node.globals /\ memory.fork = node.fork
    BY <1>2, <2>3, <2>7 DEF Memories
  <2>9. node' = memory /\ UNCHANGED <<disk, mode, used_keys>>
    BY <2>4 DEF Becomes
  <2>10. TypesOK' /\ KeysUsed' /\ OneRecord' /\ HistoryOK("s_globals")'
    BY <1>1, <1>2, <1>4, <1>5, <2>4, <2>5, <2>6, <2>7, <2>8, BecomesHistory
  <2>11. ContentOK("s_globals")'
    BY <1>2, <1>3, <1>4, <2>5, <2>6, <2>7, <2>8, <2>9
       DEF ContentOK, BeforeEnr, BeforeMeta, StartLabels, ServeLabels, SavesEnr, EventLabels,
           WillSetMeta, WillSetFork
  <2>12. CopiesOK("s_globals")'
    BY <1>2, <1>4, <2>8, <2>9
       DEF CopiesOK, BeforeEnr, BeforeMeta, SavesEnr, WillSaveEnr, EventLabels, WillSetGlobals,
           WillSaveMeta, Outrun
  <2> QED BY <1>2, <1>5, <2>4, <2>9, <2>10, <2>11, <2>12 DEF RecordInv, At, Labels
<1> QED BY <1>6, <1>7 DEF update_enr_subnet, update_enr_bitfield

\* The application changes the fork.
LEMMA UpdateForkInv ==
    ASSUME RecordInv, NEW fork \in NextForks, update_fork_version(fork)
    PROVE  RecordInv'
<1>1. At("idle") /\ Idle
  BY AtIdle DEF update_fork_version
<1>2. /\ TypesOK /\ ContentOK("idle") /\ CopiesOK("idle") /\ node \in Memories
      /\ mode = "Serving" /\ missed \subseteq {"key", "enr", "metadata", "globals"}
  BY <1>1 DEF RecordInv, TypesOK, At, StartLabels
<1>3. /\ node.enr \in Enrs /\ node.enr.key = node.key /\ node.key \in used_keys
      /\ node.config \in Settings /\ node.metadata \in Metadata
  BY <1>2 DEF ContentOK, BeforeEnr, BeforeMeta
<1>4. /\ "idle" \in ServeLabels /\ "f_globals" \in ServeLabels /\ "f_globals" \notin StartLabels
      /\ fork \in Forks
  BY DEF ServeLabels, StartLabels, Forks
<1>5. PICK enr, memory :
        /\ enr = Inserted([node.enr EXCEPT !.eth2 = fork])
        /\ memory = [node EXCEPT !.enr = enr, !.config.eth2 = fork]
        /\ Becomes(memory) /\ todo' = Plan("f_globals") /\ missed' = missed
  BY Lists DEF update_fork_version, update_eth2_enr
<1>6. memory.enr = enr
  BY <1>2, <1>5 DEF Memories
<1>7. enr.seq \in Seqs
  BY <1>5, <1>6 DEF Becomes
<1>8. /\ enr \in Enrs /\ enr.seq = node.enr.seq + 1 /\ enr.key = node.key
      /\ enr.tcp = node.enr.tcp /\ enr.eth2 = fork /\ enr.subnets = node.enr.subnets
  BY <1>3, <1>4, <1>5, <1>7 DEF Inserted, Enrs
<1>9. /\ memory \in Memories /\ memory.key = node.key /\ memory.config \in Settings
      /\ memory.config.tcp = node.config.tcp /\ memory.config.eth2 = fork
      /\ memory.metadata = node.metadata /\ memory.events = node.events
  <2>1. PICK config : config = [node.config EXCEPT !.eth2 = fork]
    OBVIOUS
  <2>2. config \in Settings /\ config.tcp = node.config.tcp /\ config.eth2 = fork
    BY <1>3, <1>4, <2>1 DEF Settings
  <2>3. memory = [node EXCEPT !.enr = enr, !.config = config]
    BY <1>2, <1>5, <2>1 DEF Memories
  <2> QED BY <1>2, <1>8, <2>2, <2>3 DEF Memories
<1>10. node' = memory /\ UNCHANGED <<disk, mode, used_keys>>
  BY <1>5 DEF Becomes
<1>11. TypesOK' /\ KeysUsed' /\ OneRecord' /\ HistoryOK("f_globals")'
  BY <1>1, <1>2, <1>4, <1>5, <1>6, <1>8, <1>9, BecomesHistory
<1>12. ContentOK("f_globals")'
  BY <1>2, <1>3, <1>6, <1>8, <1>9, <1>10
     DEF ContentOK, BeforeEnr, BeforeMeta, StartLabels, ServeLabels, SavesEnr, EventLabels,
         WillSetMeta, WillSetFork
<1>13. CopiesOK("f_globals")'
  BY <1>2, <1>5, <1>9, <1>10
     DEF CopiesOK, BeforeEnr, BeforeMeta, SavesEnr, WillSaveEnr, EventLabels, WillSetGlobals,
         WillSaveMeta, Outrun
<1> QED BY <1>2, <1>4, <1>5, <1>10, <1>11, <1>12, <1>13 DEF RecordInv, At, Labels

\* The labels of the steps between the saves.
LEMMA UpdateLabels ==
    ASSUME NEW l \in Labels \ {"idle"}
    PROVE  /\ Step(l) = "globals" =>
                  <<l, After(l)>> \in {<<"s_globals", "s_hold">>, <<"f_globals", "f_hold">>}
           /\ Step(l) = "hold" =>
                  <<l, After(l)>> \in {<<"s_hold", "s_create">>, <<"f_hold", "f_create">>}
           /\ Step(l) = "metadata" => l = "s_metadata" /\ After(l) = "m_create"
           /\ Step(l) = "fork_id" => l = "f_id" /\ After(l) = "idle"
           /\ Step(l) = "globals_held" => l = "e_globals" /\ After(l) = "idle"
<1>1. /\ Step(l) = "globals" => l \in {"s_globals", "f_globals"}
      /\ Step(l) = "hold" => l \in {"s_hold", "f_hold"}
      /\ Step(l) = "metadata" => l = "s_metadata"
      /\ Step(l) = "fork_id" => l = "f_id"
      /\ Step(l) = "globals_held" => l = "e_globals"
  BY DEF Step, Labels, StartLabels, ServeLabels
<1>2. /\ After("s_globals") = "s_hold" /\ After("f_globals") = "f_hold"
      /\ After("s_hold") = "s_create" /\ After("f_hold") = "f_create"
      /\ After("s_metadata") = "m_create" /\ After("f_id") = "idle" /\ After("e_globals") = "idle"
  BY DEF After
<1> QED BY <1>1, <1>2

\* A step of a running node that nobody else sees keeps what others have seen.
LEMMA InnerHistory ==
    ASSUME RecordInv, NEW l \in ServeLabels, At(l), NEW k \in ServeLabels,
           node' \in Memories, node'.key = node.key, node'.enr = node.enr,
           \/ node'.metadata = node.metadata
           \/ node'.metadata \in Metadata /\ node'.metadata.seq = node.metadata.seq + 1,
           missed' \subseteq {"key", "enr", "metadata", "globals"},
           UNCHANGED <<disk, used_keys, faults, published_enrs, published_metadata, kept>>
    PROVE  TypesOK' /\ KeysUsed' /\ OneRecord' /\ HistoryOK(k)'
<1>1. TypesOK /\ KeysUsed /\ OneRecord /\ ContentOK(l) /\ HistoryOK(l)
  BY DEF RecordInv, At
<1>2. /\ l \notin BeforeEnr /\ l \notin BeforeMeta
      /\ k \notin BeforeEnr /\ k \notin BeforeMeta
  BY DEF BeforeEnr, BeforeMeta, ServeLabels
<1>3. EnrAhead /\ MetaAhead /\ node.metadata \in Metadata
  BY <1>1, <1>2 DEF HistoryOK, ContentOK
<1>4. TypesOK' /\ KeysUsed' /\ OneRecord'
  BY <1>1 DEF TypesOK, KeysUsed, OneRecord
<1>5. EnrAhead'
  BY <1>3 DEF EnrAhead
<1>6. MetaAhead'
  <2>1. ASSUME NEW m \in published_metadata, m.key = node.key
        PROVE  m.metadata.seq < node'.metadata.seq \/ m.metadata = node'.metadata
    <3>1. m.metadata.seq \in Nat /\ node.metadata.seq \in Nat
      BY <1>1, <1>3, RecordAssumption DEF TypesOK, Metadata, MetadataSeqs
    <3>2. m.metadata.seq < node.metadata.seq \/ m.metadata = node.metadata
      BY <1>3, <2>1 DEF MetaAhead
    <3> QED BY <3>1, <3>2
  <2> QED BY <2>1 DEF MetaAhead
<1> QED BY <1>2, <1>4, <1>5, <1>6 DEF HistoryOK

\* A step between the saves, seen from the handler.
InnerStep(l, k) ==
    /\ l \in ServeLabels /\ At(l)
    /\ todo' = Plan(k) /\ k \in ServeLabels
    /\ mode' = mode
    /\ UNCHANGED <<disk, used_keys, faults, published_enrs, published_metadata, kept>>
    /\ missed' \in {missed, missed \ {"globals"}}

\* The global copy of the ENR, and the ENR that is saved next.
LEMMA GlobalsStepInv ==
    ASSUME RecordInv, NEW l, NEW k, InnerStep(l, k),
           \/ /\ <<l, k>> \in {<<"s_globals", "s_hold">>, <<"f_globals", "f_hold">>}
              /\ node' = [node EXCEPT !.globals = node.enr]
           \/ /\ <<l, k>> \in {<<"s_hold", "s_create">>, <<"f_hold", "f_create">>}
              /\ node' = [node EXCEPT !.held = node.enr]
              /\ missed' = missed \/ node.globals = node.enr
    PROVE  RecordInv'
<1>1. /\ TypesOK /\ ContentOK(l) /\ CopiesOK(l) /\ node \in Memories /\ mode = "Serving"
      /\ missed \subseteq {"key", "enr", "metadata", "globals"} /\ l \in ServeLabels /\ At(l)
      /\ k \in Labels /\ k \notin StartLabels
  BY DEF RecordInv, TypesOK, InnerStep, At, StartLabels, ServeLabels, Labels
<1>2. node.enr \in Enrs
  BY <1>1 DEF ContentOK, BeforeEnr, ServeLabels
<1>3. /\ node' \in Memories /\ node'.key = node.key /\ node'.enr = node.enr
      /\ node'.metadata = node.metadata /\ node'.config = node.config /\ node'.fork = node.fork
      /\ node'.events = node.events
  BY <1>1, <1>2 DEF Memories
<1>4. TypesOK' /\ KeysUsed' /\ OneRecord' /\ HistoryOK(k)'
  BY <1>1, <1>3, InnerHistory DEF InnerStep
<1>5. \/ /\ <<l, k>> \in {<<"s_globals", "s_hold">>, <<"f_globals", "f_hold">>}
         /\ node'.globals = node.enr
      \/ /\ <<l, k>> \in {<<"s_hold", "s_create">>, <<"f_hold", "f_create">>}
         /\ node'.held = node.enr /\ node'.globals = node.globals
         /\ missed' = missed \/ node'.globals = node.enr
  BY <1>1 DEF Memories
<1>6. ContentOK(k)'
  BY <1>1, <1>2, <1>3, <1>5 DEF InnerStep, ContentOK, BeforeEnr, BeforeMeta, StartLabels, ServeLabels,
        SavesEnr, EventLabels, WillSetMeta, WillSetFork
<1>7. CopiesOK(k)'
  BY <1>1, <1>3, <1>5 DEF InnerStep, CopiesOK, BeforeEnr, BeforeMeta, SavesEnr, WillSaveEnr,
        EventLabels, WillSetGlobals, WillSaveMeta, Outrun
<1> QED BY <1>1, <1>4, <1>6, <1>7 DEF RecordInv, At, InnerStep

\* The metadata.
LEMMA MetadataStepInv ==
    ASSUME RecordInv, InnerStep("s_metadata", "m_create"), node' = update_metadata_bitfields,
           missed' = missed \/ node'.globals = node.enr
    PROVE  RecordInv'
<1>1. /\ TypesOK /\ ContentOK("s_metadata") /\ CopiesOK("s_metadata") /\ node \in Memories
      /\ mode = "Serving" /\ missed \subseteq {"key", "enr", "metadata", "globals"}
      /\ "s_metadata" \in ServeLabels /\ At("s_metadata")
      /\ "m_create" \in Labels /\ "m_create" \notin StartLabels
  BY DEF RecordInv, TypesOK, InnerStep, At, StartLabels, ServeLabels, Labels
<1>2. /\ node.enr \in Enrs /\ node.metadata \in Metadata /\ node.metadata.version = 2
      /\ node.metadata.seq + 1 \in MetadataSeqs
  BY <1>1 DEF ContentOK, BeforeEnr, BeforeMeta, WillSetMeta
<1>3. PICK metadata : metadata = [node.metadata EXCEPT !.seq = node.metadata.seq + 1,
                                                      !.subnets = node.enr.subnets]
  OBVIOUS
<1>4. /\ metadata \in Metadata /\ metadata.seq = node.metadata.seq + 1 /\ metadata.version = 2
      /\ metadata.subnets = node.enr.subnets
  BY <1>2, <1>3 DEF Metadata, Enrs
<1>5. node' = [node EXCEPT !.held = None, !.metadata = metadata]
  BY <1>3 DEF update_metadata_bitfields
<1>6. /\ node' \in Memories /\ node'.key = node.key /\ node'.enr = node.enr
      /\ node'.metadata = metadata /\ node'.config = node.config /\ node'.fork = node.fork
      /\ node'.events = node.events /\ node'.globals = node.globals
  BY <1>1, <1>4, <1>5 DEF Memories
<1>7. TypesOK' /\ KeysUsed' /\ OneRecord' /\ HistoryOK("m_create")'
  BY <1>1, <1>4, <1>6, InnerHistory DEF InnerStep
<1>8. ContentOK("m_create")'
  BY <1>1, <1>2, <1>4, <1>6 DEF InnerStep, ContentOK, BeforeEnr, BeforeMeta, StartLabels, ServeLabels,
        SavesEnr, EventLabels, WillSetMeta, WillSetFork
<1>9. CopiesOK("m_create")'
  BY <1>1, <1>6 DEF InnerStep, CopiesOK, BeforeEnr, BeforeMeta, SavesEnr, WillSaveEnr,
        EventLabels, WillSetGlobals, WillSaveMeta, Outrun
<1> QED BY <1>1, <1>7, <1>8, <1>9 DEF RecordInv, At, InnerStep

\* The last step of an update of the fork, and of an event of discv5.
LEMMA LastStepInv ==
    ASSUME RecordInv, NEW l, InnerStep(l, "idle"),
           \/ l = "f_id" /\ node' = [node EXCEPT !.held = None, !.fork = node.config.eth2]
           \/ l = "e_globals" /\ node' = [node EXCEPT !.held = None, !.globals = node.held],
           missed' = missed \/ node'.globals = node.enr
    PROVE  RecordInv'
<1>1. /\ TypesOK /\ ContentOK(l) /\ CopiesOK(l) /\ node \in Memories
      /\ mode = "Serving" /\ missed \subseteq {"key", "enr", "metadata", "globals"}
      /\ l \in ServeLabels /\ At(l) /\ "idle" \in Labels /\ "idle" \notin StartLabels
  BY DEF RecordInv, TypesOK, InnerStep, At, StartLabels, ServeLabels, Labels
<1>2. node.enr \in Enrs /\ node.config \in Settings /\ node.config.eth2 \in Forks
  BY <1>1 DEF ContentOK, BeforeEnr, ServeLabels, Settings
<1>3. /\ node' \in Memories /\ node'.key = node.key /\ node'.enr = node.enr
      /\ node'.metadata = node.metadata /\ node'.config = node.config
      /\ node'.events = node.events
  <2>1. CASE node' = [node EXCEPT !.held = None, !.fork = node.config.eth2]
    BY <1>1, <1>2, <2>1 DEF Memories
  <2>2. CASE node' = [node EXCEPT !.held = None, !.globals = node.held]
    BY <1>1, <2>2 DEF Memories
  <2> QED BY <2>1, <2>2
<1>4. TypesOK' /\ KeysUsed' /\ OneRecord' /\ HistoryOK("idle")'
  BY <1>1, <1>3, InnerHistory DEF InnerStep
<1>5. \/ l = "f_id" /\ node'.fork = node.config.eth2 /\ node'.globals = node.globals
      \/ l = "e_globals" /\ node'.fork = node.fork /\ node'.globals = node.held
  BY <1>1 DEF Memories
<1>6. ContentOK("idle")'
  BY <1>1, <1>2, <1>3, <1>5 DEF InnerStep, ContentOK, BeforeEnr, BeforeMeta, StartLabels, ServeLabels,
        SavesEnr, EventLabels, WillSetMeta, WillSetFork
<1>7. CopiesOK("idle")'
  BY <1>1, <1>3, <1>5 DEF InnerStep, CopiesOK, BeforeEnr, BeforeMeta, SavesEnr, WillSaveEnr,
        EventLabels, WillSetGlobals, WillSaveMeta, Outrun
<1> QED BY <1>1, <1>4, <1>6, <1>7 DEF RecordInv, At, InnerStep

\* The steps between the saves.
LEMMA UpdateStepInv == ASSUME RecordInv, UpdateStep PROVE RecordInv'
<1>1. PICK step \in {"globals", "hold", "metadata", "fork_id", "globals_held"} :
        /\ Reached(step)
        /\ step = "globals" => node' = [node EXCEPT !.globals = node.enr]
        /\ step = "hold" => node' = [node EXCEPT !.held = node.enr]
        /\ step = "metadata" => node' = update_metadata_bitfields
        /\ step = "fork_id" => node' = [node EXCEPT !.held = None, !.fork = node.config.eth2]
        /\ step = "globals_held" => node' = [node EXCEPT !.held = None, !.globals = node.held]
  BY DEF UpdateStep
<1>2. PICK l \in Labels \ {"idle"} :
        /\ At(l) /\ Step(l) = step
        /\ Tail(todo) = Plan(After(l)) /\ After(l) \in Labels
  BY <1>1, AtStep
<1>3. <<step, l, After(l)>> \in
        {<<"globals", "s_globals", "s_hold">>, <<"globals", "f_globals", "f_hold">>,
         <<"hold", "s_hold", "s_create">>, <<"hold", "f_hold", "f_create">>,
         <<"metadata", "s_metadata", "m_create">>, <<"fork_id", "f_id", "idle">>,
         <<"globals_held", "e_globals", "idle">>}
  BY <1>1, <1>2, UpdateLabels
<1>4. /\ missed' \in {missed, missed \ {"globals"}}
      /\ missed' = missed \/ node'.globals = node.enr
      /\ UNCHANGED <<disk, mode, used_keys, faults, published_enrs, published_metadata, kept>>
      /\ todo' = Tail(todo)
  BY DEF UpdateStep, histories
<1>5. InnerStep(l, After(l))
  BY <1>2, <1>3, <1>4 DEF InnerStep, ServeLabels
<1>6. CASE step = "globals"
  BY <1>1, <1>3, <1>5, <1>6, GlobalsStepInv
<1>7. CASE step = "hold"
  <2>1. node \in Memories /\ node' = [node EXCEPT !.held = node.enr]
    BY <1>1, <1>7 DEF RecordInv, TypesOK
  <2>2. node'.globals = node.globals
    BY <2>1 DEF Memories
  <2> QED BY <1>3, <1>4, <1>5, <1>7, <2>1, <2>2, GlobalsStepInv
<1>8. CASE step = "metadata"
  BY <1>1, <1>3, <1>4, <1>5, <1>8, MetadataStepInv
<1>9. CASE step \in {"fork_id", "globals_held"}
  BY <1>1, <1>3, <1>4, <1>5, <1>9, LastStepInv
<1> QED BY <1>6, <1>7, <1>8, <1>9

\* Others get the metadata of an idle node.
LEMMA SendMetadataInv == ASSUME RecordInv, send_meta_data_response PROVE RecordInv'
<1>1. At("idle")
  BY AtIdle DEF send_meta_data_response
<1>2. /\ TypesOK /\ KeysUsed /\ OneRecord /\ ContentOK("idle") /\ CopiesOK("idle")
      /\ EnrAhead /\ MetaAhead
  BY <1>1 DEF RecordInv, At, HistoryOK, BeforeEnr, BeforeMeta
<1>3. /\ node.key \in used_keys /\ node.key \in Keys /\ node.metadata \in Metadata
  BY <1>2 DEF ContentOK, BeforeEnr, BeforeMeta, TypesOK
<1>4. PICK own : own = [key |-> node.key, metadata |-> node.metadata]
  OBVIOUS
<1>5. /\ published_metadata' = published_metadata \cup Seen({own})
      /\ UNCHANGED <<disk, mode, todo, node, used_keys, faults, missed, published_enrs, kept>>
  BY <1>4 DEF send_meta_data_response
<1>6. /\ own \in [key : Keys, metadata : Metadata] /\ own.key = node.key
      /\ own.metadata = node.metadata
      /\ \A m \in published_metadata' : m = own \/ m \in published_metadata
  BY <1>3, <1>4, <1>5 DEF Seen
<1>7. TypesOK'
  BY <1>2, <1>5, <1>6 DEF TypesOK
<1>8. KeysUsed'
  BY <1>2, <1>3, <1>5, <1>6 DEF KeysUsed
<1>9. MetaAhead'
  BY <1>2, <1>5, <1>6 DEF MetaAhead
<1>10. OneRecord'
  <2>1. ~kept' => published_enrs' = {} /\ published_metadata' = {}
    BY <1>2, <1>5 DEF OneRecord, Seen
  <2>2. ASSUME NEW m \in published_metadata, m.key = node.key,
               m.metadata.seq = node.metadata.seq
        PROVE  m = own
    <3>1. m \in [key : Keys, metadata : Metadata] /\ m.metadata.seq \in Int
      BY <1>2, RecordAssumption DEF TypesOK, Metadata, MetadataSeqs
    <3>2. m.metadata = node.metadata
      BY <1>2, <2>2, <3>1 DEF MetaAhead
    <3> QED BY <1>4, <2>2, <3>1, <3>2
  <2>3. ASSUME NEW m \in published_metadata', NEW n \in published_metadata',
               m.key = n.key, m.metadata.seq = n.metadata.seq
        PROVE  m = n
    BY <1>2, <1>6, <2>2, <2>3 DEF OneRecord
  <2>4. \A d, e \in published_enrs' : d.key = e.key /\ d.seq = e.seq => d = e
    BY <1>2, <1>5 DEF OneRecord
  <2> QED BY <2>1, <2>3, <2>4 DEF OneRecord
<1>11. HistoryOK("idle")'
  BY <1>2, <1>5, <1>9 DEF HistoryOK, EnrAhead, BeforeEnr, BeforeMeta
<1>12. ContentOK("idle")' /\ CopiesOK("idle")'
  BY <1>2, <1>5 DEF ContentOK, CopiesOK, Outrun
<1> QED BY <1>1, <1>5, <1>7, <1>8, <1>10, <1>11, <1>12
        DEF RecordInv, At, Labels, ServeLabels, StartLabels

\* discv5 changes the address in its ENR while a handler runs: the copies that were
\* current are outrun, by an event that waits or by one that nobody is told of.
LEMMA SocketUpdateInv == ASSUME RecordInv, NEW a \in Sockets, SocketUpdate(a) PROVE RecordInv'
<1>1. PICK l \in ServeLabels : At(l)
  <2>1. PICK l \in Labels : At(l)
    BY DEF RecordInv, SocketUpdate
  <2>2. l \notin StartLabels
    BY <2>1 DEF At, SocketUpdate
  <2> QED BY <2>1, <2>2 DEF Labels
<1>2. /\ TypesOK /\ ContentOK(l) /\ CopiesOK(l) /\ node \in Memories
      /\ mode = "Serving" /\ missed \subseteq {"key", "enr", "metadata", "globals"}
      /\ l \notin BeforeEnr /\ l \notin BeforeMeta /\ l \notin StartLabels /\ l \in Labels
      /\ todo = Plan(l)
  BY <1>1 DEF RecordInv, TypesOK, At, BeforeEnr, BeforeMeta, StartLabels, ServeLabels, Labels
<1>3. /\ node.enr \in Enrs /\ node.enr.key = node.key
      /\ node.metadata \in Metadata
  BY <1>2 DEF ContentOK
<1>4. PICK enr, events, memory :
        /\ enr = Inserted([node.enr EXCEPT !.ip = a.ip, !.udp = a.udp])
        /\ memory = [node EXCEPT !.enr = enr, !.events = events]
        /\ Becomes(memory) /\ todo' = todo
        /\ \/ events = node.events + 1 /\ node.events < MaxEvents /\ missed' = missed
           \/ events = node.events /\ missed' = missed \cup {"enr", "globals"}
  <2>1. PICK enr : enr = Inserted([node.enr EXCEPT !.ip = a.ip, !.udp = a.udp])
    OBVIOUS
  <2>2. PICK moved : moved = [node EXCEPT !.enr = enr]
    OBVIOUS
  <2>3. \/ /\ node.events < MaxEvents
           /\ Becomes([moved EXCEPT !.events = moved.events + 1])
           /\ missed' = missed
        \/ /\ Becomes(moved)
           /\ missed' = missed \cup {"enr", "globals"}
    BY <2>1, <2>2 DEF SocketUpdate
  <2>4. /\ [moved EXCEPT !.events = moved.events + 1]
             = [node EXCEPT !.enr = enr, !.events = node.events + 1]
        /\ moved = [node EXCEPT !.enr = enr, !.events = node.events]
    BY <1>2, <2>2 DEF Memories
  <2>5. todo' = todo
    BY DEF SocketUpdate
  <2> QED BY <2>1, <2>3, <2>4, <2>5
<1>5. events \in 0 .. MaxEvents /\ (events > 0 \/ {"enr", "globals"} \subseteq missed')
  BY <1>2, <1>4, RecordAssumption DEF Memories
<1>6. memory.enr = enr /\ memory.events = events
  BY <1>2, <1>4 DEF Memories
<1>7. enr.seq \in Seqs
  BY <1>4, <1>6 DEF Becomes
<1>8. /\ enr \in Enrs /\ enr.seq = node.enr.seq + 1 /\ enr.key = node.key
      /\ enr.tcp = node.enr.tcp /\ enr.eth2 = node.enr.eth2 /\ enr.subnets = node.enr.subnets
  BY <1>3, <1>4, <1>7 DEF Inserted, Enrs
<1>9. /\ memory \in Memories /\ memory.key = node.key /\ memory.config = node.config
      /\ memory.metadata = node.metadata /\ memory.held = node.held /\ memory.fork = node.fork
  BY <1>2, <1>4, <1>5, <1>8 DEF Memories
<1>10. node' = memory /\ UNCHANGED <<disk, mode, used_keys>>
  BY <1>4 DEF Becomes
<1>11. missed \subseteq missed' /\ missed' \subseteq {"key", "enr", "metadata", "globals"}
  BY <1>2, <1>4
<1>12. TypesOK' /\ KeysUsed' /\ OneRecord' /\ HistoryOK(l)'
  BY <1>1, <1>4, <1>6, <1>8, <1>9, <1>11, BecomesHistory
<1>13. ContentOK(l)'
  BY <1>2, <1>6, <1>8, <1>9, <1>10 DEF ContentOK
<1>14. CopiesOK(l)'
  <2>1. Outrun("enr")' /\ Outrun("globals")'
    BY <1>5, <1>6, <1>10 DEF Outrun
  <2>2. /\ "key" \in missed => "key" \in missed'
        /\ "metadata" \in missed => "metadata" \in missed'
    BY <1>11
  <2> QED BY <1>2, <1>9, <1>10, <2>1, <2>2 DEF CopiesOK
<1> QED BY <1>2, <1>4, <1>10, <1>12, <1>13, <1>14 DEF RecordInv, At

\* poll gets the stream of discv5's events.
LEMMA PollStreamInv == ASSUME RecordInv, PollStream PROVE RecordInv'
<1>1. At("idle")
  BY AtIdle DEF PollStream
<1>2. TypesOK /\ ContentOK("idle") /\ CopiesOK("idle") /\ node \in Memories
  BY <1>1 DEF RecordInv, TypesOK, At
<1>3. PICK stream \in {"Present", "InActive"} : node' = [node EXCEPT !.stream = stream]
  BY DEF PollStream
<1>4. UNCHANGED <<disk, mode, todo, used_keys, faults, missed, published_enrs,
                  published_metadata, kept>>
  BY DEF PollStream, histories
<1>5. /\ node' \in Memories /\ node'.key = node.key /\ node'.enr = node.enr
      /\ node'.metadata = node.metadata /\ node'.config = node.config
      /\ node'.events = node.events /\ node'.globals = node.globals /\ node'.fork = node.fork
      /\ node'.held = node.held
  BY <1>2, <1>3 DEF Memories
<1>6. /\ "idle" \in ServeLabels /\ "idle" \in Labels
      /\ missed \subseteq {"key", "enr", "metadata", "globals"}
  BY <1>2 DEF ServeLabels, Labels, TypesOK
<1>7. TypesOK' /\ KeysUsed' /\ OneRecord' /\ HistoryOK("idle")'
  BY <1>1, <1>4, <1>5, <1>6, InnerHistory
<1>8. ContentOK("idle")' /\ CopiesOK("idle")'
  BY <1>2, <1>4, <1>5 DEF ContentOK, CopiesOK, Outrun
<1> QED BY <1>1, <1>4, <1>6, <1>7, <1>8 DEF RecordInv, At

\* poll takes an event of discv5.
LEMMA PollSocketUpdatedInv == ASSUME RecordInv, PollSocketUpdated PROVE RecordInv'
<1>1. At("idle") /\ Idle
  BY AtIdle DEF PollSocketUpdated
<1>2. /\ TypesOK /\ ContentOK("idle") /\ CopiesOK("idle") /\ node \in Memories
      /\ mode = "Serving"
  BY <1>1 DEF RecordInv, TypesOK, At, Idle
<1>3. node.enr \in Enrs
  BY <1>2 DEF ContentOK, BeforeEnr
<1>4. /\ node' = [node EXCEPT !.events = node.events - 1, !.held = node.enr] /\ node.events > 0
      /\ todo' = Plan("e_create")
      /\ UNCHANGED <<disk, mode, used_keys, faults, missed, published_enrs, published_metadata, kept>>
  BY Lists DEF PollSocketUpdated, histories
<1>5. /\ node' \in Memories /\ node'.key = node.key /\ node'.enr = node.enr
      /\ node'.metadata = node.metadata /\ node'.config = node.config
      /\ node'.globals = node.globals /\ node'.fork = node.fork
      /\ node'.held = node.enr
  <2>1. node.events - 1 \in 0 .. MaxEvents
    BY <1>2, <1>4, RecordAssumption DEF Memories
  <2> QED BY <1>2, <1>3, <1>4, <2>1 DEF Memories
<1>6. /\ "idle" \in ServeLabels /\ "e_create" \in ServeLabels /\ "e_create" \in Labels
      /\ "e_create" \notin StartLabels
      /\ missed \subseteq {"key", "enr", "metadata", "globals"}
  BY <1>2 DEF ServeLabels, StartLabels, Labels, TypesOK
<1>7. TypesOK' /\ KeysUsed' /\ OneRecord' /\ HistoryOK("e_create")'
  BY <1>1, <1>4, <1>5, <1>6, InnerHistory
<1>8. ContentOK("e_create")'
  BY <1>2, <1>3, <1>4, <1>5 DEF ContentOK, BeforeEnr, BeforeMeta, StartLabels, ServeLabels,
        SavesEnr, EventLabels, WillSetMeta, WillSetFork
<1>9. CopiesOK("e_create")'
  BY <1>2, <1>4, <1>5 DEF CopiesOK, BeforeEnr, BeforeMeta, SavesEnr, WillSaveEnr,
        EventLabels, WillSetGlobals, WillSaveMeta, Outrun
<1> QED BY <1>2, <1>4, <1>6, <1>7, <1>8, <1>9 DEF RecordInv, At

\* The program stops: either the files are as new as what others have seen, or the
\* histories are given up.
LEMMA CrashInv == ASSUME RecordInv, Crash PROVE RecordInv'
<1>1. /\ mode' = "Down" /\ todo' = <<>> /\ node' = NoMemory /\ missed' = {}
      /\ UNCHANGED <<disk, used_keys, faults>>
      /\ Remember(Recorded)
  BY DEF Crash
<1>2. TypesOK /\ KeysUsed /\ OneRecord
  BY DEF RecordInv
<1>3. /\ published_enrs' \subseteq published_enrs
      /\ published_metadata' \subseteq published_metadata
      /\ kept' \in BOOLEAN
      /\ ~kept' => published_enrs' = {} /\ published_metadata' = {}
      /\ kept' => Recorded
  BY <1>1 DEF Remember
<1>4. node' \in Memories
  BY <1>1, RecordAssumption DEF Memories, NoMemory
<1>5. TypesOK'
  BY <1>1, <1>2, <1>3, <1>4 DEF TypesOK
<1>6. KeysUsed'
  BY <1>1, <1>2, <1>3 DEF KeysUsed
<1>7. OneRecord'
  BY <1>2, <1>3 DEF OneRecord
<1>8. EnrFile(disk.key)' /\ MetaFile(disk.key)'
  BY <1>1, <1>3 DEF Recorded, EnrFile, MetaFile
<1> QED BY <1>1, <1>5, <1>6, <1>7, <1>8 DEF RecordInv

-----------------------------------------------------------------------------
(* The theorems.                                                           *)

\* Every step of the node keeps the invariant.
LEMMA RecordStepInv == RecordInv /\ [RecordNext]_recordVars => RecordInv'
<1> SUFFICES ASSUME RecordInv, [RecordNext]_recordVars PROVE RecordInv'
  OBVIOUS
<1>1. CASE \E file \in Files : CreateFile(file) \/ WriteFile(file)
  BY <1>1, CreateFileInv, WriteFileInv
<1>2. CASE \E c \in Configs : Start(c)
  BY <1>2, StartInv
<1>3. CASE load_private_key \/ use_or_load_enr \/ load_or_build_metadata \/ StartDiscovery
  BY <1>3, LoadPrivateKeyInv, UseOrLoadEnrInv, LoadMetadataInv, StartDiscoveryInv
<1>4. CASE \E s \in Subnets : \E value \in BOOLEAN : update_enr_subnet(s, value)
  BY <1>4, UpdateSubnetInv
<1>5. CASE \E fork \in NextForks : update_fork_version(fork)
  BY <1>5, UpdateForkInv
<1>6. CASE UpdateStep \/ send_meta_data_response
  BY <1>6, UpdateStepInv, SendMetadataInv
<1>7. CASE \E a \in Sockets : SocketUpdate(a)
  BY <1>7, SocketUpdateInv
<1>8. CASE PollStream \/ PollSocketUpdated \/ Crash
  BY <1>8, PollStreamInv, PollSocketUpdatedInv, CrashInv
<1>9. CASE UNCHANGED recordVars
  <2>1. UNCHANGED <<disk, mode, todo, node, used_keys, faults, missed, published_enrs,
                    published_metadata, kept>>
    BY <1>9 DEF recordVars
  <2>2. TypesOK' /\ KeysUsed' /\ OneRecord'
    BY <2>1 DEF RecordInv, TypesOK, KeysUsed, OneRecord
  <2>3. CASE /\ mode = "Down" /\ todo = <<>> /\ node = NoMemory
             /\ EnrFile(disk.key) /\ MetaFile(disk.key)
    BY <2>1, <2>2, <2>3 DEF RecordInv, EnrFile, MetaFile
  <2>4. CASE \E l \in Labels : At(l)
    <3>1. PICK l \in Labels : At(l)
      BY <2>4
    <3>2. ContentOK(l)' /\ CopiesOK(l)'
      BY <2>1, <3>1 DEF At, ContentOK, CopiesOK, Outrun
    <3>3. HistoryOK(l)'
      BY <2>1, <3>1 DEF At, HistoryOK, EnrFile, MetaFile, EnrAhead, MetaAhead
    <3> QED BY <2>1, <2>2, <3>1, <3>2, <3>3 DEF RecordInv, At
  <2> QED BY <2>3, <2>4 DEF RecordInv
<1> QED BY <1>1, <1>2, <1>3, <1>4, <1>5, <1>6, <1>7, <1>8, <1>9 DEF RecordNext

\* The invariant makes the records agree.
LEMMA InvConsistent == RecordInv => RecordsConsistent
<1> SUFFICES ASSUME RecordInv PROVE RecordsConsistent
  OBVIOUS
<1>1. TypesOK /\ disk \in Disks /\ node \in Memories
  BY DEF RecordInv, TypesOK
<1>2. todo \in Seq(Steps) /\ mode \in {"Down", "Starting", "Serving"}
  <2>1. CASE \E l \in Labels : At(l)
    BY <2>1, PlanTypes DEF At
  <2>2. CASE mode = "Down" /\ todo = <<>>
    BY <2>2
  <2> QED BY <2>1, <2>2 DEF RecordInv
<1>3. RecordTypeOK
  <2>1. /\ disk.key \in Keys \cup {NoFile, Garbage} /\ disk.enr \in Enrs \cup {NoFile, Garbage}
        /\ disk.metadata \in Metadata \cup {NoFile, Garbage}
    BY <1>1 DEF Disks
  <2>2. /\ node.key \in Keys \cup {None} /\ node.enr \in Enrs \cup {None}
        /\ node.globals \in Enrs \cup {None} /\ node.held \in Enrs \cup {None}
        /\ node.metadata \in Metadata \cup {None} /\ node.fork \in Forks \cup {None}
        /\ node.stream \in {"Awaiting", "Present", "InActive"} /\ node.events \in 0 .. MaxEvents
    BY <1>1 DEF Memories
  <2>3. \A i \in DOMAIN todo : todo[i] \in Steps
    BY <1>2
  <2>4. {node.enr, node.globals, node.held} \subseteq Enrs \cup {None}
    BY <2>2
  <2> QED BY <1>1, <1>2, <2>1, <2>2, <2>3, <2>4 DEF TypesOK, RecordTypeOK
<1>4. CopiesCurrent
  <2> SUFFICES ASSUME Idle, node.events = 0
      PROVE  /\ "key" \notin missed => disk.key = node.key
             /\ "enr" \notin missed => disk.enr = node.enr
             /\ "globals" \notin missed => node.globals = node.enr
             /\ "metadata" \notin missed => disk.metadata = node.metadata
    BY DEF CopiesCurrent
  <2>1. CopiesOK("idle")
    BY AtIdle DEF At
  <2> QED BY <2>1 DEF CopiesOK, Outrun, BeforeEnr, BeforeMeta, SavesEnr, WillSaveEnr, EventLabels,
                      WillSetGlobals, WillSaveMeta
<1>5. SaysTheSame
  <2> SUFFICES ASSUME Idle
      PROVE  /\ node.metadata.subnets = node.enr.subnets
             /\ node.enr.tcp = node.config.tcp
             /\ node.enr.eth2 = node.config.eth2 /\ node.fork = node.config.eth2
    BY DEF SaysTheSame
  <2>1. ContentOK("idle")
    BY AtIdle DEF At
  <2> QED BY <2>1 DEF ContentOK, BeforeEnr, BeforeMeta, ServeLabels, WillSetMeta, WillSetFork
<1> QED BY <1>3, <1>4, <1>5 DEF RecordsConsistent

\* The invariant keeps the sequence numbers apart.
LEMMA InvSequence == RecordInv => SequenceKept
<1> SUFFICES ASSUME RecordInv PROVE SequenceKept
  OBVIOUS
<1>1. TypesOK /\ OneRecord
  BY DEF RecordInv
<1>2. ASSUME mode = "Serving"
      PROVE  EnrAhead /\ MetaAhead /\ node.enr \in Enrs /\ node.metadata \in Metadata
  <2>1. PICK l \in Labels : At(l)
    BY <1>2 DEF RecordInv
  <2>2. l \notin BeforeEnr /\ l \notin BeforeMeta
    BY <1>2, <2>1 DEF At, BeforeEnr, BeforeMeta, StartLabels
  <2> QED BY <2>1, <2>2 DEF At, HistoryOK, ContentOK
<1>3. ASSUME mode = "Serving", NEW e \in published_enrs, e.key = node.key
      PROVE  e.seq <= node.enr.seq
  <2>1. e.seq \in Int /\ node.enr.seq \in Int
    BY <1>1, <1>2, <1>3 DEF TypesOK, Enrs, Seqs
  <2> QED BY <1>2, <1>3, <2>1 DEF EnrAhead
<1>4. ASSUME mode = "Serving", NEW m \in published_metadata, m.key = node.key
      PROVE  m.metadata.seq <= node.metadata.seq
  <2>1. m.metadata.seq \in Int /\ node.metadata.seq \in Int
    BY <1>1, <1>2, <1>4 DEF TypesOK, Metadata, MetadataSeqs
  <2> QED BY <1>2, <1>4, <2>1 DEF MetaAhead
<1>5. ASSUME Idle, node.events = 0, missed = {} PROVE Recorded
  <2>1. mode = "Serving" /\ ContentOK("idle")
    BY <1>5, AtIdle DEF Idle, At
  <2>2. /\ EnrAhead /\ MetaAhead /\ node.enr \in Enrs /\ node.metadata \in Metadata
        /\ node.enr.key = node.key
    BY <1>2, <2>1 DEF ContentOK, BeforeEnr
  <2>3. disk.key = node.key /\ disk.enr = node.enr /\ disk.metadata = node.metadata
    BY <1>5, InvConsistent DEF RecordsConsistent, CopiesCurrent
  <2> QED BY <2>2, <2>3 DEF Recorded, EnrAhead, MetaAhead
<1> QED BY <1>1, <1>3, <1>4, <1>5 DEF SequenceKept, OneRecord

\* The records of the node agree, in memory and on disk, in every reachable state:
\* for any number of keys, configurations, forks, addresses and subnets, and however
\* often an operation on a file fails.
THEOREM RecordsStayConsistent == RecordSpec => []RecordsConsistent
<1>1. RecordSpec => []RecordInv
  BY RecordInitInv, RecordStepInv, PTL DEF RecordSpec
<1> QED BY <1>1, InvConsistent, PTL

\* No sequence number of a key ever stands for two ENRs or two metadata, across
\* restarts, unless a crash or a failed read has lost what others may have seen.
THEOREM SequenceStaysKept == RecordSpec => []SequenceKept
<1>1. RecordSpec => []RecordInv
  BY RecordInitInv, RecordStepInv, PTL DEF RecordSpec
<1> QED BY <1>1, InvSequence, PTL
=============================================================================
