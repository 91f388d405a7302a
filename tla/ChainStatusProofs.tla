------------------------- MODULE ChainStatusProofs -------------------------
(***************************************************************************)
(* Proofs about ChainStatus and the part of it that is Gossip, for any     *)
(* peers, topics, messages, timeouts, epochs and bounds: the cache's map   *)
(* and delay queue agree, a message is kept for its timeout, the record of *)
(* a peer's subnets follows its subscriptions, and the status is one of a  *)
(* chain and, once blocks have updated it, never moves back.               *)
(***************************************************************************)
EXTENDS ChainStatus, FunctionTheorems, FiniteSetTheorems, SequenceTheorems, TLAPS

\* Only messages for topics of our fork are published, and cached.
OurTopics == \A k \in DOMAIN expirations : expirations[k].topic.fork_digest = OurFork

\* What is left of a message's time and its age make up its timeout.
AgeInv ==
    \A k \in DOMAIN expirations :
        LET e == expirations[k]
        IN  age[<<e.topic, e.data>>] + e.left >= Timeout[e.topic.kind]

\* The inductive invariant of the cache.
CacheInv == CacheConsistent /\ OurTopics /\ AgeInv

\* The blocks that wait are first blocks of epochs, each of a later epoch than the one
\* before, none of an epoch before the finalized one or after the last one seen.
Waits(seq, finalized, last) ==
    /\ \A i \in DOMAIN seq :
         /\ seq[i].slot % SlotsPerEpoch = 0
         /\ finalized <= EpochOf(seq[i].slot)
         /\ EpochOf(seq[i].slot) <= last
    /\ \A i, j \in DOMAIN seq : i < j => EpochOf(seq[i].slot) < EpochOf(seq[j].slot)

\* The epoch finalized by a block that arrived; none was before epoch 0.
FinalizedByBlocks == IF epoch_up_to_date THEN highest_status.finalized_epoch ELSE 0

EpochsWait ==
    /\ Waits(epoch_blocks, FinalizedByBlocks, last_epoch)
    /\ FinalizedByBlocks <= last_epoch

\* Once a block was finalized two wait, and the head is at the later one or beyond.
HeadBeyond ==
    epoch_up_to_date =>
        Len(epoch_blocks) = 2 /\ highest_status.head_slot >= epoch_blocks[2].slot

\* The inductive invariant of the status.
ChainInv == StatusConsistent /\ EpochsWait /\ HeadBeyond

NInv == CacheInv /\ ChainInv

-----------------------------------------------------------------------------
(* Slots and epochs.                                                       *)

\* Division with a rest.
LEMMA DivisionRest ==
    ASSUME NEW s \in Nat, NEW n \in Nat, n > 0
    PROVE  s \div n \in Nat /\ s % n \in 0 .. n - 1 /\ s = n * (s \div n) + (s % n)
<1>1. s \div n \in Nat /\ s % n \in 0 .. n - 1
  OBVIOUS
<1>2. s = n * (s \div n) + (s % n)
  OBVIOUS
<1> QED BY <1>1, <1>2

\* A slot is its epoch's first slot, and a rest.
LEMMA EpochRest ==
    ASSUME NEW slot \in Nat
    PROVE  /\ EpochOf(slot) \in Nat
           /\ slot % SlotsPerEpoch \in 0 .. SlotsPerEpoch - 1
           /\ slot = EpochOf(slot) * SlotsPerEpoch + (slot % SlotsPerEpoch)
<1>1. SlotsPerEpoch \in Nat /\ SlotsPerEpoch > 0
  BY ChainAssumption
<1>2. /\ slot \div SlotsPerEpoch \in Nat
      /\ slot % SlotsPerEpoch \in 0 .. SlotsPerEpoch - 1
      /\ slot = SlotsPerEpoch * (slot \div SlotsPerEpoch) + (slot % SlotsPerEpoch)
  BY <1>1, DivisionRest
<1>3. SlotsPerEpoch * (slot \div SlotsPerEpoch) = (slot \div SlotsPerEpoch) * SlotsPerEpoch
  BY <1>1, <1>2
<1> QED BY <1>2, <1>3 DEF EpochOf

\* A slot at or after the start of an epoch is in it or in a later one.
LEMMA EpochFrom ==
    ASSUME NEW slot \in Nat, NEW epoch \in Nat, slot >= epoch * SlotsPerEpoch
    PROVE  EpochOf(slot) >= epoch
<1>1. SlotsPerEpoch \in Nat /\ SlotsPerEpoch > 0
  BY ChainAssumption
<1>2. ASSUME NEW n \in Nat, n > 0, NEW e \in Nat, NEW m \in 0 .. n - 1, slot = e * n + m,
             slot >= epoch * n
      PROVE  e >= epoch
  <2>1. ASSUME e + 1 <= epoch PROVE FALSE
    <3>1. (e + 1) * n <= epoch * n
      BY <2>1
    <3>2. (e + 1) * n = e * n + n
      OBVIOUS
    <3> QED BY <1>2, <3>1, <3>2
  <2> QED BY <2>1
<1> QED BY <1>1, <1>2, EpochRest

\* A later slot has no earlier epoch.
LEMMA EpochMonotonic ==
    ASSUME NEW s \in Nat, NEW t \in Nat, s <= t
    PROVE  EpochOf(s) <= EpochOf(t)
<1>1. SlotsPerEpoch \in Nat
  BY ChainAssumption
<1>2. /\ EpochOf(s) \in Nat /\ EpochOf(t) \in Nat
      /\ s % SlotsPerEpoch \in 0 .. SlotsPerEpoch - 1
      /\ s = EpochOf(s) * SlotsPerEpoch + (s % SlotsPerEpoch)
  BY EpochRest
<1>3. ASSUME NEW n \in Nat, NEW e \in Nat, NEW m \in 0 .. n - 1, s = e * n + m
      PROVE  t >= e * n
  BY <1>3
<1>4. t >= EpochOf(s) * SlotsPerEpoch
  BY <1>1, <1>2, <1>3
<1>5. EpochOf(t) >= EpochOf(s)
  BY <1>2, <1>4, EpochFrom
<1> QED BY <1>2, <1>5

-----------------------------------------------------------------------------
(* The status.                                                             *)

\* The slot and the epoch of a block.
LEMMA BlockSlot == ASSUME NEW b \in Blocks PROVE b.slot \in Nat /\ EpochOf(b.slot) \in Nat
<1>1. b.slot \in 0 .. LastSlot /\ LastSlot \in Nat
  BY ChainAssumption DEF Blocks
<1>2. b.slot \in Nat
  BY <1>1
<1> QED BY <1>2, EpochRest

\* A block of a later epoch joins the blocks that wait.
LEMMA WaitsAppend ==
    ASSUME NEW seq \in Seq(Blocks), NEW block \in Blocks, NEW f \in Nat, NEW last \in Nat,
           Waits(seq, f, last),
           block.slot % SlotsPerEpoch = 0, EpochOf(block.slot) > last, f <= EpochOf(block.slot)
    PROVE  Waits(Append(seq, block), f, EpochOf(block.slot))
<1> DEFINE t == Append(seq, block)
<1>1. /\ Len(seq) \in Nat /\ DOMAIN seq = 1 .. Len(seq) /\ DOMAIN t = 1 .. Len(seq) + 1
      /\ \A i \in 1 .. Len(seq) : t[i] = seq[i] /\ seq[i] \in Blocks
      /\ t[Len(seq) + 1] = block
  BY AppendProperties, LenProperties, ElementOfSeq
<1>2. \A b \in Blocks : b.slot \in Nat /\ EpochOf(b.slot) \in Nat
  BY BlockSlot
<1> HIDE DEF t
<1>3. ASSUME NEW i \in DOMAIN t
      PROVE  /\ t[i].slot % SlotsPerEpoch = 0
             /\ f <= EpochOf(t[i].slot)
             /\ EpochOf(t[i].slot) <= EpochOf(block.slot)
  <2>1. CASE i = Len(seq) + 1
    BY <1>1, <1>2, <2>1
  <2>2. CASE i \in 1 .. Len(seq)
    BY <1>1, <1>2, <2>2 DEF Waits
  <2> QED BY <1>1, <1>3, <2>1, <2>2
<1>4. ASSUME NEW i \in DOMAIN t, NEW j \in DOMAIN t, i < j
      PROVE  EpochOf(t[i].slot) < EpochOf(t[j].slot)
  <2>0. i \in 1 .. Len(seq)
    BY <1>1, <1>4
  <2>1. CASE j = Len(seq) + 1
    BY <1>1, <1>2, <2>0, <2>1 DEF Waits
  <2>2. CASE j \in 1 .. Len(seq)
    BY <1>1, <1>4, <2>0, <2>2 DEF Waits
  <2> QED BY <1>1, <1>4, <2>1, <2>2
<1> QED BY <1>3, <1>4 DEF Waits, t

\* The oldest of them is finalized.
LEMMA WaitsTail ==
    ASSUME NEW seq \in Seq(Blocks), NEW f \in Nat, NEW last \in Nat, Waits(seq, f, last),
           seq # <<>>
    PROVE  Waits(Tail(seq), EpochOf(Head(seq).slot), last)
<1> DEFINE t == Tail(seq)
<1>1. /\ Len(seq) \in Nat \ {0} /\ DOMAIN seq = 1 .. Len(seq) /\ DOMAIN t = 1 .. Len(seq) - 1
      /\ \A i \in 1 .. Len(seq) - 1 : t[i] = seq[i + 1]
      /\ \A i \in 1 .. Len(seq) : seq[i] \in Blocks
      /\ Head(seq) = seq[1]
  BY HeadTailProperties, LenProperties, EmptySeq, ElementOfSeq
<1>2. \A b \in Blocks : b.slot \in Nat /\ EpochOf(b.slot) \in Nat
  BY BlockSlot
<1> HIDE DEF t
<1>3. ASSUME NEW i \in 1 .. Len(seq) - 1
      PROVE  /\ t[i].slot % SlotsPerEpoch = 0
             /\ EpochOf(Head(seq).slot) <= EpochOf(t[i].slot)
             /\ EpochOf(t[i].slot) <= last
  <2>1. i + 1 \in 1 .. Len(seq) /\ 1 \in 1 .. Len(seq) /\ 1 < i + 1
    BY <1>1
  <2>2. EpochOf(seq[1].slot) < EpochOf(seq[i + 1].slot)
    BY <1>1, <2>1 DEF Waits
  <2>3. t[i] = seq[i + 1] /\ seq[1] \in Blocks /\ seq[i + 1] \in Blocks /\ Head(seq) = seq[1]
    BY <1>1, <2>1
  <2>4. EpochOf(seq[1].slot) \in Nat /\ EpochOf(seq[i + 1].slot) \in Nat
    BY <1>2, <2>3
  <2>5. seq[i + 1].slot % SlotsPerEpoch = 0 /\ EpochOf(seq[i + 1].slot) <= last
    BY <1>1, <2>1 DEF Waits
  <2> QED BY <2>2, <2>3, <2>4, <2>5
<1>4. ASSUME NEW i \in 1 .. Len(seq) - 1, NEW j \in 1 .. Len(seq) - 1, i < j
      PROVE  EpochOf(t[i].slot) < EpochOf(t[j].slot)
  <2>1. i + 1 \in 1 .. Len(seq) /\ j + 1 \in 1 .. Len(seq) /\ i + 1 < j + 1
    BY <1>1, <1>4
  <2> QED BY <1>1, <2>1 DEF Waits
<1> QED BY <1>1, <1>3, <1>4 DEF Waits, t

\* The status that is built in.
LEMMA InitChain == ChainInit => ChainInv
<1> SUFFICES ASSUME ChainInit PROVE ChainInv
  OBVIOUS
<1> PICK branch \in Branches :
        highest_status =
            [finalized_root |-> [slot |-> FinalizedEpoch * SlotsPerEpoch, branch |-> branch],
             finalized_epoch |-> FinalizedEpoch,
             head_root |-> [slot |-> HeadSlot, branch |-> branch],
             head_slot |-> HeadSlot]
  BY DEF ChainInit
<1>1. FinalizedEpoch * SlotsPerEpoch \in 0 .. LastSlot /\ HeadSlot \in 0 .. LastSlot
  BY ChainAssumption
<1>2. highest_status \in Statuses
  BY <1>1, ChainAssumption DEF Statuses, Blocks
<1>3. ChainTypeOK
  <2>1. /\ epoch_blocks = <<>> /\ epoch_up_to_date = FALSE /\ last_epoch = 0
    BY DEF ChainInit
  <2>2. epoch_blocks \in Seq(Blocks) /\ Len(epoch_blocks) <= 2 /\ last_epoch \in Nat
    BY <2>1
  <2>3. epoch_up_to_date \in BOOLEAN
    BY <2>1
  <2> QED BY <1>2, <2>2, <2>3 DEF ChainTypeOK
<1>4. RootsMatch /\ FinalizedBehindHead /\ HeadBeyond
  BY DEF RootsMatch, FinalizedBehindHead, HeadBeyond, ChainInit
<1>5. EpochsWait
  BY DEF EpochsWait, FinalizedByBlocks, Waits, ChainInit
<1> QED BY <1>3, <1>4, <1>5 DEF ChainInv, StatusConsistent

\* What StatusNeverBack says of a step.
StatusForward ==
    /\ highest_status'.head_slot >= highest_status.head_slot
    /\ epoch_up_to_date =>
           highest_status'.finalized_epoch >= highest_status.finalized_epoch

\* The head after a block.
WithHead(status, up_to_date, block) ==
    IF up_to_date /\ block.slot > status.head_slot
    THEN [status EXCEPT !.head_root = block, !.head_slot = block.slot]
    ELSE status

\* It is the block if that is newer, and only once the epoch is known.
LEMMA WithHeadType ==
    ASSUME NEW status \in Statuses, NEW up_to_date \in BOOLEAN, NEW block \in Blocks
    PROVE  LET new == WithHead(status, up_to_date, block)
           IN  /\ new \in Statuses
               /\ new.finalized_epoch = status.finalized_epoch
               /\ new.finalized_root = status.finalized_root
               /\ new.head_slot >= status.head_slot
               /\ up_to_date => new.head_slot >= block.slot
               /\ status.head_root.slot = status.head_slot => new.head_root.slot = new.head_slot
<1>1. block.slot \in Nat /\ status.head_slot \in Nat
  BY ChainAssumption DEF Blocks, Statuses
<1>2. CASE up_to_date /\ block.slot > status.head_slot
  <2> DEFINE new == [status EXCEPT !.head_root = block, !.head_slot = block.slot]
  <2>1. new \in Statuses
    BY <1>1 DEF Statuses
  <2>2. /\ new.finalized_epoch = status.finalized_epoch
        /\ new.finalized_root = status.finalized_root
        /\ new.head_root = block /\ new.head_slot = block.slot
    BY DEF Statuses
  <2>3. WithHead(status, up_to_date, block) = new
    BY <1>2 DEF WithHead
  <2>4. new.head_slot >= status.head_slot /\ new.head_slot >= block.slot
    BY <1>1, <1>2, <2>2
  <2>5. new.head_root.slot = new.head_slot
    BY <2>2
  <2> HIDE DEF new
  <2> QED BY <2>1, <2>2, <2>3, <2>4, <2>5
<1>3. CASE ~(up_to_date /\ block.slot > status.head_slot)
  BY <1>1, <1>3 DEF WithHead
<1> QED BY <1>2, <1>3

\* A block arrives.
LEMMA ReceiveBlockChain ==
    ASSUME ChainInv, NEW block \in Blocks, ReceiveBlock(block)
    PROVE  ChainInv' /\ StatusForward
<1> DEFINE s == highest_status
           n == Len(epoch_blocks)
           e == EpochOf(block.slot)
           waiting == Append(epoch_blocks, block)
<1>1. /\ s \in Statuses /\ epoch_blocks \in Seq(Blocks) /\ n \in Nat /\ n <= 2
      /\ epoch_up_to_date \in BOOLEAN /\ last_epoch \in Nat
  <2>1. ChainTypeOK
    BY DEF ChainInv, StatusConsistent
  <2>2. n \in Nat /\ n <= 2
    BY <2>1, LenProperties DEF ChainTypeOK
  <2> QED BY <2>1, <2>2 DEF ChainTypeOK
<1>2. block \in Blocks /\ block.slot \in Nat /\ e \in Nat
  BY BlockSlot
<1>3. s.head_slot \in Nat /\ s.finalized_epoch \in Nat /\ FinalizedByBlocks \in Nat
  BY <1>1 DEF Statuses, FinalizedByBlocks
<1>4. RootsMatch /\ FinalizedBehindHead /\ EpochsWait /\ HeadBeyond
  BY DEF ChainInv, StatusConsistent
<1>5. CASE ~StartsEpoch(block.slot)
  <2>1. /\ UNCHANGED <<last_epoch, epoch_blocks, epoch_up_to_date>>
        /\ highest_status' = WithHead(s, epoch_up_to_date, block)
    BY <1>1, <1>5 DEF ReceiveBlock, WithHead, Waiting, Finalizes
  <2>2. /\ highest_status' \in Statuses
        /\ highest_status'.finalized_epoch = s.finalized_epoch
        /\ highest_status'.finalized_root = s.finalized_root
        /\ highest_status'.head_slot >= s.head_slot
        /\ highest_status'.head_root.slot = highest_status'.head_slot
    BY <1>1, <1>2, <1>4, <2>1, WithHeadType DEF RootsMatch
  <2>3. highest_status'.head_slot \in Nat
    BY <2>2 DEF Statuses
  <2>4. ChainTypeOK' /\ RootsMatch'
    <3>1. RootsMatch'
      BY <1>4, <2>2 DEF RootsMatch
    <3>2. epoch_up_to_date' \in BOOLEAN
      BY <1>1, <2>1
    <3>3. epoch_blocks' = epoch_blocks
      BY <2>1
    <3> QED BY <1>1, <2>1, <2>2, <3>1, <3>2, <3>3 DEF ChainTypeOK
  <2>5. FinalizedBehindHead'
    <3>1. EpochOf(s.head_slot) <= EpochOf(highest_status'.head_slot)
      BY <1>3, <2>2, <2>3, EpochMonotonic
    <3>2. EpochOf(s.head_slot) \in Nat /\ EpochOf(highest_status'.head_slot) \in Nat
      BY <1>3, <2>3, EpochRest
    <3>3. ASSUME epoch_up_to_date
          PROVE  EpochOf(highest_status'.head_slot) >= highest_status'.finalized_epoch + 2
      <4>1. EpochOf(s.head_slot) >= s.finalized_epoch + 2
        BY <1>4, <3>3 DEF FinalizedBehindHead
      <4> QED BY <1>3, <2>2, <3>1, <3>2, <4>1
    <3> QED BY <2>1, <3>3 DEF FinalizedBehindHead
  <2>6. EpochsWait'
    <3>1. FinalizedByBlocks' = FinalizedByBlocks
      BY <2>1, <2>2 DEF FinalizedByBlocks
    <3> QED BY <1>4, <2>1, <3>1 DEF EpochsWait
  <2>7. HeadBeyond'
    <3>1. ASSUME epoch_up_to_date
          PROVE  n = 2 /\ highest_status'.head_slot >= epoch_blocks[2].slot
      <4>1. n = 2 /\ s.head_slot >= epoch_blocks[2].slot
        BY <1>4, <3>1 DEF HeadBeyond
      <4>0. 2 \in 1 .. n
        BY <4>1
      <4>2. epoch_blocks[2] \in Blocks
        BY <1>1, <4>0, ElementOfSeq
      <4>3. epoch_blocks[2].slot \in Nat
        BY <4>2, BlockSlot
      <4> QED BY <1>3, <2>2, <2>3, <4>1, <4>3
    <3> QED BY <2>1, <3>1 DEF HeadBeyond
  <2>8. StatusForward
    BY <1>3, <2>2 DEF StatusForward
  <2> QED BY <2>4, <2>5, <2>6, <2>7, <2>8 DEF ChainInv, StatusConsistent
<1>6. CASE StartsEpoch(block.slot)
  <2>1. /\ block.slot % SlotsPerEpoch = 0 /\ e > last_epoch
        /\ last_epoch' = e
    BY <1>6 DEF StartsEpoch, ReceiveBlock
  <2>2. FinalizedByBlocks <= e
    BY <1>1, <1>2, <1>3, <1>4, <2>1 DEF EpochsWait
  <2>3. Waits(waiting, FinalizedByBlocks, e)
    BY <1>1, <1>2, <1>3, <1>4, <2>1, <2>2, WaitsAppend DEF EpochsWait
  <2>4. /\ waiting \in Seq(Blocks) /\ Len(waiting) = n + 1
        /\ waiting[n + 1] = block /\ \A i \in 1 .. n : waiting[i] = epoch_blocks[i]
    BY <1>1, <1>2, AppendProperties, LenProperties
  <2>5. CASE n < 2
    <3>1. ~epoch_up_to_date
      BY <1>4, <2>5 DEF HeadBeyond
    <3>2. /\ epoch_blocks' = waiting /\ UNCHANGED <<highest_status, epoch_up_to_date>>
      BY <1>1, <1>6, <2>4, <2>5, <3>1 DEF ReceiveBlock, Waiting, Finalizes
    <3>3. ChainTypeOK' /\ RootsMatch' /\ FinalizedBehindHead' /\ HeadBeyond'
      BY <1>1, <1>2, <1>4, <2>1, <2>4, <2>5, <3>1, <3>2
         DEF ChainTypeOK, RootsMatch, FinalizedBehindHead, HeadBeyond
    <3>4. EpochsWait'
      <4>1. FinalizedByBlocks' = FinalizedByBlocks
        BY <3>2 DEF FinalizedByBlocks
      <4> QED BY <2>1, <2>2, <2>3, <3>2, <4>1 DEF EpochsWait
    <3>5. StatusForward
      BY <1>3, <3>2 DEF StatusForward
    <3> QED BY <3>3, <3>4, <3>5 DEF ChainInv, StatusConsistent
  <2>6. CASE n = 2
    <3> DEFINE first == Head(waiting)
               status == Finalized(waiting)
    <3>1. Finalizes(waiting) /\ waiting # <<>>
      BY <2>4, <2>6 DEF Finalizes
    <3>2. /\ epoch_blocks' = Tail(waiting) /\ epoch_up_to_date' = TRUE
          /\ highest_status' = WithHead(status, TRUE, block)
      BY <1>6, <3>1 DEF ReceiveBlock, Waiting, WithHead
    <3>3. first \in Blocks /\ first = waiting[1]
      BY <2>4, <3>1, HeadTailProperties
    <3>4. first.slot \in Nat /\ EpochOf(first.slot) \in Nat
          /\ first.slot = EpochOf(first.slot) * SlotsPerEpoch + (first.slot % SlotsPerEpoch)
      BY <3>3, BlockSlot, EpochRest
    <3>5. /\ first.slot % SlotsPerEpoch = 0
          /\ FinalizedByBlocks <= EpochOf(first.slot)
          /\ EpochOf(first.slot) < EpochOf(waiting[2].slot)
          /\ EpochOf(waiting[2].slot) < e
      <4>1. DOMAIN waiting = 1 .. 3 /\ waiting[3] = block
        BY <2>4, <2>6, LenProperties
      <4>2. 1 \in DOMAIN waiting /\ 2 \in DOMAIN waiting /\ 3 \in DOMAIN waiting
        BY <4>1
      <4> HIDE DEF waiting, first
      <4> QED BY <2>3, <3>3, <4>1, <4>2 DEF Waits
    <3>6. /\ status \in Statuses /\ status.finalized_root = first
          /\ status.finalized_epoch = EpochOf(first.slot)
          /\ status.head_slot = s.head_slot /\ status.head_root = s.head_root
      BY <1>1, <3>3, <3>4 DEF Finalized, Statuses
    <3> HIDE DEF status, first
    <3>7. /\ highest_status' \in Statuses
          /\ highest_status'.finalized_epoch = EpochOf(first.slot)
          /\ highest_status'.finalized_root = first
          /\ highest_status'.head_slot >= s.head_slot
          /\ highest_status'.head_slot >= block.slot
          /\ highest_status'.head_root.slot = highest_status'.head_slot
      <4>1. status.head_root.slot = status.head_slot
        BY <1>4, <3>6 DEF RootsMatch
      <4> PICK up_to_date \in BOOLEAN : up_to_date = TRUE
        OBVIOUS
      <4>2. PICK new : new = WithHead(status, up_to_date, block)
        OBVIOUS
      <4>3. /\ new \in Statuses
            /\ new.finalized_epoch = status.finalized_epoch
            /\ new.finalized_root = status.finalized_root
            /\ new.head_slot >= status.head_slot
            /\ up_to_date => new.head_slot >= block.slot
            /\ status.head_root.slot = status.head_slot => new.head_root.slot = new.head_slot
        BY <1>2, <3>6, <4>2, WithHeadType
      <4> QED BY <3>2, <3>6, <4>1, <4>2, <4>3
    <3>8. highest_status'.head_slot \in Nat
      BY <3>7 DEF Statuses
    <3>9. /\ epoch_blocks' \in Seq(Blocks) /\ Len(epoch_blocks') = 2 /\ epoch_blocks'[2] = block
          /\ waiting[2] \in Blocks
      BY <2>4, <2>6, <3>1, <3>2, HeadTailProperties, ElementOfSeq
    <3>10. ChainTypeOK'
      <4>1. epoch_up_to_date' \in BOOLEAN /\ last_epoch' \in Nat /\ Len(epoch_blocks') <= 2
        BY <1>2, <2>1, <3>2, <3>9
      <4> QED BY <3>7, <3>9, <4>1 DEF ChainTypeOK
    <3>11. RootsMatch'
      <4>1. EpochOf(first.slot) * SlotsPerEpoch \in Nat
        BY <3>4, ChainAssumption
      <4>2. first.slot = EpochOf(first.slot) * SlotsPerEpoch
        BY <3>4, <3>5, <4>1
      <4> QED BY <3>7, <4>2 DEF RootsMatch
    <3>12. FinalizedBehindHead'
      <4>1. EpochOf(highest_status'.head_slot) >= e
            /\ EpochOf(highest_status'.head_slot) \in Nat
        BY <1>2, <3>7, <3>8, EpochMonotonic, EpochRest
      <4>2. EpochOf(waiting[2].slot) \in Nat
        BY <3>9, BlockSlot
      <4>3. ASSUME NEW a \in Nat, NEW b \in Nat, NEW c \in Nat, NEW d \in Nat,
                   a < b, b < c, d >= c
            PROVE  d >= a + 2
        BY <4>3
      <4>4. EpochOf(highest_status'.head_slot) >= EpochOf(first.slot) + 2
        <5> HIDE DEF waiting, e
        <5> QED BY <1>2, <3>4, <3>5, <4>1, <4>2, <4>3
      <4> QED BY <3>7, <4>4 DEF FinalizedBehindHead
    <3>13. HeadBeyond'
      BY <3>7, <3>9 DEF HeadBeyond
    <3>14. EpochsWait'
      <4>1. Waits(Tail(waiting), EpochOf(first.slot), e)
        BY <1>2, <1>3, <2>3, <2>4, <3>1, WaitsTail DEF first
      <4>2. EpochOf(waiting[2].slot) \in Nat
        BY <3>9, BlockSlot
      <4>3. EpochOf(first.slot) <= e
        <5> HIDE DEF waiting, e
        <5> QED BY <1>2, <3>4, <3>5, <4>2
      <4>4. FinalizedByBlocks' = EpochOf(first.slot)
        BY <3>2, <3>7 DEF FinalizedByBlocks
      <4> QED BY <2>1, <3>2, <4>1, <4>3, <4>4 DEF EpochsWait
    <3>15. StatusForward
      BY <1>3, <3>4, <3>5, <3>7 DEF StatusForward, FinalizedByBlocks
    <3> QED BY <3>10, <3>11, <3>12, <3>13, <3>14, <3>15 DEF ChainInv, StatusConsistent
  <2>7. n < 2 \/ n = 2
    <3> HIDE DEF n
    <3> QED BY <1>1
  <2> QED BY <2>5, <2>6, <2>7
<1> QED BY <1>5, <1>6

\* Nothing else touches the status.
LEMMA StepChain ==
    ASSUME ChainInv, [NetworkNext]_networkVars
    PROVE  ChainInv' /\ StatusForward
<1>1. CASE UNCHANGED chainVars
  <2>1. ChainInv'
    BY <1>1 DEF chainVars, ChainInv, StatusConsistent, ChainTypeOK, RootsMatch,
                FinalizedBehindHead, EpochsWait, FinalizedByBlocks, HeadBeyond
  <2>2. StatusForward
    BY <1>1 DEF chainVars, StatusForward, ChainInv, StatusConsistent, ChainTypeOK, Statuses
  <2> QED BY <2>1, <2>2
<1>2. ASSUME NEW block \in Blocks, ReceiveBlock(block) PROVE ChainInv' /\ StatusForward
  BY <1>2, ReceiveBlockChain
<1> QED BY <1>1, <1>2 DEF NetworkNext, networkVars

\* The inductive invariant of the status.
LEMMA ChainInvHolds == NetworkSpec => []ChainInv
<1>1. NetworkInit => ChainInv
  BY InitChain DEF NetworkInit
<1> QED BY <1>1, StepChain, PTL DEF NetworkSpec

\* Whatever blocks arrive, in whatever order and with whatever gaps, the status that
\* peers are given has the roots of its head and of its finalized epoch's first slot, and
\* once blocks updated it the finalized epoch is two epochs or more behind the head.
THEOREM StatusAlwaysConsistent == NetworkSpec => []StatusConsistent
<1>1. ChainInv => StatusConsistent
  BY DEF ChainInv
<1> QED BY <1>1, ChainInvHolds, PTL

\* Whatever the age of the blocks that arrive and whatever status is built in, the head
\* that peers are given never moves back, nor does the finalized epoch once a block was
\* finalized.
THEOREM StatusNeverMovesBack == NetworkSpec => StatusNeverBack
<1>1. ChainInv /\ [NetworkNext]_networkVars => [StatusForward]_networkVars
  BY StepChain
<1>2. NetworkSpec => [][StatusForward]_networkVars
  BY <1>1, ChainInvHolds, PTL DEF NetworkSpec
<1> QED BY <1>2 DEF StatusNeverBack, StatusForward

-----------------------------------------------------------------------------
(* The cache.                                                              *)

\* The part of the types that is the cache's.
CacheTypes ==
    /\ DOMAIN expirations \subseteq Keys
    /\ \A k \in DOMAIN expirations :
           expirations[k] \in [topic : Topics, data : Datas, left : Nat]
    /\ DOMAIN topic_msgs \subseteq Topics
    /\ \A t \in DOMAIN topic_msgs :
           /\ topic_msgs[t] \in [DOMAIN topic_msgs[t] -> Keys]
           /\ DOMAIN topic_msgs[t] \subseteq Datas
           /\ DOMAIN topic_msgs[t] # {}
    /\ age \in [Topics \X Datas -> Nat]

\* The part of the types that is about peers.
PeerTypes ==
    /\ connected \subseteq Peers /\ registered \subseteq connected
    /\ subscribed \in [Peers -> SUBSET Topics]
    /\ events \in Seq(GossipEvents) /\ Len(events) <= MaxEvents
    /\ subnets \in [Peers -> SUBSET SubnetKinds]
    /\ dropped \in [Peers -> SUBSET Kinds]

\* The invariant of the cache without what is about peers.
CacheParts == CacheTypes /\ KeysAgree /\ OurTopics /\ AgeInv

\* What a message leaves the cache for.
LeavesFor(t, data) ==
    \/ /\ events # <<>> /\ events' = Tail(events)
       /\ Head(events).type = "Subscribed" /\ Head(events).topic = t
    \/ age[<<t, data>>] >= Timeout[t.kind]

\* What KeptForItsTimeout says of a step.
KeptStep ==
    \A t \in Topics : \A data \in Datas :
        Cached(t, data) /\ ~Cached(t, data)' => LeavesFor(t, data)

\* Membership in the functions from a part of a set.
LEMMA PartialMember ==
    ASSUME NEW S, NEW T, NEW f
    PROVE  f \in Partial(S, T) <=> f \in [DOMAIN f -> T] /\ DOMAIN f \subseteq S
  BY DEF Partial

\* The types are those of the two parts.
LEMMA TypeParts == GossipTypeOK <=> CacheTypes /\ PeerTypes
  BY PartialMember DEF GossipTypeOK, CacheTypes, PeerTypes

\* The same after a step.
LEMMA TypePartsPrime == GossipTypeOK' <=> CacheTypes' /\ PeerTypes'
  BY PartialMember DEF GossipTypeOK, CacheTypes, PeerTypes

\* A function with one more value, or another one.
LEMMA UpdatedValue ==
    ASSUME NEW f, NEW x, NEW y
    PROVE  /\ DOMAIN Updated(f, x, y) = DOMAIN f \cup {x}
           /\ Updated(f, x, y)[x] = y
           /\ \A z \in DOMAIN f : z # x => Updated(f, x, y)[z] = f[z]
           /\ Updated(f, x, y) = [z \in DOMAIN Updated(f, x, y) |-> Updated(f, x, y)[z]]
  BY DEF Updated

\* A function with part of its values.
LEMMA RestrictValue ==
    ASSUME NEW f, NEW S
    PROVE  DOMAIN Restrict(f, S) = S /\ \A z \in S : Restrict(f, S)[z] = f[z]
  BY DEF Restrict

\* There is a key for a message that is not in the cache: fewer keys are in use than
\* there are messages of our fork.
LEMMA FreeKeyExists ==
    ASSUME CacheParts, NEW kind \in Kinds, NEW data \in Datas,
           ~Cached([kind |-> kind, fork_digest |-> OurFork], data)
    PROVE  FreeKey(expirations) \in Keys /\ FreeKey(expirations) \notin DOMAIN expirations
<1> DEFINE All == Kinds \X Datas
           Rest == All \ {<<kind, data>>}
           f == [k \in Keys |-> <<expirations[k].topic.kind, expirations[k].data>>]
<1>1. /\ IsFiniteSet(All) /\ Cardinality(All) = Cardinality(Kinds) * Cardinality(Datas)
      /\ <<kind, data>> \in All
  BY GossipAssumption, FS_Product
<1>2. IsFiniteSet(Rest) /\ Cardinality(Rest) = Cardinality(All) - 1
  BY <1>1, FS_RemoveElement
<1>3. Cardinality(All) \in Nat /\ Cardinality(Rest) \in Nat
  BY <1>1, <1>2, FS_CardinalityType
<1> HIDE DEF All, Rest
<1>4. IsFiniteSet(Keys) /\ Cardinality(Keys) = Cardinality(All)
  <2>1. Keys = 1 .. Cardinality(All)
    BY <1>1 DEF Keys
  <2> QED BY <1>2, <1>3, <2>1, FS_Interval
<1>5. Cardinality(Rest) < Cardinality(Keys)
  BY <1>2, <1>3, <1>4
<1>6. ASSUME Keys \subseteq DOMAIN expirations PROVE FALSE
  <2>1. ASSUME NEW k \in Keys
        PROVE  /\ expirations[k].topic \in Topics /\ expirations[k].data \in Datas
               /\ expirations[k].topic
                  = [kind |-> expirations[k].topic.kind, fork_digest |-> OurFork]
               /\ Cached(expirations[k].topic, expirations[k].data)
               /\ topic_msgs[expirations[k].topic][expirations[k].data] = k
    <3>1. k \in DOMAIN expirations
      BY <1>6
    <3>2. /\ expirations[k] \in [topic : Topics, data : Datas, left : Nat]
          /\ expirations[k].topic.fork_digest = OurFork
      BY <3>1 DEF CacheParts, CacheTypes, OurTopics
    <3>3. expirations[k].topic \in Topics /\ expirations[k].data \in Datas
      BY <3>2
    <3>4. expirations[k].topic = [kind |-> expirations[k].topic.kind, fork_digest |-> OurFork]
      BY <3>2, <3>3 DEF Topics
    <3> QED BY <3>1, <3>3, <3>4 DEF CacheParts, KeysAgree
  <2>2. ASSUME NEW k \in Keys PROVE f[k] \in Rest
    <3>1. expirations[k].topic.kind \in Kinds /\ expirations[k].data \in Datas
      BY <2>1 DEF Topics
    <3>2. ASSUME f[k] = <<kind, data>> PROVE FALSE
      <4>1. expirations[k].topic.kind = kind /\ expirations[k].data = data
        BY <3>2
      <4> QED BY <2>1, <4>1
    <3> QED BY <3>1, <3>2 DEF Rest, All
  <2>3. f \in [Keys -> Rest]
    BY <2>2
  <2>4. \E x, y \in Keys : x # y /\ f[x] = f[y]
    <3> HIDE DEF f
    <3> QED BY <1>2, <1>4, <1>5, <2>3, FS_PigeonHole
  <2>5. PICK x \in Keys, y \in Keys : x # y /\ f[x] = f[y]
    BY <2>4
  <2>6. /\ expirations[x].topic.kind = expirations[y].topic.kind
        /\ expirations[x].data = expirations[y].data
    BY <2>5
  <2>7. expirations[x].topic = expirations[y].topic
    <3>1. expirations[x].topic
          = [kind |-> expirations[x].topic.kind, fork_digest |-> OurFork]
      BY <2>1
    <3>2. expirations[y].topic
          = [kind |-> expirations[y].topic.kind, fork_digest |-> OurFork]
      BY <2>1
    <3> QED BY <2>6, <3>1, <3>2, Zenon
  <2> QED BY <2>1, <2>5, <2>6, <2>7
<1>7. \E k \in Keys : k \notin DOMAIN expirations
  BY <1>6
<1> QED BY <1>7 DEF FreeKey

\* GossipCache::insert keeps the invariant, and loses no message.
LEMMA InsertKeeps ==
    ASSUME CacheParts, NEW kind \in Kinds, NEW data \in Datas,
           insert([kind |-> kind, fork_digest |-> OurFork], data)
    PROVE  CacheParts' /\ KeptStep
<1> DEFINE tt == [kind |-> kind, fork_digest |-> OurFork]
<1>0. PICK t \in Topics : t = tt
  BY GossipAssumption DEF Topics
<1>1. t.kind = kind /\ t.fork_digest = OurFork /\ insert(t, data) /\ Timeout[t.kind] \in Nat
  BY <1>0, GossipAssumption
<1> HIDE DEF tt
<1>2. age' = [age EXCEPT ![<<t, data>>] = 0] /\ age \in [Topics \X Datas -> Nat]
  BY <1>1 DEF insert, CacheParts, CacheTypes
<1>3. /\ age' \in [Topics \X Datas -> Nat] /\ age'[<<t, data>>] = 0
      /\ \A u \in Topics : \A d \in Datas : <<u, d>> # <<t, data>> => age'[<<u, d>>] = age[<<u, d>>]
  BY <1>2
<1>4. CASE Timeout[t.kind] = 0
  <2>1. UNCHANGED <<expirations, topic_msgs>>
    BY <1>1, <1>4 DEF insert
  <2>2. CacheTypes' /\ KeysAgree' /\ OurTopics'
    BY <1>3, <2>1 DEF CacheParts, CacheTypes, KeysAgree, Cached, OurTopics
  <2>3. AgeInv'
    <3>1. ASSUME NEW k \in DOMAIN expirations
          PROVE  LET e == expirations[k]
                 IN  age'[<<e.topic, e.data>>] + e.left >= Timeout[e.topic.kind]
      <4> PICK e : e = expirations[k]
        OBVIOUS
      <4>1. /\ e.topic \in Topics /\ e.data \in Datas /\ e.left \in Nat
            /\ age[<<e.topic, e.data>>] + e.left >= Timeout[e.topic.kind]
        BY DEF CacheParts, CacheTypes, AgeInv
      <4>2. CASE e.topic = t /\ e.data = data
        <5>1. age'[<<e.topic, e.data>>] = 0 /\ Timeout[e.topic.kind] = 0
          BY <1>3, <1>4, <4>2
        <5> QED BY <4>1, <5>1
      <4>3. CASE ~(e.topic = t /\ e.data = data)
        BY <1>3, <4>1, <4>3
      <4> QED BY <4>2, <4>3
    <3> QED BY <2>1, <3>1 DEF AgeInv
  <2>4. KeptStep
    BY <2>1 DEF KeptStep, Cached
  <2> QED BY <2>2, <2>3, <2>4 DEF CacheParts
<1>5. CASE Timeout[t.kind] # 0
  <2> DEFINE msgs == Msgs(t)
             key == IF data \in DOMAIN msgs THEN msgs[data] ELSE FreeKey(expirations)
             entry == [topic |-> t, data |-> data, left |-> Timeout[t.kind]]
             more == Updated(msgs, data, key)
  <2>1. /\ expirations' = Updated(expirations, key, entry)
        /\ topic_msgs' = Updated(topic_msgs, t, more)
    BY <1>1, <1>5 DEF insert
  <2>2. /\ DOMAIN msgs \subseteq Datas
        /\ \A d \in DOMAIN msgs : Cached(t, d) /\ msgs[d] = topic_msgs[t][d]
        /\ \A d \in Datas : Cached(t, d) => d \in DOMAIN msgs
    BY DEF Msgs, Empty, Cached, CacheParts, CacheTypes
  <2>3. \A d \in DOMAIN msgs :
            /\ msgs[d] \in Keys /\ msgs[d] \in DOMAIN expirations
            /\ expirations[msgs[d]].topic = t /\ expirations[msgs[d]].data = d
    BY <2>2 DEF CacheParts, CacheTypes, KeysAgree, Cached
  <2>4. key \in Keys
    BY <1>0, <1>1, <2>2, <2>3, FreeKeyExists DEF tt
  <2>5. data \notin DOMAIN msgs => key \notin DOMAIN expirations
    BY <1>0, <1>1, <2>2, FreeKeyExists DEF tt
  <2>6. data \in DOMAIN msgs => key = msgs[data]
    OBVIOUS
  <2>7. /\ entry \in [topic : Topics, data : Datas, left : Nat]
        /\ entry.topic = t /\ entry.data = data /\ entry.left = Timeout[t.kind]
    BY <1>1
  <2> HIDE DEF msgs, key, entry
  <2>8. /\ DOMAIN more = DOMAIN msgs \cup {data} /\ more[data] = key
        /\ \A d \in DOMAIN msgs : d # data => more[d] = msgs[d]
        /\ more = [d \in DOMAIN more |-> more[d]]
    BY DEF Updated
  <2> HIDE DEF more
  <2>9. more \in [DOMAIN more -> Keys] /\ DOMAIN more \subseteq Datas /\ DOMAIN more # {}
    BY <2>2, <2>3, <2>4, <2>8
  <2>10. /\ DOMAIN expirations' = DOMAIN expirations \cup {key} /\ expirations'[key] = entry
         /\ \A k \in DOMAIN expirations : k # key => expirations'[k] = expirations[k]
    BY <2>1 DEF Updated
  <2>11. /\ DOMAIN topic_msgs' = DOMAIN topic_msgs \cup {t} /\ topic_msgs'[t] = more
         /\ \A u \in DOMAIN topic_msgs : u # t => topic_msgs'[u] = topic_msgs[u]
    BY <2>1 DEF Updated
  <2>12. CacheTypes'
    <3>1. DOMAIN expirations' \subseteq Keys
      BY <2>4, <2>10 DEF CacheParts, CacheTypes
    <3>2. ASSUME NEW k \in DOMAIN expirations'
          PROVE  expirations'[k] \in [topic : Topics, data : Datas, left : Nat]
      BY <2>7, <2>10 DEF CacheParts, CacheTypes
    <3>3. DOMAIN topic_msgs' \subseteq Topics
      BY <2>11 DEF CacheParts, CacheTypes
    <3>4. ASSUME NEW u \in DOMAIN topic_msgs'
          PROVE  /\ topic_msgs'[u] \in [DOMAIN topic_msgs'[u] -> Keys]
                 /\ DOMAIN topic_msgs'[u] \subseteq Datas
                 /\ DOMAIN topic_msgs'[u] # {}
      <4>1. CASE u = t
        BY <2>9, <2>11, <4>1
      <4>2. CASE u # t
        BY <2>11, <4>2 DEF CacheParts, CacheTypes
      <4> QED BY <4>1, <4>2
    <3> QED BY <1>3, <3>1, <3>2, <3>3, <3>4 DEF CacheTypes
  <2>13. KeysAgree'
    <3>1. ASSUME NEW u \in DOMAIN topic_msgs', NEW d \in DOMAIN topic_msgs'[u]
          PROVE  /\ topic_msgs'[u][d] \in DOMAIN expirations'
                 /\ expirations'[topic_msgs'[u][d]].topic = u
                 /\ expirations'[topic_msgs'[u][d]].data = d
      <4>1. CASE u = t /\ d = data
        BY <2>7, <2>8, <2>10, <2>11, <4>1
      <4>2. CASE u = t /\ d # data
        <5>1. d \in DOMAIN msgs /\ topic_msgs'[u][d] = msgs[d]
          BY <2>8, <2>11, <4>2
        <5>2. msgs[d] # key
          BY <2>3, <2>5, <2>6, <4>2, <5>1
        <5> QED BY <2>3, <2>10, <4>2, <5>1, <5>2
      <4>3. CASE u # t
        <5>1. u \in DOMAIN topic_msgs /\ topic_msgs'[u] = topic_msgs[u]
          BY <2>11, <4>3
        <5>2. /\ topic_msgs[u][d] \in DOMAIN expirations
              /\ expirations[topic_msgs[u][d]].topic = u
              /\ expirations[topic_msgs[u][d]].data = d
          BY <5>1 DEF CacheParts, KeysAgree
        <5>3. topic_msgs[u][d] # key
          BY <2>3, <2>5, <2>6, <4>3, <5>2
        <5> QED BY <2>10, <5>1, <5>2, <5>3
      <4> QED BY <4>1, <4>2, <4>3
    <3>2. ASSUME NEW k \in DOMAIN expirations'
          PROVE  /\ expirations'[k].topic \in DOMAIN topic_msgs'
                 /\ expirations'[k].data \in DOMAIN topic_msgs'[expirations'[k].topic]
                 /\ topic_msgs'[expirations'[k].topic][expirations'[k].data] = k
      <4>1. CASE k = key
        BY <2>7, <2>8, <2>10, <2>11, <4>1
      <4>2. CASE k # key
        <5>1. k \in DOMAIN expirations /\ expirations'[k] = expirations[k]
          BY <2>10, <4>2
        <5> PICK u, d : u = expirations[k].topic /\ d = expirations[k].data
          OBVIOUS
        <5>2. Cached(u, d) /\ topic_msgs[u][d] = k /\ d \in Datas
          BY <5>1 DEF CacheParts, KeysAgree, CacheTypes
        <5>3. CASE u = t
          <6>1. d \in DOMAIN msgs /\ msgs[d] = k
            BY <2>2, <5>2, <5>3
          <6>2. d # data
            BY <2>6, <4>2, <6>1
          <6> QED BY <2>8, <2>11, <5>1, <5>3, <6>1, <6>2
        <5>4. CASE u # t
          BY <2>11, <5>1, <5>2, <5>4 DEF Cached
        <5> QED BY <5>3, <5>4
      <4> QED BY <4>1, <4>2
    <3> QED BY <3>1, <3>2 DEF KeysAgree, Cached
  <2>14. OurTopics'
    BY <1>1, <2>7, <2>10 DEF CacheParts, OurTopics
  <2>15. AgeInv'
    <3>1. ASSUME NEW k \in DOMAIN expirations'
          PROVE  LET e == expirations'[k]
                 IN  age'[<<e.topic, e.data>>] + e.left >= Timeout[e.topic.kind]
      <4>1. CASE k = key
        BY <1>1, <1>3, <2>7, <2>10, <4>1
      <4>2. CASE k # key
        <5>1. k \in DOMAIN expirations /\ expirations'[k] = expirations[k]
          BY <2>10, <4>2
        <5> PICK e : e = expirations[k]
          OBVIOUS
        <5>2. /\ e.topic \in Topics /\ e.data \in Datas
              /\ age[<<e.topic, e.data>>] + e.left >= Timeout[e.topic.kind]
              /\ Cached(e.topic, e.data) /\ topic_msgs[e.topic][e.data] = k
          BY <5>1 DEF CacheParts, CacheTypes, AgeInv, KeysAgree
        <5>3. ~(e.topic = t /\ e.data = data)
          BY <2>2, <2>6, <4>2, <5>2
        <5> QED BY <1>3, <5>1, <5>2, <5>3
      <4> QED BY <4>1, <4>2
    <3> QED BY <3>1 DEF AgeInv
  <2>16. KeptStep
    <3>1. ASSUME NEW u \in Topics, NEW d \in Datas, Cached(u, d) PROVE Cached(u, d)'
      <4>1. CASE u = t
        BY <2>2, <2>8, <2>11, <3>1, <4>1 DEF Cached
      <4>2. CASE u # t
        BY <2>11, <3>1, <4>2 DEF Cached
      <4> QED BY <4>1, <4>2
    <3> QED BY <3>1 DEF KeptStep
  <2> QED BY <2>12, <2>13, <2>14, <2>15, <2>16 DEF CacheParts
<1> QED BY <1>4, <1>5

\* GossipCache::retrieve keeps the invariant, and takes the messages of its topic only.
LEMMA RetrieveKeeps ==
    ASSUME CacheParts, NEW t \in Topics, retrieve(t)
    PROVE  /\ CacheParts'
           /\ \A u \in Topics : \A d \in Datas : u # t /\ Cached(u, d) => Cached(u, d)'
<1> DEFINE gone == Range(Msgs(t))
<1>1. \A k \in DOMAIN expirations : k \in gone <=> expirations[k].topic = t
  <2>1. ASSUME NEW k \in DOMAIN expirations, k \in gone PROVE expirations[k].topic = t
    <3>1. PICK d \in DOMAIN Msgs(t) : k = Msgs(t)[d]
      BY <2>1 DEF Range
    <3>2. t \in DOMAIN topic_msgs /\ d \in DOMAIN topic_msgs[t] /\ k = topic_msgs[t][d]
      BY <3>1 DEF Msgs, Empty
    <3> QED BY <3>2 DEF CacheParts, KeysAgree
  <2>2. ASSUME NEW k \in DOMAIN expirations, expirations[k].topic = t PROVE k \in gone
    <3> PICK d : d = expirations[k].data
      OBVIOUS
    <3>1. t \in DOMAIN topic_msgs /\ d \in DOMAIN topic_msgs[t] /\ topic_msgs[t][d] = k
      BY <2>2 DEF CacheParts, KeysAgree, Cached
    <3> QED BY <3>1 DEF Msgs, Range
  <2> QED BY <2>1, <2>2
<1>2. /\ DOMAIN expirations' = DOMAIN expirations \ gone
      /\ \A k \in DOMAIN expirations' : expirations'[k] = expirations[k]
      /\ DOMAIN topic_msgs' = DOMAIN topic_msgs \ {t}
      /\ \A u \in DOMAIN topic_msgs' : topic_msgs'[u] = topic_msgs[u]
      /\ age' = age
  BY DEF retrieve, Restrict
<1> HIDE DEF gone
<1>3. CacheTypes'
  BY <1>2 DEF CacheParts, CacheTypes
<1>4. KeysAgree'
  <2>1. ASSUME NEW u \in DOMAIN topic_msgs', NEW d \in DOMAIN topic_msgs'[u]
        PROVE  /\ topic_msgs'[u][d] \in DOMAIN expirations'
               /\ expirations'[topic_msgs'[u][d]].topic = u
               /\ expirations'[topic_msgs'[u][d]].data = d
    <3>1. u \in DOMAIN topic_msgs /\ u # t /\ topic_msgs'[u] = topic_msgs[u]
      BY <1>2
    <3>2. /\ topic_msgs[u][d] \in DOMAIN expirations
          /\ expirations[topic_msgs[u][d]].topic = u
          /\ expirations[topic_msgs[u][d]].data = d
      BY <3>1 DEF CacheParts, KeysAgree
    <3>3. topic_msgs[u][d] \notin gone
      BY <1>1, <3>1, <3>2
    <3> QED BY <1>2, <3>1, <3>2, <3>3
  <2>2. ASSUME NEW k \in DOMAIN expirations'
        PROVE  /\ expirations'[k].topic \in DOMAIN topic_msgs'
               /\ expirations'[k].data \in DOMAIN topic_msgs'[expirations'[k].topic]
               /\ topic_msgs'[expirations'[k].topic][expirations'[k].data] = k
    <3> PICK u, d : u = expirations[k].topic /\ d = expirations[k].data
      OBVIOUS
    <3>1. k \in DOMAIN expirations /\ expirations'[k] = expirations[k] /\ u # t
      BY <1>1, <1>2
    <3>2. u \in DOMAIN topic_msgs /\ d \in DOMAIN topic_msgs[u] /\ topic_msgs[u][d] = k
      BY <3>1 DEF CacheParts, KeysAgree, Cached
    <3> QED BY <1>2, <3>1, <3>2
  <2> QED BY <2>1, <2>2 DEF KeysAgree, Cached
<1>5. OurTopics' /\ AgeInv'
  BY <1>2 DEF CacheParts, OurTopics, AgeInv
<1>6. \A u \in Topics : \A d \in Datas : u # t /\ Cached(u, d) => Cached(u, d)'
  BY <1>2 DEF Cached
<1> QED BY <1>3, <1>4, <1>5, <1>6 DEF CacheParts

\* GossipCache::poll_next keeps the invariant, and takes a message whose time is over.
LEMMA ExpireKeeps ==
    ASSUME CacheParts, NEW k \in Keys, Expire(k)
    PROVE  CacheParts' /\ KeptStep
<1> PICK t, data : t = expirations[k].topic /\ data = expirations[k].data
  OBVIOUS
<1> DEFINE msgs == topic_msgs[t]
           rest == Restrict(msgs, DOMAIN msgs \ {data})
<1>1. /\ k \in DOMAIN expirations /\ expirations[k].left = 0
      /\ DOMAIN expirations' = DOMAIN expirations \ {k}
      /\ \A j \in DOMAIN expirations' : expirations'[j] = expirations[j]
      /\ age' = age
  BY DEF Expire, Restrict
<1>2. /\ t \in Topics /\ data \in Datas /\ t \in DOMAIN topic_msgs
      /\ data \in DOMAIN msgs /\ msgs[data] = k
  BY <1>1 DEF CacheParts, CacheTypes, KeysAgree, Cached
<1>3. topic_msgs' = IF DOMAIN rest = {}
                    THEN Restrict(topic_msgs, DOMAIN topic_msgs \ {t})
                    ELSE Updated(topic_msgs, t, rest)
  BY <1>2 DEF Expire, Forgotten, Msgs
<1>4. /\ DOMAIN rest = DOMAIN msgs \ {data} /\ rest \in [DOMAIN rest -> Keys]
      /\ \A d \in DOMAIN rest : rest[d] = msgs[d]
      /\ DOMAIN msgs \subseteq Datas
  BY <1>2 DEF Restrict, CacheParts, CacheTypes
<1> HIDE DEF rest
<1>5. /\ DOMAIN topic_msgs' \subseteq DOMAIN topic_msgs
      /\ \A u \in DOMAIN topic_msgs : u # t =>
             u \in DOMAIN topic_msgs' /\ topic_msgs'[u] = topic_msgs[u]
      /\ t \in DOMAIN topic_msgs' <=> DOMAIN rest # {}
      /\ t \in DOMAIN topic_msgs' => topic_msgs'[t] = rest
  BY <1>2, <1>3 DEF Restrict, Updated
<1> HIDE DEF msgs
<1>6. CacheTypes'
  <2>1. ASSUME NEW u \in DOMAIN topic_msgs'
        PROVE  /\ topic_msgs'[u] \in [DOMAIN topic_msgs'[u] -> Keys]
               /\ DOMAIN topic_msgs'[u] \subseteq Datas
               /\ DOMAIN topic_msgs'[u] # {}
    <3>1. CASE u = t
      BY <1>4, <1>5, <3>1
    <3>2. CASE u # t
      BY <1>5, <3>2 DEF CacheParts, CacheTypes
    <3> QED BY <3>1, <3>2
  <2> QED BY <1>1, <1>5, <2>1 DEF CacheParts, CacheTypes
<1>7. KeysAgree'
  <2>1. ASSUME NEW u \in DOMAIN topic_msgs', NEW d \in DOMAIN topic_msgs'[u]
        PROVE  /\ topic_msgs'[u][d] \in DOMAIN expirations'
               /\ expirations'[topic_msgs'[u][d]].topic = u
               /\ expirations'[topic_msgs'[u][d]].data = d
    <3>1. /\ u \in DOMAIN topic_msgs /\ d \in DOMAIN topic_msgs[u]
          /\ topic_msgs'[u][d] = topic_msgs[u][d] /\ ~(u = t /\ d = data)
      <4>1. CASE u = t
        BY <1>2, <1>4, <1>5, <4>1 DEF msgs
      <4>2. CASE u # t
        BY <1>5, <4>2
      <4> QED BY <4>1, <4>2
    <3>2. /\ topic_msgs[u][d] \in DOMAIN expirations
          /\ expirations[topic_msgs[u][d]].topic = u
          /\ expirations[topic_msgs[u][d]].data = d
      BY <3>1 DEF CacheParts, KeysAgree
    <3>3. topic_msgs[u][d] # k
      BY <3>1, <3>2
    <3> QED BY <1>1, <3>1, <3>2, <3>3
  <2>2. ASSUME NEW j \in DOMAIN expirations'
        PROVE  /\ expirations'[j].topic \in DOMAIN topic_msgs'
               /\ expirations'[j].data \in DOMAIN topic_msgs'[expirations'[j].topic]
               /\ topic_msgs'[expirations'[j].topic][expirations'[j].data] = j
    <3> PICK u, d : u = expirations[j].topic /\ d = expirations[j].data
      OBVIOUS
    <3>1. j \in DOMAIN expirations /\ expirations'[j] = expirations[j] /\ j # k
      BY <1>1
    <3>2. u \in DOMAIN topic_msgs /\ d \in DOMAIN topic_msgs[u] /\ topic_msgs[u][d] = j
      BY <3>1 DEF CacheParts, KeysAgree, Cached
    <3>3. CASE u = t
      <4>1. d \in DOMAIN rest /\ rest[d] = j
        BY <1>2, <1>4, <3>1, <3>2, <3>3 DEF msgs
      <4> QED BY <1>5, <3>1, <3>3, <4>1
    <3>4. CASE u # t
      BY <1>5, <3>1, <3>2, <3>4
    <3> QED BY <3>3, <3>4
  <2> QED BY <2>1, <2>2 DEF KeysAgree, Cached
<1>8. OurTopics' /\ AgeInv'
  BY <1>1 DEF CacheParts, OurTopics, AgeInv
<1>9. KeptStep
  <2>1. ASSUME NEW u \in Topics, NEW d \in Datas, Cached(u, d), ~Cached(u, d)'
        PROVE  LeavesFor(u, d)
    <3>1. u = t
      BY <1>5, <2>1 DEF Cached
    <3>2. d = data
      BY <1>4, <1>5, <2>1, <3>1 DEF Cached, msgs
    <3>3. age[<<t, data>>] + 0 >= Timeout[t.kind]
      BY <1>1 DEF CacheParts, AgeInv
    <3>4. age[<<t, data>>] \in Nat
      BY <1>2 DEF CacheParts, CacheTypes
    <3> QED BY <3>1, <3>2, <3>3, <3>4 DEF LeavesFor
  <2> QED BY <2>1 DEF KeptStep
<1> QED BY <1>6, <1>7, <1>8, <1>9 DEF CacheParts

\* Time passes for the messages that are kept.
LEMMA TickKeeps ==
    ASSUME CacheParts, Tick
    PROVE  CacheParts' /\ KeptStep
<1>1. /\ DOMAIN expirations' = DOMAIN expirations /\ topic_msgs' = topic_msgs
      /\ age \in [Topics \X Datas -> Nat] /\ DOMAIN age = Topics \X Datas
      /\ age' = [m \in DOMAIN age |->
                    IF m[1] \in DOMAIN topic_msgs /\ m[2] \in DOMAIN Msgs(m[1])
                       /\ age[m] < Timeout[m[1].kind]
                    THEN age[m] + 1 ELSE age[m]]
  BY DEF Tick, CacheParts, CacheTypes
<1>2. ASSUME NEW k \in DOMAIN expirations
      PROVE  /\ expirations[k] \in [topic : Topics, data : Datas, left : Nat]
             /\ expirations'[k] \in [topic : Topics, data : Datas, left : Nat]
             /\ expirations'[k].topic = expirations[k].topic
             /\ expirations'[k].data = expirations[k].data
             /\ expirations'[k].left
                = IF expirations[k].left = 0 THEN 0 ELSE expirations[k].left - 1
  <2> PICK e : e = expirations[k]
    OBVIOUS
  <2>1. e \in [topic : Topics, data : Datas, left : Nat]
    BY DEF CacheParts, CacheTypes
  <2>2. expirations'[k] = [e EXCEPT !.left = IF e.left = 0 THEN 0 ELSE e.left - 1]
    BY DEF Tick
  <2>3. (IF e.left = 0 THEN 0 ELSE e.left - 1) \in Nat
    BY <2>1
  <2> QED BY <2>1, <2>2, <2>3
<1>3. \A m \in Topics \X Datas : age'[m] \in Nat /\ age'[m] >= age[m]
  BY <1>1
<1>4. age' \in [Topics \X Datas -> Nat]
  BY <1>1, <1>3
<1>5. CacheTypes'
  BY <1>1, <1>2, <1>4 DEF CacheParts, CacheTypes
<1>6. KeysAgree'
  BY <1>1, <1>2 DEF CacheParts, KeysAgree, Cached
<1>7. OurTopics'
  BY <1>1, <1>2 DEF CacheParts, OurTopics
<1>8. AgeInv'
  <2>1. ASSUME NEW k \in DOMAIN expirations
        PROVE  LET e == expirations'[k]
               IN  age'[<<e.topic, e.data>>] + e.left >= Timeout[e.topic.kind]
    <3> PICK t, d : t = expirations[k].topic /\ d = expirations[k].data
      OBVIOUS
    <3>1. /\ t \in Topics /\ d \in Datas /\ expirations[k].left \in Nat
          /\ expirations'[k].topic = t /\ expirations'[k].data = d
      BY <1>2
    <3>2. <<t, d>> \in Topics \X Datas /\ age[<<t, d>>] \in Nat /\ age'[<<t, d>>] \in Nat
      BY <1>1, <1>3, <3>1
    <3>3. Timeout[t.kind] \in Nat
      BY <3>1, GossipAssumption DEF Topics
    <3>4. t \in DOMAIN topic_msgs /\ d \in DOMAIN Msgs(t)
      BY DEF CacheParts, KeysAgree, Cached, Msgs
    <3>5. age[<<t, d>>] + expirations[k].left >= Timeout[t.kind]
      BY DEF CacheParts, AgeInv
    <3>6. CASE age[<<t, d>>] < Timeout[t.kind]
      <4>1. age'[<<t, d>>] = age[<<t, d>>] + 1
        BY <1>1, <3>2, <3>4, <3>6
      <4> QED BY <1>2, <3>1, <3>2, <3>3, <3>5, <4>1
    <3>7. CASE age[<<t, d>>] >= Timeout[t.kind]
      BY <1>2, <1>3, <3>1, <3>2, <3>3, <3>7
    <3> QED BY <3>2, <3>3, <3>6, <3>7
  <2> QED BY <1>1, <2>1 DEF AgeInv
<1>9. KeptStep
  BY <1>1 DEF KeptStep, Cached
<1> QED BY <1>5, <1>6, <1>7, <1>8, <1>9 DEF CacheParts

-----------------------------------------------------------------------------
(* Peers and the events about them.                                        *)

\* The events that wait, after the oldest is taken or one is reported.
LEMMA EventsMove ==
    ASSUME PeerTypes
    PROVE  /\ \A e \in GossipEvents : Len(events) < MaxEvents =>
                  Append(events, e) \in Seq(GossipEvents) /\ Len(Append(events, e)) <= MaxEvents
           /\ events # <<>> =>
                  /\ Tail(events) \in Seq(GossipEvents) /\ Len(Tail(events)) <= MaxEvents
                  /\ Head(events) \in GossipEvents
<1>1. events \in Seq(GossipEvents) /\ Len(events) <= MaxEvents /\ Len(events) \in Nat
      /\ MaxEvents \in Nat
  BY GossipAssumption, LenProperties DEF PeerTypes
<1>2. ASSUME NEW e \in GossipEvents, Len(events) < MaxEvents
      PROVE  Append(events, e) \in Seq(GossipEvents) /\ Len(Append(events, e)) <= MaxEvents
  <2>1. Append(events, e) \in Seq(GossipEvents) /\ Len(Append(events, e)) = Len(events) + 1
    BY <1>1, AppendProperties
  <2> QED BY <1>1, <1>2, <2>1
<1>3. ASSUME events # <<>>
      PROVE  /\ Tail(events) \in Seq(GossipEvents) /\ Len(Tail(events)) <= MaxEvents
             /\ Head(events) \in GossipEvents
  <2>1. /\ Tail(events) \in Seq(GossipEvents) /\ Len(Tail(events)) = Len(events) - 1
        /\ Head(events) \in GossipEvents
    BY <1>1, <1>3, HeadTailProperties
  <2> QED BY <1>1, <2>1
<1> QED BY <1>2, <1>3

\* A step of the gossip part keeps the invariant of the cache and the types.
LEMMA GossipStep ==
    ASSUME CacheParts, PeerTypes, GossipNext
    PROVE  CacheParts' /\ PeerTypes' /\ KeptStep
<1>0. ASSUME UNCHANGED cacheVars PROVE CacheParts' /\ KeptStep
  BY <1>0 DEF cacheVars, CacheParts, CacheTypes, KeysAgree, Cached, OurTopics, AgeInv, KeptStep
<1>1. ASSUME UNCHANGED <<peerVars, events>> PROVE PeerTypes'
  BY <1>1 DEF peerVars, PeerTypes
<1>2. ASSUME NEW kind \in Kinds, NEW data \in Datas, publish(kind, data)
      PROVE  CacheParts' /\ PeerTypes' /\ KeptStep
  <2>1. PeerTypes'
    BY <1>1, <1>2 DEF publish
  <2>2. CASE insert([kind |-> kind, fork_digest |-> OurFork], data)
    BY <2>1, <2>2, InsertKeeps
  <2>3. CASE UNCHANGED cacheVars
    BY <1>0, <2>1, <2>3
  <2> QED BY <1>2, <2>2, <2>3 DEF publish
<1>3. ASSUME NEW k \in Keys, Expire(k) PROVE CacheParts' /\ PeerTypes' /\ KeptStep
  BY <1>1, <1>3, ExpireKeeps DEF Expire
<1>4. CASE Tick
  BY <1>1, <1>4, TickKeeps DEF Tick
<1>5. CASE InjectGsEvent
  <2>1. /\ events # <<>> /\ events' = Tail(events)
        /\ UNCHANGED <<connected, registered, subscribed, dropped>>
    BY <1>5 DEF InjectGsEvent
  <2>2. PICK e \in GossipEvents : e = Head(events)
    BY <2>1, EventsMove
  <2>3. e.peer \in Peers /\ e.topic \in Topics
    BY <2>2 DEF GossipEvents
  <2>4. events' \in Seq(GossipEvents) /\ Len(events') <= MaxEvents
    BY <2>1, EventsMove
  <2>5. CASE e.type = "Subscribed" /\ HandleSubscribed(e.peer, e.topic)
    <3>1. subnets' = [subnets EXCEPT ![e.peer] = @ \cup ({e.topic.kind} \cap SubnetKinds)]
          /\ retrieve(e.topic)
      BY <2>5 DEF HandleSubscribed
    <3>2. PeerTypes'
      BY <2>1, <2>3, <2>4, <3>1 DEF PeerTypes
    <3>3. /\ CacheParts'
          /\ \A u \in Topics : \A d \in Datas : u # e.topic /\ Cached(u, d) => Cached(u, d)'
      BY <2>3, <3>1, RetrieveKeeps
    <3>4. KeptStep
      BY <2>1, <2>2, <2>5, <3>3 DEF KeptStep, LeavesFor
    <3> QED BY <3>2, <3>3, <3>4
  <2>6. CASE e.type = "Unsubscribed" /\ HandleUnsubscribed(e.peer, e.topic)
    <3>1. subnets' = [subnets EXCEPT ![e.peer] = @ \ {e.topic.kind}] /\ UNCHANGED cacheVars
      BY <2>6 DEF HandleUnsubscribed
    <3>2. PeerTypes'
      BY <2>1, <2>3, <2>4, <3>1 DEF PeerTypes
    <3> QED BY <1>0, <3>1, <3>2
  <2> QED BY <1>5, <2>2, <2>5, <2>6 DEF InjectGsEvent
<1>6. ASSUME NEW p \in Peers, Connect(p) \/ Unregister(p) \/ DialFailure(p) \/ Disconnect(p)
      PROVE  CacheParts' /\ PeerTypes' /\ KeptStep
  <2>1. UNCHANGED cacheVars
    BY <1>6 DEF Connect, Unregister, DialFailure, Disconnect
  <2>2. PeerTypes'
    BY <1>6 DEF Connect, Unregister, DialFailure, Disconnect, PeerTypes
  <2> QED BY <1>0, <2>1, <2>2
<1>7. ASSUME NEW p \in Peers, NEW t \in Topics, PeerSubscribes(p, t) \/ PeerUnsubscribes(p, t)
      PROVE  CacheParts' /\ PeerTypes' /\ KeptStep
  <2>1. UNCHANGED cacheVars
    BY <1>7 DEF PeerSubscribes, PeerUnsubscribes
  <2>2. /\ [type |-> "Subscribed", peer |-> p, topic |-> t] \in GossipEvents
        /\ [type |-> "Unsubscribed", peer |-> p, topic |-> t] \in GossipEvents
    BY DEF GossipEvents
  <2>3. events' \in Seq(GossipEvents) /\ Len(events') <= MaxEvents
    BY <1>7, <2>2, EventsMove DEF PeerSubscribes, PeerUnsubscribes
  <2>4. PeerTypes'
    BY <1>7, <2>3 DEF PeerSubscribes, PeerUnsubscribes, PeerTypes, Topics
  <2> QED BY <1>0, <2>1, <2>4
<1> QED BY <1>2, <1>3, <1>4, <1>5, <1>6, <1>7 DEF GossipNext

\* The inductive invariant of the cache, and what each step keeps.
LEMMA CacheStep ==
    ASSUME CacheInv, [NetworkNext]_networkVars
    PROVE  CacheInv' /\ [KeptStep]_gossipVars
<1>1. CacheParts /\ PeerTypes
  BY TypeParts DEF CacheInv, CacheConsistent, CacheParts
<1>2. CASE GossipNext
  <2>1. CacheParts' /\ PeerTypes' /\ KeptStep
    BY <1>1, <1>2, GossipStep
  <2> QED BY <2>1, TypePartsPrime DEF CacheInv, CacheConsistent, CacheParts
<1>3. CASE UNCHANGED gossipVars
  <2>1. CacheParts' /\ PeerTypes'
    BY <1>1, <1>3 DEF gossipVars, CacheParts, CacheTypes, PeerTypes, KeysAgree, Cached,
                      OurTopics, AgeInv
  <2> QED BY <1>3, <2>1, TypePartsPrime DEF CacheInv, CacheConsistent, CacheParts
<1> QED BY <1>2, <1>3 DEF NetworkNext, ReceiveBlock, networkVars

\* The inductive invariant of the cache holds.
LEMMA CacheInvHolds == NetworkSpec => []CacheInv
<1>1. GossipInit => CacheInv
  <2> SUFFICES ASSUME GossipInit PROVE CacheInv
    OBVIOUS
  <2>1. CacheTypes /\ KeysAgree /\ OurTopics /\ AgeInv
    BY DEF GossipInit, Empty, CacheTypes, KeysAgree, OurTopics, AgeInv
  <2>2. PeerTypes
    <3>1. events \in Seq(GossipEvents) /\ Len(events) <= MaxEvents
      BY GossipAssumption, EmptySeq DEF GossipInit
    <3> QED BY <3>1 DEF GossipInit, PeerTypes
  <2> QED BY <2>1, <2>2, TypeParts DEF CacheInv, CacheConsistent
<1>2. CacheInv /\ [NetworkNext]_networkVars => CacheInv'
  BY CacheStep
<1> QED BY <1>1, <1>2, PTL DEF NetworkSpec, NetworkInit

\* The map and the delay queue of the gossip cache name the same messages under the same
\* keys, for any topics, messages and timeouts and after any inserts, retries and
\* expirations: no key is reset, removed or expired that is gone.
THEOREM CacheAlwaysConsistent == NetworkSpec => []CacheConsistent
<1>1. CacheInv => CacheConsistent
  BY DEF CacheInv
<1> QED BY <1>1, CacheInvHolds, PTL

\* A message leaves the cache only to be published again or when the whole timeout of
\* its kind has passed since it last failed.
THEOREM AlwaysKeptForItsTimeout == NetworkSpec => KeptForItsTimeout
<1>1. CacheInv /\ [NetworkNext]_networkVars => [KeptStep]_gossipVars
  BY CacheStep
<1>2. NetworkSpec => [][KeptStep]_gossipVars
  BY <1>1, CacheInvHolds, PTL DEF NetworkSpec
<1> QED BY <1>2 DEF KeptForItsTimeout, KeptStep, LeavesFor

\* What is known about a peer's subscription and its events, for one peer and kind.
Recorded(p, kind) ==
    /\ QueuedFor(p, kind) = {} => kind \in subnets[p]
    /\ \A i \in QueuedFor(p, kind) :
           (\A j \in QueuedFor(p, kind) : j <= i) => events[i].type = "Subscribed"

\* A report is the last event: it decides for its peer and kind, and changes nothing
\* for the others.
LEMMA ReportRecorded ==
    ASSUME events \in Seq(GossipEvents), NEW e \in GossipEvents, events' = Append(events, e),
           subnets' = subnets, NEW p \in Peers, NEW kind
    PROVE  /\ e.peer = p /\ e.topic.kind = kind /\ e.type = "Subscribed" => Recorded(p, kind)'
           /\ ~(e.peer = p /\ e.topic.kind = kind) /\ Recorded(p, kind) => Recorded(p, kind)'
<1> DEFINE n == Len(events)
<1>1. /\ n \in Nat /\ DOMAIN events = 1 .. n /\ DOMAIN events' = 1 .. n + 1
      /\ events'[n + 1] = e /\ \A i \in 1 .. n : events'[i] = events[i]
  BY AppendProperties, LenProperties
<1> HIDE DEF n
<1>2. ASSUME e.peer = p, e.topic.kind = kind, e.type = "Subscribed" PROVE Recorded(p, kind)'
  <2>1. n + 1 \in QueuedFor(p, kind)'
    BY <1>1, <1>2 DEF QueuedFor
  <2>2. ASSUME NEW i \in QueuedFor(p, kind)', \A j \in QueuedFor(p, kind)' : j <= i
        PROVE  events'[i].type = "Subscribed"
    <3>1. i \in 1 .. n + 1 /\ n + 1 <= i
      BY <1>1, <2>1, <2>2 DEF QueuedFor
    <3>2. i = n + 1
      BY <1>1, <3>1
    <3> QED BY <1>1, <1>2, <3>2
  <2> QED BY <2>1, <2>2 DEF Recorded
<1>3. ASSUME ~(e.peer = p /\ e.topic.kind = kind), Recorded(p, kind) PROVE Recorded(p, kind)'
  <2>1. QueuedFor(p, kind)' = QueuedFor(p, kind)
    BY <1>1, <1>3 DEF QueuedFor
  <2>2. \A i \in QueuedFor(p, kind) : events'[i] = events[i]
    BY <1>1 DEF QueuedFor
  <2> QED BY <1>3, <2>1, <2>2 DEF Recorded
<1> QED BY <1>2, <1>3

\* Handling the oldest event: the ones that remain move up by one.
LEMMA HandledRecorded ==
    ASSUME events \in Seq(GossipEvents), events # <<>>, events' = Tail(events),
           NEW p \in Peers, NEW kind, Recorded(p, kind),
           ~(Head(events).peer = p /\ Head(events).topic.kind = kind)
               => (kind \in subnets[p] => kind \in subnets'[p]),
           Head(events).peer = p /\ Head(events).topic.kind = kind
           /\ Head(events).type = "Subscribed" => kind \in subnets'[p]
    PROVE  Recorded(p, kind)'
<1> DEFINE n == Len(events)
           first == Head(events)
<1>1. /\ n \in Nat \ {0} /\ DOMAIN events = 1 .. n /\ DOMAIN events' = 1 .. n - 1
      /\ first = events[1] /\ \A i \in 1 .. n - 1 : events'[i] = events[i + 1]
  BY HeadTailProperties, LenProperties, EmptySeq
<1>2. /\ ~(first.peer = p /\ first.topic.kind = kind)
             => (kind \in subnets[p] => kind \in subnets'[p])
      /\ first.peer = p /\ first.topic.kind = kind /\ first.type = "Subscribed"
             => kind \in subnets'[p]
  OBVIOUS
<1> HIDE DEF n, first
<1>3. \A i : i \in QueuedFor(p, kind)' <=> i \in 1 .. n - 1 /\ i + 1 \in QueuedFor(p, kind)
  <2>1. ASSUME NEW i \in 1 .. n - 1 PROVE i + 1 \in 1 .. n /\ events'[i] = events[i + 1]
    BY <1>1
  <2> QED BY <1>1, <2>1 DEF QueuedFor
<1>4. 1 \in QueuedFor(p, kind) <=> first.peer = p /\ first.topic.kind = kind
  <2>1. 1 \in 1 .. n
    BY <1>1
  <2> QED BY <1>1, <2>1 DEF QueuedFor
<1>5. \A i \in QueuedFor(p, kind) : i \in 1 .. n /\ (i # 1 => i - 1 \in QueuedFor(p, kind)')
  <2>1. ASSUME NEW i \in QueuedFor(p, kind), i # 1
        PROVE  i - 1 \in QueuedFor(p, kind)'
    <3>1. i \in 1 .. n
      BY <1>1 DEF QueuedFor
    <3>2. i - 1 \in 1 .. n - 1 /\ (i - 1) + 1 = i
      BY <1>1, <2>1, <3>1
    <3> QED BY <1>3, <2>1, <3>2
  <2> QED BY <1>1, <2>1 DEF QueuedFor
<1>6. ASSUME QueuedFor(p, kind)' = {} PROVE kind \in subnets'[p]
  <2>1. QueuedFor(p, kind) \subseteq {1}
    BY <1>5, <1>6
  <2>2. CASE 1 \in QueuedFor(p, kind)
    <3>1. \A j \in QueuedFor(p, kind) : j <= 1
      BY <2>1
    <3>2. events[1].type = "Subscribed"
      BY <2>2, <3>1 DEF Recorded
    <3> QED BY <1>1, <1>2, <1>4, <2>2, <3>2
  <2>3. CASE 1 \notin QueuedFor(p, kind)
    <3>1. QueuedFor(p, kind) = {}
      BY <2>1, <2>3
    <3> QED BY <1>2, <1>4, <2>3, <3>1 DEF Recorded
  <2> QED BY <2>2, <2>3
<1>7. ASSUME NEW i \in QueuedFor(p, kind)', \A j \in QueuedFor(p, kind)' : j <= i
      PROVE  events'[i].type = "Subscribed"
  <2>1. i \in 1 .. n - 1 /\ i + 1 \in QueuedFor(p, kind) /\ events'[i] = events[i + 1]
    BY <1>1, <1>3
  <2>2. ASSUME NEW j \in QueuedFor(p, kind) PROVE j <= i + 1
    <3>1. CASE j = 1
      BY <1>1, <2>1, <3>1
    <3>2. CASE j # 1
      <4>1. j - 1 \in QueuedFor(p, kind)' /\ j \in 1 .. n
        BY <1>5, <3>2
      <4>2. j - 1 <= i
        BY <1>7, <4>1
      <4> QED BY <1>1, <2>1, <4>1, <4>2
    <3> QED BY <3>1, <3>2
  <2>3. events[i + 1].type = "Subscribed"
    BY <2>1, <2>2 DEF Recorded
  <2> QED BY <2>1, <2>3
<1> QED BY <1>6, <1>7 DEF Recorded

\* Gossipsub knows of no subscription of a peer it is not connected to.
NoneBefore == \A p \in Peers \ connected : subscribed[p] = {}

\* A step keeps that.
LEMMA NoneBeforeStep ==
    ASSUME CacheInv, NoneBefore, [NetworkNext]_networkVars
    PROVE  NoneBefore'
<1>1. connected \subseteq Peers /\ subscribed \in [Peers -> SUBSET Topics]
  BY TypeParts DEF CacheInv, CacheConsistent, PeerTypes
<1>2. CASE UNCHANGED <<connected, subscribed>>
  BY <1>2 DEF NoneBefore
<1>3. ASSUME NEW p \in Peers, Connect(p) PROVE NoneBefore'
  BY <1>3 DEF Connect, NoneBefore
<1>4. ASSUME NEW p \in Peers, Disconnect(p) PROVE NoneBefore'
  BY <1>1, <1>4 DEF Disconnect, NoneBefore
<1>5. ASSUME NEW p \in Peers, NEW t \in Topics, PeerSubscribes(p, t) \/ PeerUnsubscribes(p, t)
      PROVE  NoneBefore'
  BY <1>1, <1>5 DEF PeerSubscribes, PeerUnsubscribes, NoneBefore
<1>6. ASSUME NEW p \in Peers, Unregister(p) \/ DialFailure(p) PROVE NoneBefore'
  BY <1>2, <1>6 DEF Unregister, DialFailure
<1>7. CASE InjectGsEvent
  BY <1>2, <1>7 DEF InjectGsEvent
<1>8. ASSUME NEW kind \in Kinds, NEW data \in Datas, publish(kind, data) PROVE NoneBefore'
  BY <1>2, <1>8 DEF publish, peerVars
<1>9. ASSUME NEW k \in Keys, Expire(k) PROVE NoneBefore'
  BY <1>2, <1>9 DEF Expire, peerVars
<1>10. CASE Tick
  BY <1>2, <1>10 DEF Tick, peerVars
<1>11. CASE UNCHANGED gossipVars
  BY <1>2, <1>11 DEF gossipVars
<1>12. CASE GossipNext
  BY <1>3, <1>4, <1>5, <1>6, <1>7, <1>8, <1>9, <1>10, <1>12 DEF GossipNext
<1> QED BY <1>11, <1>12 DEF NetworkNext, ReceiveBlock, networkVars

\* A step keeps the record right.
LEMMA RecordedStep ==
    ASSUME CacheInv, NoneBefore, SubscribedIsRecorded, [NetworkNext]_networkVars
    PROVE  SubscribedIsRecorded'
<1>1. PeerTypes
  BY TypeParts DEF CacheInv, CacheConsistent
<1>2. \A p \in registered : \A t \in subscribed[p] :
          t.kind \in SubnetKinds \ dropped[p] => Recorded(p, t.kind)
  BY DEF SubscribedIsRecorded, Recorded
<1>3. SUFFICES ASSUME NEW p \in Peers, p \in registered', NEW t \in subscribed'[p],
                      t.kind \in SubnetKinds \ dropped'[p]
               PROVE  Recorded(p, t.kind)'
  <2>1. PeerTypes'
    BY CacheStep, TypePartsPrime DEF CacheInv, CacheConsistent
  <2> QED BY <2>1 DEF SubscribedIsRecorded, Recorded, PeerTypes
<1>4. ASSUME p \in registered, t \in subscribed[p], t.kind \notin dropped[p],
             events' = events, subnets'[p] = subnets[p]
      PROVE  Recorded(p, t.kind)'
  BY <1>2, <1>3, <1>4 DEF Recorded, QueuedFor
<1>5. CASE UNCHANGED <<peerVars, events>>
  BY <1>3, <1>4, <1>5 DEF peerVars
<1>6. CASE InjectGsEvent
  <2>1. /\ events # <<>> /\ events' = Tail(events) /\ events \in Seq(GossipEvents)
        /\ UNCHANGED <<registered, subscribed, dropped>>
    BY <1>1, <1>6 DEF InjectGsEvent, PeerTypes
  <2>2. PICK e \in GossipEvents : e = Head(events)
    BY <1>1, <2>1, EventsMove
  <2>3. /\ ~(e.peer = p /\ e.topic.kind = t.kind)
               => (t.kind \in subnets[p] => t.kind \in subnets'[p])
        /\ e.peer = p /\ e.topic.kind = t.kind /\ e.type = "Subscribed"
               => t.kind \in subnets'[p]
    <3>1. subnets \in [Peers -> SUBSET SubnetKinds] /\ e.peer \in Peers
      BY <1>1, <2>2 DEF PeerTypes, GossipEvents
    <3>2. CASE e.type = "Subscribed" /\ HandleSubscribed(e.peer, e.topic)
      BY <1>3, <3>1, <3>2 DEF HandleSubscribed
    <3>3. CASE e.type = "Unsubscribed" /\ HandleUnsubscribed(e.peer, e.topic)
      BY <3>1, <3>3 DEF HandleUnsubscribed
    <3> QED BY <1>6, <2>2, <3>2, <3>3 DEF InjectGsEvent
  <2>4. Recorded(p, t.kind)
    BY <1>2, <1>3, <2>1
  <2> QED BY <2>1, <2>2, <2>3, <2>4, HandledRecorded
<1>7. ASSUME NEW q \in Peers, Connect(q) PROVE Recorded(p, t.kind)'
  <2>1. /\ q \notin connected /\ p \in registered \cup {q}
        /\ UNCHANGED <<subscribed, events, subnets, dropped>>
    BY <1>3, <1>7 DEF Connect
  <2>2. p # q
    BY <1>3, <2>1 DEF NoneBefore
  <2> QED BY <1>3, <1>4, <2>1, <2>2
<1>8. ASSUME NEW q \in Peers, Unregister(q) PROVE Recorded(p, t.kind)'
  BY <1>3, <1>4, <1>8 DEF Unregister
<1>9. ASSUME NEW q \in Peers, DialFailure(q) PROVE Recorded(p, t.kind)'
  <2>1. /\ q \notin registered /\ subnets' = [subnets EXCEPT ![q] = {}]
        /\ subnets \in [Peers -> SUBSET SubnetKinds]
        /\ UNCHANGED <<registered, subscribed, events, dropped>>
    BY <1>1, <1>9 DEF DialFailure, PeerTypes
  <2>2. p # q /\ subnets'[p] = subnets[p]
    BY <1>3, <2>1
  <2> QED BY <1>3, <1>4, <2>1, <2>2
<1>10. ASSUME NEW q \in Peers, Disconnect(q) PROVE Recorded(p, t.kind)'
  <2>1. /\ registered' = registered \ {q} /\ events' = events
        /\ subscribed' = [subscribed EXCEPT ![q] = {}] /\ subscribed \in [Peers -> SUBSET Topics]
        /\ subnets' = [subnets EXCEPT ![q] = {}] /\ subnets \in [Peers -> SUBSET SubnetKinds]
        /\ dropped' = [dropped EXCEPT ![q] = {}] /\ dropped \in [Peers -> SUBSET Kinds]
    BY <1>1, <1>10 DEF Disconnect, PeerTypes
  <2>2. p # q /\ p \in registered
    BY <1>3, <2>1
  <2>3. t \in subscribed[p] /\ subnets'[p] = subnets[p] /\ dropped'[p] = dropped[p]
    BY <1>3, <2>1, <2>2
  <2> QED BY <1>3, <1>4, <2>1, <2>2, <2>3
<1>11. ASSUME NEW q \in Peers, NEW u \in Topics, PeerSubscribes(q, u)
       PROVE  Recorded(p, t.kind)'
  <2> PICK e : e = [type |-> "Subscribed", peer |-> q, topic |-> u]
    OBVIOUS
  <2>1. e \in GossipEvents /\ e.type = "Subscribed" /\ e.peer = q /\ e.topic = u
    BY DEF GossipEvents
  <2>2. /\ registered' = registered
        /\ subscribed' = [subscribed EXCEPT ![q] = @ \cup {u}]
        /\ subscribed \in [Peers -> SUBSET Topics]
        /\ dropped' = [dropped EXCEPT ![q] = @ \ {u.kind}] /\ dropped \in [Peers -> SUBSET Kinds]
        /\ events' = Append(events, e) /\ subnets' = subnets /\ events \in Seq(GossipEvents)
    BY <1>1, <1>11 DEF PeerSubscribes, PeerTypes
  <2>3. CASE q = p /\ u.kind = t.kind
    BY <2>1, <2>2, <2>3, ReportRecorded
  <2>4. CASE ~(q = p /\ u.kind = t.kind)
    <3>1. t \in subscribed[p] /\ t.kind \notin dropped[p]
      BY <1>3, <2>2, <2>4
    <3>2. Recorded(p, t.kind)
      BY <1>2, <1>3, <2>2, <3>1
    <3> QED BY <2>1, <2>2, <2>4, <3>2, ReportRecorded
  <2> QED BY <2>3, <2>4
<1>12. ASSUME NEW q \in Peers, NEW u \in Topics, PeerUnsubscribes(q, u)
       PROVE  Recorded(p, t.kind)'
  <2> PICK e : e = [type |-> "Unsubscribed", peer |-> q, topic |-> u]
    OBVIOUS
  <2>1. e \in GossipEvents /\ e.peer = q /\ e.topic = u
    BY DEF GossipEvents
  <2>2. /\ registered' = registered
        /\ subscribed' = [subscribed EXCEPT ![q] = @ \ {u}]
        /\ subscribed \in [Peers -> SUBSET Topics]
        /\ dropped' = [dropped EXCEPT ![q] = @ \cup {u.kind}] /\ dropped \in [Peers -> SUBSET Kinds]
        /\ events' = Append(events, e) /\ subnets' = subnets /\ events \in Seq(GossipEvents)
    BY <1>1, <1>12 DEF PeerUnsubscribes, PeerTypes
  <2>3. t \in subscribed[p] /\ t.kind \notin dropped[p] /\ ~(q = p /\ u.kind = t.kind)
    BY <1>3, <2>2
  <2>4. Recorded(p, t.kind)
    BY <1>2, <1>3, <2>2, <2>3
  <2> QED BY <2>1, <2>2, <2>3, <2>4, ReportRecorded
<1>13. ASSUME NEW kind \in Kinds, NEW data \in Datas, publish(kind, data)
       PROVE  UNCHANGED <<peerVars, events>>
  BY <1>13 DEF publish
<1>14. ASSUME NEW k \in Keys, Expire(k) PROVE UNCHANGED <<peerVars, events>>
  BY <1>14 DEF Expire
<1>15. Tick => UNCHANGED <<peerVars, events>>
  BY DEF Tick
<1>16. UNCHANGED gossipVars => UNCHANGED <<peerVars, events>>
  BY DEF gossipVars, peerVars
<1>17. CASE GossipNext
  BY <1>5, <1>6, <1>7, <1>8, <1>9, <1>10, <1>11, <1>12, <1>13, <1>14, <1>15, <1>17 DEF GossipNext
<1> QED BY <1>5, <1>16, <1>17 DEF NetworkNext, ReceiveBlock, networkVars

\* For any fork digests: a subnet that gossipsub knows a connected peer subscribes to, and
\* that it has not unsubscribed from since under another digest, is in the record of the
\* peer or the last event that waits will put it there, however many peers subscribe,
\* unsubscribe, are dialed and disconnect meanwhile.
THEOREM AlwaysRecorded == NetworkSpec => []SubscribedIsRecorded
<1>1. NetworkInit => NoneBefore /\ SubscribedIsRecorded
  BY DEF NetworkInit, GossipInit, NoneBefore, SubscribedIsRecorded
<1>2. CacheInv /\ NoneBefore /\ [NetworkNext]_networkVars => NoneBefore'
  BY NoneBeforeStep
<1>3. CacheInv /\ NoneBefore /\ SubscribedIsRecorded /\ [NetworkNext]_networkVars
          => SubscribedIsRecorded'
  BY RecordedStep
<1> QED BY <1>1, <1>2, <1>3, CacheInvHolds, PTL DEF NetworkSpec
=============================================================================
