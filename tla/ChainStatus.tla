----------------------------- MODULE ChainStatus -----------------------------
(***************************************************************************)
(* The STATUS that the sentry's loop (sentry.rs) keeps from the blocks that *)
(* gossip brings, and gives to every peer it dials and to every peer that   *)
(* asks.  The sentry has no chain: it takes the first block of an epoch for *)
(* finalized when it has seen that of two later epochs.  Blocks come from   *)
(* any peer, in any order, with slots missing or filled twice.              *)
(***************************************************************************)
EXTENDS Gossip

CONSTANTS
    SlotsPerEpoch,
    HeadSlot, FinalizedEpoch,   \* the default status
    LastSlot,                   \* bound on the slots of blocks
    Branches                    \* blocks of one slot differ in their branch

\* The default status is one of blocks.
ASSUME ChainAssumption ==
    /\ SlotsPerEpoch \in Nat \ {0}
    /\ HeadSlot \in Nat /\ LastSlot \in Nat /\ HeadSlot <= LastSlot
    /\ FinalizedEpoch \in Nat
    /\ FinalizedEpoch * SlotsPerEpoch <= HeadSlot
    /\ Branches # {}

\* A block stands for its own root.
Blocks == [slot : 0 .. LastSlot, branch : Branches]

VARIABLES
    highest_status,
    epoch_blocks,       \* the first blocks of epochs that are not finalized
    epoch_up_to_date,
    last_epoch

chainVars == <<highest_status, epoch_blocks, epoch_up_to_date, last_epoch>>
networkVars == <<gossipVars, chainVars>>

Statuses ==
    [finalized_root : Blocks, finalized_epoch : Nat, head_root : Blocks, head_slot : Nat]

EpochOf(slot) == slot \div SlotsPerEpoch

\* The loop's variables have their types: at most two first blocks of epochs wait.
ChainTypeOK ==
    /\ highest_status \in Statuses
    /\ epoch_blocks \in Seq(Blocks) /\ Len(epoch_blocks) <= 2
    /\ epoch_up_to_date \in BOOLEAN
    /\ last_epoch \in Nat

ChainInit ==
    /\ \E branch \in Branches :
           highest_status =
               [finalized_root |-> [slot |-> FinalizedEpoch * SlotsPerEpoch, branch |-> branch],
                finalized_epoch |-> FinalizedEpoch,
                head_root |-> [slot |-> HeadSlot, branch |-> branch],
                head_slot |-> HeadSlot]
    /\ epoch_blocks = <<>>
    /\ epoch_up_to_date = FALSE
    /\ last_epoch = 0

NetworkInit == GossipInit /\ ChainInit

-----------------------------------------------------------------------------

\* Mutant: an older epoch counts, too.
StartsEpoch_Any(slot) == slot % SlotsPerEpoch = 0

\* Only the first block of an epoch, and only of a newer one, counts.
StartsEpoch(slot) == slot % SlotsPerEpoch = 0 /\ EpochOf(slot) > last_epoch

Finalizes(waiting) == Len(waiting) > 2

\* Mutant: the epoch of the block that arrived.
Finalized_Newest(waiting) ==
    [highest_status EXCEPT !.finalized_root = Head(waiting),
                           !.finalized_epoch = EpochOf(waiting[Len(waiting)].slot)]

\* The status with the oldest block that waits finalized.
Finalized(waiting) ==
    [highest_status EXCEPT !.finalized_root = Head(waiting),
                           !.finalized_epoch = EpochOf(Head(waiting).slot)]

\* The queue without what it has finalized.
Waiting(waiting) == IF Finalizes(waiting) THEN Tail(waiting) ELSE waiting

\* NetworkEvent::PubsubMessage with a block, from a peer that is connected; other
\* messages change nothing here.
ReceiveBlock(block) ==
    /\ connected # {}
    /\ LET starts == StartsEpoch(block.slot)
           waiting == IF starts THEN Append(epoch_blocks, block) ELSE epoch_blocks
           finalizes == starts /\ Finalizes(waiting)
           status == IF finalizes THEN Finalized(waiting) ELSE highest_status
           up_to_date == epoch_up_to_date \/ finalizes
       IN  /\ last_epoch' = IF starts THEN EpochOf(block.slot) ELSE last_epoch
           /\ epoch_blocks' = Waiting(waiting)
           /\ epoch_up_to_date' = up_to_date
           /\ highest_status' =
                  IF up_to_date /\ block.slot > status.head_slot
                  THEN [status EXCEPT !.head_root = block, !.head_slot = block.slot]
                  ELSE status
    /\ UNCHANGED gossipVars

NetworkNext ==
    \/ GossipNext /\ UNCHANGED chainVars
    \/ \E block \in Blocks : ReceiveBlock(block)

NetworkSpec == NetworkInit /\ [][NetworkNext]_networkVars

-----------------------------------------------------------------------------

\* The status names real blocks: the roots it gives are those of its head's slot and
\* of the first slot of its finalized epoch, through every skipped or late block.
RootsMatch ==
    /\ highest_status.head_root.slot = highest_status.head_slot
    /\ highest_status.finalized_root.slot = highest_status.finalized_epoch * SlotsPerEpoch

\* Once blocks have updated the status, its finalized epoch is at least two epochs
\* behind that of its head, whichever blocks are missing, late or out of order.
FinalizedBehindHead ==
    epoch_up_to_date =>
        EpochOf(highest_status.head_slot) >= highest_status.finalized_epoch + 2

\* The status is one that a node with a chain could give.
StatusConsistent == ChainTypeOK /\ RootsMatch /\ FinalizedBehindHead

\* No later STATUS takes back an earlier one: the head never moves back, and neither
\* does the finalized epoch once blocks have updated it, however old the blocks are
\* that arrive.  Only the first block that is finalized may be older than the
\* checkpoint that is built in.
StatusNeverBack ==
    [][/\ highest_status'.head_slot >= highest_status.head_slot
       /\ epoch_up_to_date =>
              highest_status'.finalized_epoch >= highest_status.finalized_epoch]_networkVars
=============================================================================
