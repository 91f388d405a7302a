------------------------------ MODULE MCCodec ------------------------------
EXTENDS Codec

MCForks == <<"Base", "Capella">>

(* A Base block fits in one byte of length prefix; the longest Capella     *)
(* block is over max_packet_size.                                          *)
MCBlockLengths == [Base |-> {1, 2}, Capella |-> {2, 4, 5}]

MCFixedLengths ==
    [Status |-> 2, Goodbye |-> 1, BlocksByRange |-> 2, Ping |-> 1,
     MetaDataV1 |-> 1, MetaDataV2 |-> 2]

(* Only the order of the sizes matters; a prefix takes one byte or two. *)
MCCompressed(length) == IF length = 0 THEN 0 ELSE length + 1
MCMaxCompressLen(length) == length + 2
MCVarintLen(length) == IF length < 4 THEN 1 ELSE 2
=============================================================================
