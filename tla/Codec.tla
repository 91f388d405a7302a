------------------------------- MODULE Codec -------------------------------
(***************************************************************************)
(* One substream of the req/resp protocol between its two codecs           *)
(* (rpc/codec/base.rs, rpc/codec/ssz_snappy.rs, rpc/protocol.rs).  The     *)
(* writer encodes into the write buffer dst of its Framed, the network     *)
(* moves the bytes in fragments of any size to the read buffer src of the  *)
(* other side, whose decoder keeps what it has consumed of the current     *)
(* chunk between two calls of decode.                                      *)
(*                                                                         *)
(* A byte is its place in the stream: <<part, n>>, a byte of the response  *)
(* code, context, length prefix or compressed body of the n-th chunk.  A   *)
(* chunk is a record [code, fork, length, size]: its response code, the    *)
(* fork its context bytes name (without context: of the block it holds),   *)
(* the uncompressed length its prefix claims and the number of bytes of    *)
(* its compressed body.                                                    *)
(***************************************************************************)
EXTENDS Integers, Sequences, SequencesExt, FiniteSets

CONSTANTS
    KnownForks,         \* the forks of the fork context, oldest first
    Unknown,            \* context bytes of no fork of the fork context
    BlockLengths,       \* fork |-> SSZ lengths of its blocks
    FixedLengths,       \* message |-> its SSZ length
    ERROR_TYPE_MAX,     \* longest error message
    BLOCKS_BY_ROOT_REQUEST_MAX,
    max_packet_size,    \* max_rpc_size of the current fork
    CONTEXT_BYTES_LEN,
    Compressed(_),      \* length |-> bytes of our encoder's body of that length
    MaxCompressLen(_),  \* length |-> the worst case of the snappy format
    VarintLen(_),       \* length |-> bytes of its prefix
    MaxVarintLen,       \* bytes of the longest prefix
    ForeignLengths,     \* lengths a foreign peer's chunk may claim
    MaxChunks           \* bound: chunks written on the stream

(* The last fork of the fork context is the current one. *)
CurrentFork == Last(KnownForks)

Fixed == {"Status", "Goodbye", "BlocksByRange", "Ping", "MetaDataV1", "MetaDataV2"}

(* Every block is at least as long as the shortest of the first fork and   *)
(* at most as long as the longest of the current one: what the comments of *)
(* rpc_block_limits_by_fork rely on.                                       *)
ASSUME ForkAssumption ==
    /\ KnownForks \in Seq(ToSet(KnownForks)) /\ KnownForks # <<>>
    /\ Unknown \notin ToSet(KnownForks)
    /\ BlockLengths \in [ToSet(KnownForks) -> SUBSET (Nat \ {0})]
    /\ \E a \in BlockLengths[KnownForks[1]], b \in BlockLengths[CurrentFork] :
           \A f \in ToSet(KnownForks) : \A l \in BlockLengths[f] : a <= l /\ l <= b

ASSUME LengthAssumption ==
    /\ FixedLengths \in [Fixed -> Nat]
    /\ FixedLengths["MetaDataV1"] <= FixedLengths["MetaDataV2"]
    /\ ERROR_TYPE_MAX \in Nat /\ BLOCKS_BY_ROOT_REQUEST_MAX \in Nat
    /\ max_packet_size \in Nat /\ MaxVarintLen \in Nat /\ MaxChunks \in Nat
    /\ CONTEXT_BYTES_LEN \in Nat \ {0}
    /\ ForeignLengths \subseteq Nat

(* The lengths of what is sent on a stream. *)
Lengths ==
    0 .. ERROR_TYPE_MAX \cup 0 .. BLOCKS_BY_ROOT_REQUEST_MAX
        \cup (UNION {BlockLengths[f] : f \in ToSet(KnownForks)})
        \cup {FixedLengths[m] : m \in Fixed} \cup ForeignLengths

(* An empty body has no bytes and any other has the stream identifier of   *)
(* the snappy frame format (10 bytes) first.  The worst case is larger (10 *)
(* + 8 bytes per frame against 32 + length + length / 6).                  *)
ASSUME CompressAssumption ==
    \A l \in Lengths :
        /\ Compressed(l) \in Nat \ {1} /\ (l # 0 => Compressed(l) # 0)
        /\ MaxCompressLen(l) \in Nat \ {0, 1}
        /\ Compressed(l) <= MaxCompressLen(l)
        /\ VarintLen(l) \in 1 .. MaxVarintLen

VARIABLES
    stream,                  \* the negotiated protocol and the direction
    sent,                    \* the chunks given to the encoder, in order
    dst,                     \* write buffer
    closing,                 \* FALSE | TRUE: the writer closes once dst is flushed
    broken,                  \* an encoding failed or the connection was cut
    src,                     \* read buffer
    eof,                     \* the reader has seen the end of the stream
    current_response_code,   \* BaseOutboundCodec: byte consumed, or <<>>
    fork_name,               \* SSZSnappyOutboundCodec: context byte consumed, or <<>>
    len,                     \* length byte consumed, or <<>>
    decoded,                 \* the items returned, in order
    reader                   \* "reading" | "dry" | "failed" | "ended"

writer == <<sent, dst, closing, broken>>
decoder == <<current_response_code, fork_name, len>>
vars == <<stream, writer, src, eof, decoder, decoded, reader>>

-----------------------------------------------------------------------------
(* protocol.rs                                                             *)

(* The protocols a node supports, by name and version. *)
protocol_info ==
    {<<"Status", 1>>, <<"Goodbye", 1>>, <<"BlocksByRange", 1>>, <<"BlocksByRange", 2>>,
     <<"BlocksByRoot", 1>>, <<"BlocksByRoot", 2>>, <<"Ping", 1>>,
     <<"MetaData", 1>>, <<"MetaData", 2>>}

Streams ==
    {[message_name |-> id[1], version |-> id[2], side |-> s] :
        id \in protocol_info, s \in {"request", "response"}}

Responds == stream.side = "response"
Blocks == {"BlocksByRange", "BlocksByRoot"}

has_context_bytes == stream.version = 2 /\ stream.message_name \in Blocks

rpc_block_limits_by_fork ==
    [min |-> CHOOSE l \in BlockLengths[KnownForks[1]] :
                \A k \in BlockLengths[KnownForks[1]] : l <= k,
     max |-> CHOOSE l \in BlockLengths[CurrentFork] :
                \A k \in BlockLengths[CurrentFork] : l >= k]

Exactly(length) == [min |-> length, max |-> length]

rpc_request_limits ==
    CASE stream.message_name = "BlocksByRoot" ->
            [min |-> 0, max |-> BLOCKS_BY_ROOT_REQUEST_MAX]
      [] stream.message_name = "MetaData" -> Exactly(0)
      [] OTHER -> Exactly(FixedLengths[stream.message_name])

rpc_response_limits ==
    CASE stream.message_name \in Blocks -> rpc_block_limits_by_fork
      [] stream.message_name = "Goodbye" -> Exactly(0)
      [] stream.message_name = "MetaData" ->
            [min |-> FixedLengths["MetaDataV1"], max |-> FixedLengths["MetaDataV2"]]
      [] OTHER -> Exactly(FixedLengths[stream.message_name])

is_out_of_bounds(limits, length) ==
    length > limits.max \/ length > max_packet_size \/ length < limits.min

(* The check of a chunk's length prefix: errors have their own limits. *)
LengthRefused(error, length) ==
    is_out_of_bounds(
        IF error THEN [min |-> 0, max |-> ERROR_TYPE_MAX]
        ELSE IF Responds THEN rpc_response_limits ELSE rpc_request_limits,
        length)

(* from_ssz_bytes accepts a buffer of this length as the payload that the  *)
(* protocol, its version and, for blocks, the fork stand for.  Version 1   *)
(* decodes every block as one of the first fork, which a block of a later  *)
(* fork never is, whatever its length; of bytes of unknown origin nothing  *)
(* but the length is known.                                                *)
SszDecodes(fork, length) ==
    Responds =>
    CASE stream.message_name \in Blocks ->
            IF stream.version = 1
            THEN fork \in {KnownForks[1], Unknown} /\ length \in BlockLengths[KnownForks[1]]
            ELSE length \in BlockLengths[fork]
      [] stream.message_name = "Goodbye" -> FALSE
      [] stream.message_name = "MetaData" ->
            length = FixedLengths[IF stream.version = 1 THEN "MetaDataV1"
                                                        ELSE "MetaDataV2"]
      [] OTHER -> TRUE

-----------------------------------------------------------------------------
(* Encoding                                                                *)

(* What the code hands to the encoder: requests with their payload's       *)
(* length, error responses with any message, successes of the protocol,    *)
(* a block of any fork whatever the version of the protocol.               *)
Item(code, fork, length) ==
    [code |-> code, fork |-> fork, length |-> length, size |-> Compressed(length)]

Requests ==
    {Item("none", Unknown, length) : length \in
        rpc_request_limits.min .. rpc_request_limits.max}

Errors == {Item("error", Unknown, length) : length \in 0 .. ERROR_TYPE_MAX}

Successes ==
    CASE stream.message_name \in Blocks ->
            UNION {{Item("success", f, length) : length \in BlockLengths[f]} :
                      f \in ToSet(KnownForks)}
      [] stream.message_name = "Goodbye" -> {}
      [] stream.message_name = "MetaData" ->
            {Item("success", Unknown,
                  FixedLengths[IF stream.version = 1 THEN "MetaDataV1"
                                                     ELSE "MetaDataV2"])}
      [] OTHER -> {Item("success", Unknown, FixedLengths[stream.message_name])}

Items == IF Responds THEN Errors \cup Successes ELSE Requests

(* Chunks of a peer with other software: any code and context, a length    *)
(* prefix of its choice, and a body that is well compressed or longer      *)
(* than any compression of that length.                                    *)
ForeignSizes(length) ==
    {Compressed(length)} \cup (IF length = 0 THEN {} ELSE {MaxCompressLen(length) + 1})

Foreign ==
    UNION {{[code |-> c, fork |-> f, length |-> length, size |-> s] :
               c \in IF Responds THEN {"success", "error"} ELSE {"none"},
               f \in IF has_context_bytes THEN ToSet(KnownForks) \cup {Unknown}
                                          ELSE {Unknown},
               s \in ForeignSizes(length)} :
           length \in ForeignLengths}

Bytes(part, n, count) == [i \in 1 .. count |-> <<part, n>>]

(* context_bytes: only successful responses of a protocol with context. *)
HasContext(chunk) == has_context_bytes /\ chunk.code = "success"

code_bytes(chunk, n) == IF chunk.code = "none" THEN <<>> ELSE Bytes("code", n, 1)

payload_bytes(chunk, n) ==
    (IF HasContext(chunk) THEN Bytes("context", n, CONTEXT_BYTES_LEN) ELSE <<>>)
        \o Bytes("length", n, VarintLen(chunk.length))
        \o Bytes("body", n, chunk.size)

(* A response's encoder clears the buffer it writes into; a request's does *)
(* not.  A MetaData request has no bytes.  A payload over max_packet_size  *)
(* is refused after the response code has been written.                    *)
encode(chunk, n, buffer) ==
    LET start == IF Responds THEN code_bytes(chunk, n) ELSE buffer
    IN  IF \/ chunk.length > max_packet_size
           \/ ~Responds /\ stream.message_name = "MetaData"
        THEN start
        ELSE start \o payload_bytes(chunk, n)

(* Mutant: the next message is encoded before the last one is flushed. *)
WriterReady_Unflushed == ~closing /\ Len(sent) < MaxChunks

(* send_message_to_inbound_substream, upgrade_outbound: send is awaited,   *)
(* so dst has been flushed when the next message is encoded.  The          *)
(* substream is closed after an error, the last chunk or a failed send.    *)
WriterReady == ~closing /\ dst = <<>> /\ Len(sent) < MaxChunks

Send(chunk, last_chunk) ==
    /\ WriterReady
    /\ ~Responds => last_chunk
    /\ sent' = Append(sent, chunk)
    /\ dst' = encode(chunk, Len(sent) + 1, dst)
    /\ broken' = (chunk.length > max_packet_size)
    /\ closing' = (last_chunk \/ chunk.code = "error" \/ broken')
    /\ UNCHANGED <<stream, src, eof, decoder, decoded, reader>>

(* StreamTermination. *)
Terminate ==
    /\ WriterReady /\ Responds
    /\ closing' = TRUE
    /\ UNCHANGED <<stream, sent, dst, broken, src, eof, decoder, decoded, reader>>

(* The other side of the substream is not this program. *)
SendForeign(chunk) ==
    /\ WriterReady
    /\ ~Responds => stream.message_name # "MetaData"
    /\ sent' = Append(sent, chunk)
    /\ dst' = code_bytes(chunk, Len(sent) + 1) \o payload_bytes(chunk, Len(sent) + 1)
    /\ closing' = ~Responds
    /\ UNCHANGED <<stream, broken, src, eof, decoder, decoded, reader>>

(* The network delivers the next k bytes, or breaks. *)
Deliver(k) ==
    /\ reader \in {"reading", "dry"}
    /\ k \in 1 .. Len(dst)
    /\ src' = src \o SubSeq(dst, 1, k)
    /\ dst' = SubSeq(dst, k + 1, Len(dst))
    /\ reader' = IF reader = "dry" THEN "reading" ELSE reader
    /\ UNCHANGED <<stream, sent, closing, broken, eof, decoder, decoded>>

Cut ==
    /\ dst # <<>>
    /\ dst' = <<>>
    /\ closing' = TRUE
    /\ broken' = TRUE
    /\ UNCHANGED <<stream, sent, src, eof, decoder, decoded, reader>>

Eof ==
    /\ closing /\ dst = <<>> /\ ~eof
    /\ eof' = TRUE
    /\ reader' = IF reader = "dry" THEN "reading" ELSE reader
    /\ UNCHANGED <<stream, writer, src, decoder, decoded>>

-----------------------------------------------------------------------------
(* Decoding: a call of decode works through the parts of a chunk on a      *)
(* state d of the decoder; out is "go" until a part decides the result.    *)

Chunk(byte) == sent[byte[2]]
Run(part, bytes) == SelectInSeq(bytes, LAMBDA b : b[1] # part) \* 0 when all are
Leading(part, bytes) == IF Run(part, bytes) = 0 THEN Len(bytes) ELSE Run(part, bytes) - 1
Drop(bytes, k) == SubSeq(bytes, k + 1, Len(bytes))

(* Mutant: one byte more is waited for. *)
decode_code_Waits(d) ==
    IF ~Responds THEN d
    ELSE IF Len(d.src) <= 2 THEN [d EXCEPT !.out = "none"]
    ELSE IF d.code # <<>> THEN d
    ELSE [d EXCEPT !.code = Head(d.src), !.src = Tail(d.src)]

(* BaseOutboundCodec::decode, up to the choice of the inner decoder. *)
decode_code(d) ==
    IF ~Responds THEN d
    ELSE IF Len(d.src) <= 1 THEN [d EXCEPT !.out = "none"]
    ELSE IF d.code # <<>> THEN d
    ELSE [d EXCEPT !.code = Head(d.src), !.src = Tail(d.src)]

IsError(d) == Responds /\ Chunk(d.code).code = "error"

(* The context bytes, for a response that is not an error. *)
decode_context(d) ==
    IF d.out # "go" \/ ~has_context_bytes \/ ~Responds \/ IsError(d) \/ d.fork # <<>> THEN d
    ELSE IF Len(d.src) < CONTEXT_BYTES_LEN THEN [d EXCEPT !.out = "none"]
    ELSE LET read == [d EXCEPT !.fork = Head(d.src), !.src = Drop(d.src, CONTEXT_BYTES_LEN)]
         IN  IF Chunk(read.fork).fork = Unknown THEN [read EXCEPT !.out = "error", !.fork = <<>>]
             ELSE read

(* handle_length and the bounds check: the prefix is consumed whole. *)
handle_length(d) ==
    IF d.out # "go" \/ d.len # <<>> THEN d
    ELSE IF d.src = <<>> THEN [d EXCEPT !.out = "none"]
    ELSE IF Leading("length", d.src) < VarintLen(Chunk(Head(d.src)).length)
    THEN [d EXCEPT !.out = IF Leading("length", d.src) = Len(d.src) THEN "none" ELSE "error"]
    ELSE [d EXCEPT !.len = Head(d.src),
                   !.src = Drop(d.src, VarintLen(Chunk(Head(d.src)).length))]

check_length(d) ==
    IF d.out = "go" /\ LengthRefused(IsError(d), Chunk(d.len).length)
    THEN [d EXCEPT !.out = "error"] ELSE d

(* The snappy reader sees at most MaxCompressLen bytes of src.  It reads   *)
(* the whole body, meets the end of src and waits, or meets its limit.     *)
handle_error(available, limit) == IF available >= limit THEN "error" ELSE "none"

decode_body(d) ==
    IF d.out # "go" THEN d
    ELSE LET length == Chunk(d.len).length
             size == Chunk(d.len).size
             limit == MaxCompressLen(length)
         IN  IF size <= limit /\ Leading("body", d.src) >= size
             THEN [d EXCEPT !.src = Drop(d.src, size), !.out = "some"]
             ELSE [d EXCEPT !.out = handle_error(Len(d.src), limit)]

(* A body that was read frees the length, and a version 2 block takes the  *)
(* fork's name; the payload may still fail to be one.                      *)
finish(d) ==
    IF d.out # "some" THEN d
    ELSE [d EXCEPT !.out = IF IsError(d) \/ SszDecodes(
                                  Chunk(IF d.fork = <<>> THEN d.len ELSE d.fork).fork,
                                  Chunk(d.len).length)
                           THEN "some" ELSE "error"]

decode(d) ==
    finish(decode_body(check_length(handle_length(decode_context(decode_code(d))))))

(* Mutant: the fork is not taken. *)
ResetFork_Kept(d) == d.fork

(* What decode leaves of the state of a chunk it has returned. *)
ResetFork(d) == IF d.out = "some" /\ ~IsError(d) THEN <<>> ELSE d.fork

ResetCode(d) == IF d.out = "some" THEN <<>> ELSE d.code

ResetLen(d) == IF d.out = "some" THEN <<>> ELSE d.len

(* Framed's poll: decode, then decode_eof at the end of the stream, which  *)
(* fails if bytes are left.  A request's stream is read for one item; one  *)
(* that ends before it is an IncompleteStream.                             *)
Outcome(d) ==
    CASE d.out = "error" -> "failed"
      [] d.out = "some" -> IF Responds THEN "reading" ELSE "ended"
      [] d.out = "none" /\ ~eof -> "dry"
      [] OTHER -> IF d.src = <<>> /\ Responds THEN "ended" ELSE "failed"

Poll ==
    /\ reader = "reading"
    /\ ~Responds => stream.message_name # "MetaData"
    /\ LET d == decode([src |-> src, code |-> current_response_code,
                        fork |-> fork_name, len |-> len, out |-> "go"])
       IN  /\ src' = d.src
           /\ current_response_code' = ResetCode(d)
           /\ fork_name' = ResetFork(d)
           /\ len' = ResetLen(d)
           /\ decoded' = IF d.out = "some"
                         THEN Append(decoded, [code |-> d.code, fork |-> d.fork, len |-> d.len])
                         ELSE decoded
           /\ reader' = Outcome(d)
    /\ UNCHANGED <<stream, writer, eof>>

(* upgrade_inbound: a MetaData request is complete before any byte. *)
TakeMetaData ==
    /\ reader = "reading"
    /\ ~Responds /\ stream.message_name = "MetaData"
    /\ reader' = "ended"
    /\ UNCHANGED <<stream, writer, src, eof, decoder, decoded>>

-----------------------------------------------------------------------------
CodecInit ==
    /\ stream \in Streams
    /\ sent = <<>> /\ dst = <<>> /\ closing = FALSE /\ broken = FALSE
    /\ src = <<>> /\ eof = FALSE
    /\ current_response_code = <<>> /\ fork_name = <<>> /\ len = <<>>
    /\ decoded = <<>>
    /\ reader = "reading"

CodecNext ==
    \/ \E chunk \in Items, last_chunk \in BOOLEAN : Send(chunk, last_chunk)
    \/ Terminate
    \/ \E chunk \in Foreign : SendForeign(chunk)
    \/ \E k \in 1 .. Len(dst) : Deliver(k)
    \/ Cut
    \/ Eof
    \/ Poll
    \/ TakeMetaData

CodecSpec == CodecInit /\ [][CodecNext]_vars

-----------------------------------------------------------------------------
(* What the decoder keeps between two calls are bytes of the right part:   *)
(* no byte of a chunk is taken for another part of it, or of the next      *)
(* chunk's.  current_response_code and len are reset with every chunk.     *)
CodecTypeOK ==
    LET Kept(part) == {<<>>} \cup {<<part, n>> : n \in 1 .. Len(sent)}
    IN  /\ stream \in Streams
        /\ closing \in BOOLEAN /\ broken \in BOOLEAN /\ eof \in BOOLEAN
        /\ reader \in {"reading", "dry", "failed", "ended"}
        /\ ToSet(dst \o src) \subseteq
              {"code", "context", "length", "body"} \X (1 .. Len(sent))
        /\ current_response_code \in Kept("code")
        /\ fork_name \in Kept("context")
        /\ len \in Kept("length")

(* The i-th item decode returns is made of the response code, the context  *)
(* and the length of the i-th chunk that was encoded, however the network  *)
(* cuts the stream: no chunk is lost in the encoder's buffer, which encode *)
(* clears, and none is decoded with what an earlier one left behind.       *)
InOrder ==
    /\ CodecTypeOK
    /\ \A i \in 1 .. Len(decoded) :
           decoded[i] = [code |-> IF Responds THEN <<"code", i>> ELSE <<>>,
                         fork |-> IF HasContext(sent[i]) THEN <<"context", i>> ELSE <<>>,
                         len |-> <<"length", i>>]

(* A block of a later fork on a stream of version 1. *)
LaterFork(chunk) ==
    /\ stream.version = 1 /\ stream.message_name \in Blocks
    /\ chunk.fork \in ToSet(KnownForks) \ {KnownForks[1]}

(* Written by our encoder, and for this version of the protocol. *)
Ours(chunk) == chunk \in Items /\ chunk.length <= max_packet_size /\ ~LaterFork(chunk)

(* The stream so far holds nothing but such chunks. *)
OursOnly == \A n \in 1 .. Len(sent) : Ours(sent[n])

(* decode fails, and the peer is reported, only when the stream broke or   *)
(* at a chunk that our own encoder did not write: whatever came before it  *)
(* has been returned.  The one thing our encoder writes and decode refuses *)
(* is a block of a later fork on a stream of version 1.                    *)
RejectsOnlyForeign ==
    reader = "failed" =>
        \/ broken
        \/ Len(decoded) < Len(sent) /\ ~Ours(sent[Len(decoded) + 1])

(* A reader waits only for what can still come.  When all bytes of our     *)
(* encoder have arrived, every chunk has been returned: one is decoded as  *)
(* soon as its last byte is there, the shortest (an error without a        *)
(* message: two bytes) included.  And a foreign chunk is waited for only   *)
(* with a length inside the protocol's bounds and fewer bytes buffered     *)
(* than that length can compress to; before the length, with fewer bytes   *)
(* than the part that is due (two for the response code).                  *)
WaitsOnlyForMore ==
    reader = "dry" =>
        /\ dst = <<>> /\ ~broken /\ OursOnly => Len(decoded) = Len(sent)
        /\ IF len = <<>> THEN \/ Len(src) < 2
                              \/ Len(src) < CONTEXT_BYTES_LEN
                              \/ Len(src) < MaxVarintLen
           ELSE LET length == Chunk(len).length
                IN  /\ length <= max_packet_size
                    /\ Len(src) < MaxCompressLen(length)
=============================================================================
