---------------------------- MODULE CodecProofs ----------------------------
(***************************************************************************)
(* Proofs about module Codec, for every set of forks and lengths, every    *)
(* compressor within the assumptions and any number of chunks: the chunks  *)
(* are decoded in the order they were encoded in (InOrder), a reader waits *)
(* only for bytes that can still come (WaitsOnlyForMore), and of what our  *)
(* own encoder wrote only a block of a later fork on a stream of version 1 *)
(* is refused (RejectsOnlyForeign).                                        *)
(*                                                                         *)
(* The inductive invariant CodecInv says where in the stream the reader    *)
(* is: there is a function at that gives the place of every chunk in the   *)
(* sequence of all bytes, and what is in the read and write buffers are    *)
(* the bytes from the reader's place on, cut short only if the stream is   *)
(* broken.                                                                 *)
(***************************************************************************)
EXTENDS Codec, SequenceTheorems, TLAPS

Parts == {"code", "context", "length", "body"}
Octets == Parts \X (1 .. Len(sent))
Kept(part) == {<<>>} \cup {<<part, n>> : n \in 1 .. Len(sent)}

ChunkType ==
    [code : {"none", "success", "error"}, fork : ToSet(KnownForks) \cup {Unknown},
     length : Lengths, size : Nat]

MetaDataRequest == ~Responds /\ stream.message_name = "MetaData"

(* The bytes of a chunk, in their order, and which part the j-th is of. *)
CodeLen == IF Responds THEN 1 ELSE 0
ContextLen(chunk) == IF HasContext(chunk) THEN CONTEXT_BYTES_LEN ELSE 0
BeforeLength(chunk) == CodeLen + ContextLen(chunk)
HeadLen(chunk) == BeforeLength(chunk) + VarintLen(chunk.length)
WireLen(chunk) == IF MetaDataRequest THEN 0 ELSE HeadLen(chunk) + chunk.size

WirePart(chunk, j) ==
    IF j <= CodeLen THEN "code"
    ELSE IF j <= BeforeLength(chunk) THEN "context"
    ELSE IF j <= HeadLen(chunk) THEN "length" ELSE "body"

(* The chunk being decoded, and how many of its bytes the decoder keeps. *)
Current == Len(decoded) + 1

Used(code, fork, length, chunk) ==
    (IF code = <<>> THEN 0 ELSE 1)
        + (IF fork = <<>> THEN 0 ELSE CONTEXT_BYTES_LEN)
        + (IF length = <<>> THEN 0 ELSE VarintLen(chunk.length))

UsedNow == Used(current_response_code, fork_name, len, sent[Current])

Alive == reader \in {"reading", "dry"}

(* Types, and what the writer's flags say of its buffer. *)
CodecTypes ==
    /\ stream \in Streams
    /\ closing \in BOOLEAN /\ broken \in BOOLEAN /\ eof \in BOOLEAN
    /\ reader \in {"reading", "dry", "failed", "ended"}
    /\ sent \in Seq(ChunkType)
    /\ \A n \in 1 .. Len(sent) : sent[n].code = "none" <=> ~Responds
    /\ dst \in Seq(Octets)
    /\ src \in Seq(Octets)
    /\ current_response_code \in Kept("code")
    /\ fork_name \in Kept("context")
    /\ len \in Kept("length")
    /\ decoded \in Seq([code : Kept("code"), fork : Kept("context"), len : Kept("length")])
    /\ Len(decoded) <= Len(sent)

WriterInv ==
    /\ broken => closing
    /\ eof => closing /\ dst = <<>>
    /\ ~Responds => Len(sent) <= 1 /\ (closing <=> Len(sent) = 1)
    /\ MetaDataRequest => reader \notin {"dry", "failed"}

(* The places of the chunks in the stream, and what the buffers hold. *)
Places(at) ==
    /\ at \in [1 .. Len(sent) + 1 -> Nat]
    /\ \A n \in 1 .. Len(sent) : at[n + 1] = at[n] + WireLen(sent[n])
    /\ \A m, n \in 1 .. Len(sent) + 1 : m <= n => at[m] <= at[n]

Laid(at) ==
    /\ \A n \in 1 .. Len(sent) : \A i \in 1 .. Len(src \o dst) :
          at[n] < at[Current] + UsedNow + i /\ at[Current] + UsedNow + i <= at[n + 1] =>
              (src \o dst)[i] = <<WirePart(sent[n], at[Current] + UsedNow + i - at[n]), n>>
    /\ at[Current] + UsedNow + Len(src \o dst) <= at[Len(sent) + 1]
    /\ ~broken => at[Current] + UsedNow + Len(src \o dst) = at[Len(sent) + 1]

Layout == \E at : Places(at) /\ Laid(at)

(* What a call of decode works on, and what it has consumed of a chunk. *)
Decoder ==
    [src : Seq(Octets), code : Kept("code"), fork : Kept("context"), len : Kept("length"),
     out : {"go", "none", "some", "error"}]

UsedOf(d, x) == Used(d.code, d.fork, d.len, x)

(* The bytes after the first u of the chunk x, the c-th, and the first one *)
(* of the next.                                                            *)
View(bytes, u, x, c) ==
    \A i \in 1 .. Len(bytes) :
        /\ u + i <= WireLen(x) => bytes[i] = <<WirePart(x, u + i), c>>
        /\ u + i = WireLen(x) + 1 => bytes[i][1] = "code"

(* What the decoder keeps of the chunk x, the c-th, that it is in. *)
Holds(x, c, code, fork, length, bytes) ==
    /\ code \in {<<>>, <<"code", c>>}
    /\ fork \in {<<>>, <<"context", c>>}
    /\ length \in {<<>>, <<"length", c>>}
    /\ code # <<>> => Responds
    /\ fork # <<>> => HasContext(x) /\ code # <<>>
    /\ length # <<>> =>
          /\ Responds => code # <<>>
          /\ HasContext(x) => fork # <<>>
          /\ ~LengthRefused(x.code = "error", x.length)
          /\ x.size # 0
    /\ code # <<>> /\ length = <<>> /\ ~HasContext(x) =>
          bytes # <<>> /\ VarintLen(x.length) >= 2

Held ==
    IF Current = Len(sent) + 1
    THEN current_response_code = <<>> /\ fork_name = <<>> /\ len = <<>>
    ELSE Holds(sent[Current], Current, current_response_code, fork_name, len, src)

(* What a reader that waits has: too few bytes for the chunk it is in, if  *)
(* that is one of ours, and few enough in any case.                        *)
FewBytes(length, count) ==
    IF length = <<>> THEN count < 2 \/ count < CONTEXT_BYTES_LEN \/ count < MaxVarintLen
    ELSE Chunk(length).length <= max_packet_size /\ count < MaxCompressLen(Chunk(length).length)

Waiting ==
    reader = "dry" =>
        /\ Current <= Len(sent) /\ Ours(sent[Current]) =>
              UsedNow + Len(src) < WireLen(sent[Current])
        /\ FewBytes(len, Len(src))

Returned ==
    \A i \in 1 .. Len(decoded) :
        decoded[i] = [code |-> IF Responds THEN <<"code", i>> ELSE <<>>,
                      fork |-> IF HasContext(sent[i]) THEN <<"context", i>> ELSE <<>>,
                      len |-> <<"length", i>>]

CodecInv ==
    /\ CodecTypes
    /\ WriterInv
    /\ Alive => Layout /\ Held
    /\ Alive /\ ~Responds => decoded = <<>>
    /\ Waiting
    /\ Returned
    /\ RejectsOnlyForeign

-----------------------------------------------------------------------------
(* The operators on bytes.                                                 *)

(* Leading counts the bytes of a part that a buffer starts with. *)
LEMMA LeadingIs ==
    ASSUME NEW T, NEW part, NEW s \in Seq(T), NEW k \in 0 .. Len(s),
           \A i \in 1 .. k : s[i][1] = part,
           k < Len(s) => s[k + 1][1] # part
    PROVE  Leading(part, s) = k
<1> DEFINE I == {i \in 1 .. Len(s) : s[i][1] # part}
<1>1. Run(part, s) = IF I # {} THEN Min(I) ELSE 0
  BY DEF Run, SelectInSeq
<1>2. CASE k = Len(s)
  BY <1>1, <1>2 DEF Leading
<1>3. CASE k < Len(s)
  <2>1. k + 1 \in I /\ \A i \in I : k + 1 <= i
    BY <1>3
  <2>2. Min(I) = k + 1
    BY <2>1 DEF Min
  <2>3. Run(part, s) = k + 1
    BY <1>1, <2>1, <2>2
  <2> QED BY <2>3 DEF Leading
<1> QED BY <1>2, <1>3

(* Drop leaves the bytes after the k-th. *)
LEMMA DropIs ==
    ASSUME NEW S, NEW s \in Seq(S), NEW k \in 0 .. Len(s)
    PROVE  /\ Drop(s, k) \in Seq(S)
           /\ Len(Drop(s, k)) = Len(s) - k
           /\ \A i \in 1 .. Len(s) - k : Drop(s, k)[i] = s[k + i]
BY DEF Drop

(* Concatenation, byte by byte. *)
LEMMA ConcatIs ==
    ASSUME NEW S, NEW s \in Seq(S), NEW t \in Seq(S)
    PROVE  /\ s \o t \in Seq(S)
           /\ Len(s \o t) = Len(s) + Len(t)
           /\ \A i \in 1 .. Len(s) + Len(t) :
                 (s \o t)[i] = IF i <= Len(s) THEN s[i] ELSE t[i - Len(s)]
OBVIOUS

(* Bytes writes count bytes of one part. *)
LEMMA BytesIs ==
    ASSUME NEW part, NEW n, NEW count \in Nat, NEW T, <<part, n>> \in T
    PROVE  /\ Bytes(part, n, count) \in Seq(T)
           /\ Len(Bytes(part, n, count)) = count
           /\ \A i \in 1 .. count : Bytes(part, n, count)[i] = <<part, n>>
<1>1. Bytes(part, n, count) \in [1 .. count -> T]
  BY DEF Bytes
<1> QED BY <1>1 DEF Bytes

(* Four sequences one after the other. *)
LEMMA FourParts ==
    ASSUME NEW T, NEW a \in Seq(T), NEW b \in Seq(T), NEW c \in Seq(T), NEW d \in Seq(T),
           NEW w
    PROVE  w = a \o ((b \o c) \o d) =>
           /\ w \in Seq(T)
           /\ Len(w) = Len(a) + Len(b) + Len(c) + Len(d)
           /\ \A i \in 1 .. Len(a) : w[i] = a[i]
           /\ \A i \in 1 .. Len(b) : w[Len(a) + i] = b[i]
           /\ \A i \in 1 .. Len(c) : w[Len(a) + (Len(b) + i)] = c[i]
           /\ \A i \in 1 .. Len(d) : w[Len(a) + (Len(b) + Len(c) + i)] = d[i]
<1>a. HAVE w = a \o ((b \o c) \o d)
<1>1. PICK bc : bc = b \o c
  OBVIOUS
<1>2. /\ bc \in Seq(T) /\ Len(bc) = Len(b) + Len(c)
      /\ \A i \in 1 .. Len(b) : bc[i] = b[i]
      /\ \A i \in 1 .. Len(c) : bc[Len(b) + i] = c[i]
  BY <1>1
<1>2a. bc \in Seq(T)
  BY <1>2
<1>3. PICK bcd : bcd = bc \o d
  OBVIOUS
<1>4. /\ bcd \in Seq(T) /\ Len(bcd) = Len(bc) + Len(d)
      /\ \A i \in 1 .. Len(bc) : bcd[i] = bc[i]
      /\ \A i \in 1 .. Len(d) : bcd[Len(bc) + i] = d[i]
  BY <1>2a, <1>3
<1>4a. bcd \in Seq(T)
  BY <1>4
<1>5. w = a \o bcd
  BY <1>a, <1>1, <1>3
<1>6. /\ w \in Seq(T) /\ Len(w) = Len(a) + Len(bcd)
      /\ \A i \in 1 .. Len(a) : w[i] = a[i]
      /\ \A i \in 1 .. Len(bcd) : w[Len(a) + i] = bcd[i]
  BY <1>4a, <1>5
<1>7. ASSUME NEW i \in 1 .. Len(b)
      PROVE  w[Len(a) + i] = b[i]
  <2>1. i \in 1 .. Len(bc) /\ i \in 1 .. Len(bcd)
    BY <1>2, <1>4
  <2> QED BY <2>1, <1>2, <1>4, <1>6
<1>8. ASSUME NEW i \in 1 .. Len(c)
      PROVE  w[Len(a) + (Len(b) + i)] = c[i]
  <2>1. Len(b) + i \in 1 .. Len(bc) /\ Len(b) + i \in 1 .. Len(bcd)
    BY <1>2, <1>4
  <2> QED BY <2>1, <1>2, <1>4, <1>6
<1>9. ASSUME NEW i \in 1 .. Len(d)
      PROVE  w[Len(a) + (Len(b) + Len(c) + i)] = d[i]
  <2>1. Len(b) + Len(c) + i \in 1 .. Len(bcd) /\ Len(b) + Len(c) + i = Len(bc) + i
    BY <1>2, <1>4
  <2> QED BY <2>1, <1>4, <1>6
<1>10. Len(w) = Len(a) + Len(b) + Len(c) + Len(d)
  BY <1>2, <1>4, <1>6
<1> QED BY <1>6, <1>7, <1>8, <1>9, <1>10

-----------------------------------------------------------------------------
(* The sizes of a chunk.                                                   *)

(* What the assumptions say of a length that is sent. *)
LEMMA LengthFacts ==
    ASSUME NEW l \in Lengths
    PROVE  /\ l \in Nat
           /\ VarintLen(l) \in Nat /\ 1 <= VarintLen(l) /\ VarintLen(l) <= MaxVarintLen
           /\ MaxCompressLen(l) \in Nat /\ 2 <= MaxCompressLen(l)
           /\ Compressed(l) \in Nat /\ Compressed(l) <= MaxCompressLen(l)
           /\ Compressed(l) # 1 /\ (l # 0 => Compressed(l) # 0)
<1>1. l \in Nat
  <2>1. \/ l \in 0 .. ERROR_TYPE_MAX
        \/ l \in 0 .. BLOCKS_BY_ROOT_REQUEST_MAX
        \/ l \in UNION {BlockLengths[f] : f \in ToSet(KnownForks)}
        \/ l \in {FixedLengths[m] : m \in Fixed}
        \/ l \in ForeignLengths
    BY DEF Lengths
  <2>2. CASE l \in UNION {BlockLengths[f] : f \in ToSet(KnownForks)}
    BY <2>2, ForkAssumption
  <2>3. CASE l \in {FixedLengths[m] : m \in Fixed}
    BY <2>3, LengthAssumption
  <2>4. CASE l \in 0 .. ERROR_TYPE_MAX \/ l \in 0 .. BLOCKS_BY_ROOT_REQUEST_MAX
    BY <2>4, LengthAssumption
  <2>5. CASE l \in ForeignLengths
    BY <2>5, LengthAssumption
  <2> QED BY <2>1, <2>2, <2>3, <2>4, <2>5
<1> QED BY <1>1, CompressAssumption, LengthAssumption

(* The sizes of a chunk are numbers, and a chunk has at least one byte. *)
LEMMA ChunkFacts ==
    ASSUME NEW chunk \in ChunkType
    PROVE  /\ CodeLen \in Nat /\ ContextLen(chunk) \in Nat
           /\ BeforeLength(chunk) \in Nat /\ HeadLen(chunk) \in Nat
           /\ WireLen(chunk) \in Nat
           /\ VarintLen(chunk.length) \in Nat /\ VarintLen(chunk.length) >= 1
           /\ chunk.size \in Nat
           /\ ~MetaDataRequest => WireLen(chunk) >= 1
BY LengthFacts, LengthAssumption
   DEF ChunkType, CodeLen, ContextLen, BeforeLength, HeadLen, WireLen

-----------------------------------------------------------------------------
(* What is sent.                                                           *)

(* The values that a stream's protocol and direction have. *)
LEMMA StreamFacts ==
    ASSUME stream \in Streams
    PROVE  /\ stream.side \in {"request", "response"}
           /\ stream.version \in {1, 2}
           /\ stream.message_name \in
                 {"Status", "Goodbye", "BlocksByRange", "BlocksByRoot", "Ping", "MetaData"}
BY DEF Streams, protocol_info

(* The lengths of the messages of a fixed length. *)
LEMMA FixedFacts ==
    ASSUME NEW m \in Fixed
    PROVE  FixedLengths[m] \in Lengths /\ FixedLengths[m] \in Nat
BY LengthAssumption DEF Lengths

(* The blocks of a fork, and the limits over all of them. *)
LEMMA BlockFacts ==
    ASSUME NEW f \in ToSet(KnownForks), NEW l \in BlockLengths[f]
    PROVE  /\ l \in Lengths /\ l \in Nat /\ l # 0
           /\ rpc_block_limits_by_fork.min \in Nat /\ rpc_block_limits_by_fork.max \in Nat
           /\ rpc_block_limits_by_fork.min <= l
           /\ l <= rpc_block_limits_by_fork.max
<1>1. l \in Lengths /\ l \in Nat /\ l # 0
  BY ForkAssumption DEF Lengths
<1>2. KnownForks[1] \in ToSet(KnownForks) /\ CurrentFork \in ToSet(KnownForks)
  BY ForkAssumption DEF CurrentFork, Last, ToSet
<1>3. BlockLengths[KnownForks[1]] \subseteq Nat /\ BlockLengths[CurrentFork] \subseteq Nat
  BY <1>2, ForkAssumption
<1>4. PICK a \in BlockLengths[KnownForks[1]], b \in BlockLengths[CurrentFork] :
         \A g \in ToSet(KnownForks) : \A k \in BlockLengths[g] : a <= k /\ k <= b
  BY ForkAssumption
<1>5. /\ rpc_block_limits_by_fork.min \in BlockLengths[KnownForks[1]]
      /\ \A k \in BlockLengths[KnownForks[1]] : rpc_block_limits_by_fork.min <= k
  BY <1>2, <1>4 DEF rpc_block_limits_by_fork
<1>6. /\ rpc_block_limits_by_fork.max \in BlockLengths[CurrentFork]
      /\ \A k \in BlockLengths[CurrentFork] : rpc_block_limits_by_fork.max >= k
  BY <1>2, <1>3, <1>4 DEF rpc_block_limits_by_fork
<1>7. rpc_block_limits_by_fork.min <= a /\ b <= rpc_block_limits_by_fork.max
  BY <1>3, <1>4, <1>5, <1>6
<1>8. a <= l /\ l <= b
  BY <1>4
<1>9. a \in Nat /\ b \in Nat /\ rpc_block_limits_by_fork.min \in Nat
      /\ rpc_block_limits_by_fork.max \in Nat
  BY <1>3, <1>4, <1>5, <1>6
<1> QED BY <1>1, <1>7, <1>8, <1>9

(* A success of the protocol, and the fork its context names. *)
LEMMA SuccessFacts ==
    ASSUME stream \in Streams, NEW chunk \in Successes
    PROVE  \E f \in ToSet(KnownForks) \cup {Unknown}, l \in Lengths :
              /\ chunk = Item("success", f, l)
              /\ stream.message_name # "Goodbye"
              /\ stream.message_name \in Blocks =>
                    f \in ToSet(KnownForks) /\ l \in BlockLengths[f]
              /\ stream.message_name = "MetaData" =>
                    l = FixedLengths[IF stream.version = 1 THEN "MetaDataV1"
                                                           ELSE "MetaDataV2"]
              /\ stream.message_name \in {"Status", "Ping"} =>
                    l = FixedLengths[stream.message_name]
<1>1. CASE stream.message_name \in Blocks
  <2>1. stream.message_name # "Goodbye" /\ stream.message_name # "MetaData"
        /\ stream.message_name \notin {"Status", "Ping"}
    BY <1>1 DEF Blocks
  <2>2. PICK f \in ToSet(KnownForks) :
             chunk \in {Item("success", f, l) : l \in BlockLengths[f]}
    BY <1>1 DEF Successes, Blocks
  <2>3. PICK l \in BlockLengths[f] : chunk = Item("success", f, l)
    BY <2>2
  <2>4. l \in Lengths
    BY <2>3, BlockFacts
  <2> QED BY <2>1, <2>3, <2>4
<1>2. CASE stream.message_name = "MetaData"
  <2>1. PICK l : l = FixedLengths[IF stream.version = 1 THEN "MetaDataV1" ELSE "MetaDataV2"]
    OBVIOUS
  <2>2. chunk = Item("success", Unknown, l)
    BY <1>2, <2>1 DEF Successes, Blocks
  <2>3. l \in Lengths
    BY <2>1, FixedFacts DEF Fixed
  <2> QED BY <1>2, <2>1, <2>2, <2>3 DEF Blocks
<1>3. CASE stream.message_name \in {"Status", "Ping"}
  <2>1. chunk = Item("success", Unknown, FixedLengths[stream.message_name])
    BY <1>3 DEF Successes, Blocks
  <2>2. FixedLengths[stream.message_name] \in Lengths
    BY <1>3, FixedFacts DEF Fixed
  <2> QED BY <1>3, <2>1, <2>2 DEF Blocks
<1>4. CASE stream.message_name = "Goodbye"
  BY <1>4 DEF Successes, Blocks
<1> QED BY <1>1, <1>2, <1>3, <1>4, StreamFacts DEF Blocks

(* The limits of a request are those of what the code sends. *)
LEMMA RequestFacts ==
    ASSUME stream \in Streams
    PROVE  /\ rpc_request_limits.min \in Nat /\ rpc_request_limits.max \in Nat
           /\ rpc_request_limits.min .. rpc_request_limits.max \subseteq Lengths
<1>1. CASE stream.message_name = "BlocksByRoot"
  BY <1>1, LengthAssumption DEF rpc_request_limits, Lengths
<1>2. CASE stream.message_name = "MetaData"
  BY <1>2, LengthAssumption DEF rpc_request_limits, Exactly, Lengths
<1>3. CASE stream.message_name \in {"Status", "Goodbye", "BlocksByRange", "Ping"}
  <2>1. rpc_request_limits.min = FixedLengths[stream.message_name]
        /\ rpc_request_limits.max = FixedLengths[stream.message_name]
    BY <1>3 DEF rpc_request_limits, Exactly
  <2>2. FixedLengths[stream.message_name] \in Lengths
        /\ FixedLengths[stream.message_name] \in Nat
    BY <1>3, FixedFacts DEF Fixed
  <2> QED BY <2>1, <2>2
<1> QED BY <1>1, <1>2, <1>3, StreamFacts

(* What the code hands to the encoder is a chunk of the stream's           *)
(* direction.                                                              *)
LEMMA ItemFacts ==
    ASSUME stream \in Streams, NEW chunk \in Items
    PROVE  /\ chunk \in ChunkType
           /\ chunk.code = "none" <=> ~Responds
           /\ chunk.size = Compressed(chunk.length)
<1>1. CASE ~Responds
  <2>1. PICK l \in Lengths : chunk = Item("none", Unknown, l)
    BY <1>1, RequestFacts DEF Items, Requests
  <2> QED BY <1>1, <2>1, LengthFacts DEF Item, ChunkType
<1>2. CASE Responds /\ chunk \in Errors
  <2>1. PICK l \in 0 .. ERROR_TYPE_MAX : chunk = Item("error", Unknown, l)
    BY <1>2 DEF Errors
  <2>2. l \in Lengths
    BY DEF Lengths
  <2> QED BY <1>2, <2>1, <2>2, LengthFacts DEF Item, ChunkType
<1>3. CASE Responds /\ chunk \in Successes
  <2>1. PICK f \in ToSet(KnownForks) \cup {Unknown}, l \in Lengths :
           chunk = Item("success", f, l)
    BY <1>3, SuccessFacts
  <2> QED BY <1>3, <2>1, LengthFacts DEF Item, ChunkType
<1> QED BY <1>1, <1>2, <1>3 DEF Items

(* So is what a foreign peer sends. *)
LEMMA ForeignFacts ==
    ASSUME stream \in Streams, NEW chunk \in Foreign
    PROVE  /\ chunk \in ChunkType
           /\ chunk.code = "none" <=> ~Responds
<1>1. PICK length \in ForeignLengths,
           c \in IF Responds THEN {"success", "error"} ELSE {"none"},
           f \in IF has_context_bytes THEN ToSet(KnownForks) \cup {Unknown} ELSE {Unknown} :
         \E s \in ForeignSizes(length) :
             chunk = [code |-> c, fork |-> f, length |-> length, size |-> s]
  BY DEF Foreign
<1>2. length \in Lengths
  BY DEF Lengths
<1>3. PICK s \in ForeignSizes(length) :
         chunk = [code |-> c, fork |-> f, length |-> length, size |-> s]
  BY <1>1
<1>4. s \in Nat
  BY <1>2, LengthFacts DEF ForeignSizes
<1> QED BY <1>1, <1>2, <1>3, <1>4 DEF ChunkType

(* The limits of a payload are those of the direction. *)
LEMMA PayloadLimits ==
    ASSUME NEW code, code # "error", NEW l \in Nat, l <= max_packet_size,
           NEW limits, limits = IF Responds THEN rpc_response_limits ELSE rpc_request_limits,
           limits.min \in Nat, limits.max \in Nat, limits.min <= l, l <= limits.max
    PROVE  ~LengthRefused(code = "error", l)
<1>1. limits = IF code = "error" THEN [min |-> 0, max |-> ERROR_TYPE_MAX]
               ELSE IF Responds THEN rpc_response_limits ELSE rpc_request_limits
  OBVIOUS
<1>2. LengthRefused(code = "error", l) = is_out_of_bounds(limits, l)
  BY <1>1, Zenon DEF LengthRefused
<1>3. ~is_out_of_bounds(limits, l)
  BY LengthAssumption DEF is_out_of_bounds
<1> QED BY <1>2, <1>3, Zenon

(* What our encoder sends whole, and for the version of the protocol, has  *)
(* a length within the limits, a payload that decodes and, if there is     *)
(* context, a fork that is known.                                          *)
LEMMA OursAccepted ==
    ASSUME stream \in Streams, NEW chunk, Ours(chunk)
    PROVE  /\ ~LengthRefused(chunk.code = "error", chunk.length)
           /\ chunk.code = "error" \/ SszDecodes(chunk.fork, chunk.length)
           /\ HasContext(chunk) => chunk.fork # Unknown /\ chunk.size >= 2
           /\ chunk.size = Compressed(chunk.length)
           /\ chunk.size <= MaxCompressLen(chunk.length) /\ chunk.size # 1
<1> USE DEF Ours
<1>1. /\ chunk \in ChunkType /\ chunk.size = Compressed(chunk.length)
      /\ chunk.length \in Nat /\ chunk.length <= max_packet_size
      /\ chunk.size \in Nat
      /\ chunk.size <= MaxCompressLen(chunk.length) /\ chunk.size # 1
      /\ chunk.length # 0 => chunk.size # 0
  BY ItemFacts, LengthFacts DEF ChunkType
<1>2. CASE ~Responds
  <2>1. PICK l \in rpc_request_limits.min .. rpc_request_limits.max :
           chunk = Item("none", Unknown, l)
    BY <1>2 DEF Items, Requests
  <2>2. chunk.length >= rpc_request_limits.min /\ chunk.length <= rpc_request_limits.max
        /\ chunk.code = "none"
    BY <2>1, RequestFacts DEF Item
  <2>3. ~LengthRefused(chunk.code = "error", chunk.length)
    BY <1>1, <1>2, <2>2, RequestFacts, PayloadLimits
  <2>4. ~HasContext(chunk) /\ SszDecodes(chunk.fork, chunk.length)
    BY <1>2, <2>2 DEF HasContext, SszDecodes
  <2> QED BY <1>1, <2>3, <2>4
<1>3. CASE Responds /\ chunk \in Errors
  <2>1. chunk.code = "error" /\ chunk.length <= ERROR_TYPE_MAX
    BY <1>3, LengthAssumption DEF Errors, Item
  <2> QED BY <1>1, <2>1, LengthAssumption DEF LengthRefused, is_out_of_bounds, HasContext
<1>4. CASE Responds /\ chunk \in Successes
  <2>1. PICK f \in ToSet(KnownForks) \cup {Unknown}, l \in Lengths :
              /\ chunk = Item("success", f, l)
              /\ stream.message_name # "Goodbye"
              /\ stream.message_name \in Blocks =>
                    f \in ToSet(KnownForks) /\ l \in BlockLengths[f]
              /\ stream.message_name = "MetaData" =>
                    l = FixedLengths[IF stream.version = 1 THEN "MetaDataV1"
                                                           ELSE "MetaDataV2"]
              /\ stream.message_name \in {"Status", "Ping"} =>
                    l = FixedLengths[stream.message_name]
    BY <1>4, SuccessFacts
  <2>2. chunk.code = "success" /\ chunk.fork = f /\ chunk.length = l /\ l \in Nat
    BY <1>1, <2>1 DEF Item
  <2>3. CASE stream.message_name \in Blocks
    <3>1. /\ l # 0
          /\ rpc_block_limits_by_fork.min \in Nat /\ rpc_block_limits_by_fork.max \in Nat
          /\ rpc_block_limits_by_fork.min <= l /\ l <= rpc_block_limits_by_fork.max
      BY <2>1, <2>3, BlockFacts
    <3>2. rpc_response_limits = rpc_block_limits_by_fork
      BY <2>3 DEF rpc_response_limits, Blocks
    <3>3. ~LengthRefused(chunk.code = "error", chunk.length)
      BY <1>1, <1>4, <2>2, <3>1, <3>2, PayloadLimits
    <3>4. SszDecodes(f, l)
      <4>1. stream.version = 1 => f = KnownForks[1]
        BY <2>1, <2>2, <2>3 DEF LaterFork
      <4> QED BY <1>4, <2>1, <2>3, <4>1 DEF SszDecodes, Blocks
    <3>5. f # Unknown
      BY <2>1, <2>3, ForkAssumption
    <3> QED BY <1>1, <2>2, <3>1, <3>3, <3>4, <3>5
  <2>4. CASE stream.message_name = "MetaData"
    <3>1. PICK m \in {"MetaDataV1", "MetaDataV2"} :
             m = (IF stream.version = 1 THEN "MetaDataV1" ELSE "MetaDataV2")
      OBVIOUS
    <3>2. l = FixedLengths[m]
      BY <2>1, <2>4, <3>1
    <3>3. /\ rpc_response_limits.min = FixedLengths["MetaDataV1"]
          /\ rpc_response_limits.max = FixedLengths["MetaDataV2"]
      BY <2>4 DEF rpc_response_limits, Blocks
    <3>4. ~LengthRefused(chunk.code = "error", chunk.length)
      BY <1>1, <1>4, <2>2, <3>2, <3>3, FixedFacts, LengthAssumption, PayloadLimits
         DEF Fixed
    <3>5. \A g : SszDecodes(g, l)
      BY <2>4, <3>1, <3>2 DEF SszDecodes, Blocks
    <3>6. ~HasContext(chunk)
      BY <2>4 DEF HasContext, has_context_bytes, Blocks
    <3> QED BY <1>1, <2>2, <3>4, <3>5, <3>6
  <2>5. CASE stream.message_name \in {"Status", "Ping"}
    <3>1. l = FixedLengths[stream.message_name]
      BY <2>1, <2>5
    <3>2. rpc_response_limits.min = l /\ rpc_response_limits.max = l
      BY <2>5, <3>1 DEF rpc_response_limits, Blocks, Exactly
    <3>3. ~LengthRefused(chunk.code = "error", chunk.length)
      BY <1>1, <1>4, <2>2, <3>2, PayloadLimits
    <3>4. \A g : SszDecodes(g, l)
      BY <2>5 DEF SszDecodes, Blocks
    <3>5. ~HasContext(chunk)
      BY <2>5 DEF HasContext, has_context_bytes, Blocks
    <3> QED BY <1>1, <2>2, <3>3, <3>4, <3>5
  <2> QED BY <2>1, <2>3, <2>4, <2>5, StreamFacts DEF Blocks
<1> QED BY <1>2, <1>3, <1>4 DEF Items

-----------------------------------------------------------------------------
(* The encoder.                                                            *)

(* The response code: one byte of a response, none of a request. *)
LEMMA CodeBytesIs ==
    ASSUME NEW chunk \in ChunkType, chunk.code = "none" <=> ~Responds,
           NEW n, NEW T, \A p \in Parts : <<p, n>> \in T
    PROVE  /\ code_bytes(chunk, n) \in Seq(T)
           /\ Len(code_bytes(chunk, n)) = CodeLen
           /\ \A i \in 1 .. CodeLen : code_bytes(chunk, n)[i] = <<"code", n>>
<1>a. SUFFICES ASSUME NEW b, b = code_bytes(chunk, n)
               PROVE  /\ b \in Seq(T)
                      /\ Len(b) = CodeLen
                      /\ \A i \in 1 .. CodeLen : b[i] = <<"code", n>>
  BY Zenon
<1>1. CASE Responds
  <2>1. PICK one \in Nat : one = 1
    OBVIOUS
  <2>2. b = Bytes("code", n, one) /\ CodeLen = one
    BY <1>a, <1>1, <2>1 DEF code_bytes, CodeLen
  <2>3. one \in Nat /\ <<"code", n>> \in T
    BY <2>1 DEF Parts
  <2> QED BY <2>2, <2>3, BytesIs
<1>2. CASE ~Responds
  <2>1. b = <<>> /\ CodeLen = 0
    BY <1>a, <1>2 DEF code_bytes, CodeLen
  <2> QED BY <2>1
<1> QED BY <1>1, <1>2

Wire(chunk, n) == code_bytes(chunk, n) \o payload_bytes(chunk, n)

(* All bytes of a chunk, in the order of WirePart. *)
LEMMA WireIs ==
    ASSUME NEW chunk \in ChunkType, chunk.code = "none" <=> ~Responds,
           ~MetaDataRequest, NEW n, NEW T, \A p \in Parts : <<p, n>> \in T
    PROVE  /\ Wire(chunk, n) \in Seq(T)
           /\ Len(Wire(chunk, n)) = WireLen(chunk)
           /\ \A i \in 1 .. WireLen(chunk) : Wire(chunk, n)[i] = <<WirePart(chunk, i), n>>
<1>a. SUFFICES ASSUME NEW w, w = Wire(chunk, n)
               PROVE  /\ w \in Seq(T)
                      /\ Len(w) = WireLen(chunk)
                      /\ \A i \in 1 .. WireLen(chunk) : w[i] = <<WirePart(chunk, i), n>>
  BY Zenon
<1>1. PICK a : a = code_bytes(chunk, n)
  OBVIOUS
<1>2. a \in Seq(T) /\ Len(a) = CodeLen /\ \A i \in 1 .. Len(a) : a[i] = <<"code", n>>
  BY <1>1, CodeBytesIs
<1>3. PICK lb \in Nat : lb = ContextLen(chunk)
  BY ChunkFacts
<1>4. PICK b : b = IF HasContext(chunk) THEN Bytes("context", n, CONTEXT_BYTES_LEN) ELSE <<>>
  OBVIOUS
<1>5. b = Bytes("context", n, lb)
  <2>1. CASE HasContext(chunk)
    BY <1>3, <1>4, <2>1, Zenon DEF ContextLen
  <2>2. CASE ~HasContext(chunk)
    <3>1. lb = 0 /\ b = <<>>
      BY <1>3, <1>4, <2>2 DEF ContextLen
    <3>2. Bytes("context", n, 0) = <<>>
      BY DEF Bytes
    <3> QED BY <3>1, <3>2
  <2> QED BY <2>1, <2>2
<1>6. b \in Seq(T) /\ Len(b) = lb /\ \A i \in 1 .. Len(b) : b[i] = <<"context", n>>
  <2>1. <<"context", n>> \in T /\ lb \in Nat
    BY <1>3 DEF Parts
  <2> QED BY <2>1, <1>5, BytesIs
<1>7. PICK lc \in Nat : lc = VarintLen(chunk.length)
  BY ChunkFacts
<1>8. PICK c : c = Bytes("length", n, lc)
  OBVIOUS
<1>9. c \in Seq(T) /\ Len(c) = lc /\ \A i \in 1 .. Len(c) : c[i] = <<"length", n>>
  <2>1. <<"length", n>> \in T /\ lc \in Nat
    BY <1>7 DEF Parts
  <2> QED BY <2>1, <1>8, BytesIs
<1>10. PICK ld \in Nat : ld = chunk.size
  BY ChunkFacts
<1>11. PICK d : d = Bytes("body", n, ld)
  OBVIOUS
<1>12. d \in Seq(T) /\ Len(d) = ld /\ \A i \in 1 .. Len(d) : d[i] = <<"body", n>>
  <2>1. <<"body", n>> \in T /\ ld \in Nat
    BY <1>10 DEF Parts
  <2> QED BY <2>1, <1>11, BytesIs
<1>13. w = a \o ((b \o c) \o d)
  BY <1>a, <1>1, <1>4, <1>7, <1>8, <1>10, <1>11, Zenon DEF payload_bytes, Wire
<1>14. /\ w \in Seq(T)
       /\ Len(w) = Len(a) + Len(b) + Len(c) + Len(d)
       /\ \A i \in 1 .. Len(a) : w[i] = a[i]
       /\ \A i \in 1 .. Len(b) : w[Len(a) + i] = b[i]
       /\ \A i \in 1 .. Len(c) : w[Len(a) + (Len(b) + i)] = c[i]
       /\ \A i \in 1 .. Len(d) : w[Len(a) + (Len(b) + Len(c) + i)] = d[i]
  <2>1. a \in Seq(T) /\ b \in Seq(T) /\ c \in Seq(T) /\ d \in Seq(T)
    BY <1>2, <1>6, <1>9, <1>12
  <2> QED BY <1>13, <2>1, FourParts, SMTT(30)
<1>15. /\ Len(a) = CodeLen /\ Len(a) \in Nat
       /\ Len(a) + Len(b) = BeforeLength(chunk) /\ Len(b) \in Nat
       /\ Len(a) + Len(b) + Len(c) = HeadLen(chunk) /\ Len(c) \in Nat
       /\ Len(a) + Len(b) + Len(c) + Len(d) = WireLen(chunk) /\ Len(d) \in Nat
  BY <1>2, <1>3, <1>6, <1>7, <1>9, <1>10, <1>12 DEF BeforeLength, HeadLen, WireLen
<1>16. ASSUME NEW i \in 1 .. WireLen(chunk)
       PROVE  w[i] = <<WirePart(chunk, i), n>>
  <2>1. CASE i <= Len(a)
    <3>1. w[i] = <<"code", n>>
      BY <2>1, <1>2, <1>14, <1>15
    <3> QED BY <2>1, <3>1, <1>15 DEF WirePart
  <2>2. CASE Len(a) < i /\ i <= Len(a) + Len(b)
    <3>1. PICK j : j = i - Len(a)
      OBVIOUS
    <3>2. j \in 1 .. Len(b) /\ i = Len(a) + j
      BY <3>1, <2>2, <1>15
    <3>3. w[i] = <<"context", n>>
      BY <3>2, <1>6, <1>14
    <3> QED BY <2>2, <3>3, <1>15 DEF WirePart
  <2>3. CASE Len(a) + Len(b) < i /\ i <= Len(a) + Len(b) + Len(c)
    <3>1. PICK j : j = i - (Len(a) + Len(b))
      OBVIOUS
    <3>2. j \in 1 .. Len(c) /\ i = Len(a) + (Len(b) + j)
      BY <3>1, <2>3, <1>15
    <3>3. w[i] = <<"length", n>>
      BY <3>2, <1>9, <1>14
    <3> QED BY <2>3, <3>3, <1>15 DEF WirePart
  <2>4. CASE Len(a) + Len(b) + Len(c) < i
    <3>1. PICK j : j = i - (Len(a) + Len(b) + Len(c))
      OBVIOUS
    <3>2. j \in 1 .. Len(d) /\ i = Len(a) + (Len(b) + Len(c) + j)
      BY <3>1, <2>4, <1>14, <1>15
    <3>3. w[i] = <<"body", n>>
      BY <3>2, <1>12, <1>14
    <3> QED BY <2>4, <3>3, <1>15 DEF WirePart
  <2> QED BY <2>1, <2>2, <2>3, <2>4, <1>15
<1> QED BY <1>14, <1>15, <1>16

(* What encode writes into a flushed buffer: the chunk, or the start of    *)
(* one that is too long.                                                   *)
LEMMA EncodeIs ==
    ASSUME NEW chunk \in ChunkType, chunk.code = "none" <=> ~Responds,
           NEW n, NEW T, \A p \in Parts : <<p, n>> \in T, NEW e
    PROVE  e = encode(chunk, n, <<>>) =>
           /\ e \in Seq(T)
           /\ Len(e) <= WireLen(chunk)
           /\ chunk.length <= max_packet_size => Len(e) = WireLen(chunk)
           /\ \A i \in 1 .. Len(e) : e[i] = <<WirePart(chunk, i), n>>
<1>a. HAVE e = encode(chunk, n, <<>>)
<1>1. CASE MetaDataRequest
  <2>1. e = <<>>
    BY <1>a, <1>1 DEF encode, MetaDataRequest
  <2>2. WireLen(chunk) = 0
    BY <1>1 DEF WireLen
  <2> QED BY <2>1, <2>2
<1>2. CASE ~MetaDataRequest /\ chunk.length > max_packet_size
  <2>1. e = IF Responds THEN code_bytes(chunk, n) ELSE <<>>
    BY <1>a, <1>2 DEF encode
  <2>2. e = code_bytes(chunk, n)
    BY <2>1 DEF code_bytes
  <2>3. CodeLen <= WireLen(chunk) /\ CodeLen \in Nat
    BY <1>2, ChunkFacts DEF WireLen, HeadLen, BeforeLength
  <2>4. \A i \in 1 .. CodeLen : WirePart(chunk, i) = "code"
    BY DEF WirePart
  <2>5. ~(chunk.length <= max_packet_size)
    <3>1. chunk.length \in Nat /\ max_packet_size \in Nat
      BY LengthFacts, LengthAssumption DEF ChunkType
    <3> QED BY <1>2, <3>1
  <2>6. e \in Seq(T) /\ Len(e) = CodeLen /\ \A i \in 1 .. Len(e) : e[i] = <<"code", n>>
    BY <2>2, CodeBytesIs
  <2> QED BY <2>3, <2>4, <2>5, <2>6
<1>3. CASE ~MetaDataRequest /\ ~(chunk.length > max_packet_size)
  <2>1. e = (IF Responds THEN code_bytes(chunk, n) ELSE <<>>) \o payload_bytes(chunk, n)
    BY <1>a, <1>3 DEF encode, MetaDataRequest
  <2>2. e = Wire(chunk, n)
    BY <1>3, <2>1 DEF code_bytes, Wire
  <2>3. /\ e \in Seq(T) /\ Len(e) = WireLen(chunk)
        /\ \A i \in 1 .. Len(e) : e[i] = <<WirePart(chunk, i), n>>
    BY <1>3, <2>2, WireIs
  <2> QED BY <2>3
<1> QED BY <1>1, <1>2, <1>3

-----------------------------------------------------------------------------
(* The decoder: what each part of decode does to a decoder that is in the  *)
(* chunk x, the c-th.                                                      *)

Reading(x, c) ==
    /\ stream \in Streams /\ ~MetaDataRequest
    /\ c \in 1 .. Len(sent)
    /\ x \in ChunkType /\ (x.code = "none" <=> ~Responds)
    /\ \A p : Chunk(<<p, c>>) = x

In(d, x, c) ==
    /\ d \in Decoder
    /\ d.code \in {<<>>, <<"code", c>>}
    /\ d.fork \in {<<>>, <<"context", c>>}
    /\ d.len \in {<<>>, <<"length", c>>}
    /\ d.code # <<>> => Responds
    /\ d.fork # <<>> => HasContext(x) /\ d.code # <<>>
    /\ d.len # <<>> => (Responds => d.code # <<>>) /\ (HasContext(x) => d.fork # <<>>)
    /\ View(d.src, UsedOf(d, x), x, c)

(* e is d after more of the chunk has been consumed. *)
Consumed(d, e, x) ==
    \E k \in 0 .. Len(d.src) :
        e.src = Drop(d.src, k) /\ UsedOf(e, x) = UsedOf(d, x) + k

(* A decoder that waits. *)
Dry(e, x, c) ==
    /\ Holds(x, c, e.code, e.fork, e.len, e.src)
    /\ FewBytes(e.len, Len(e.src))
    /\ Ours(x) => UsedOf(e, x) + Len(e.src) < WireLen(x)

(* The sizes of the chunk that a decoder is in. *)
LEMMA ReadingFacts ==
    ASSUME NEW x, NEW c, Reading(x, c)
    PROVE  /\ CodeLen = (IF Responds THEN 1 ELSE 0)
           /\ WireLen(x) = BeforeLength(x) + VarintLen(x.length) + x.size
           /\ HeadLen(x) = BeforeLength(x) + VarintLen(x.length)
           /\ BeforeLength(x) = CodeLen + (IF HasContext(x) THEN CONTEXT_BYTES_LEN ELSE 0)
           /\ VarintLen(x.length) \in Nat /\ 1 <= VarintLen(x.length)
           /\ VarintLen(x.length) <= MaxVarintLen
           /\ x.size \in Nat /\ x.length \in Nat
           /\ MaxCompressLen(x.length) \in Nat /\ 2 <= MaxCompressLen(x.length)
           /\ CONTEXT_BYTES_LEN \in Nat /\ 1 <= CONTEXT_BYTES_LEN
           /\ max_packet_size \in Nat /\ MaxVarintLen \in Nat
           /\ HasContext(x) => Responds
<1>1. x.length \in Lengths /\ x.size \in Nat
  BY DEF Reading, ChunkType
<1>2. HasContext(x) => Responds
  BY DEF Reading, HasContext
<1>3. ~MetaDataRequest
  BY DEF Reading
<1> QED BY <1>1, <1>2, <1>3, LengthFacts, LengthAssumption
        DEF CodeLen, WireLen, HeadLen, BeforeLength, ContextLen

(* A view of a chunk, k bytes on. *)
LEMMA ViewDrop ==
    ASSUME NEW x, NEW c, Reading(x, c), NEW T, NEW s \in Seq(T), NEW u \in Nat,
           NEW k \in 0 .. Len(s), View(s, u, x, c)
    PROVE  View(Drop(s, k), u + k, x, c)
<1>1. WireLen(x) \in Nat
  BY ReadingFacts, ChunkFacts DEF Reading
<1>2. PICK r : r = Drop(s, k)
  OBVIOUS
<1>3. Len(r) = Len(s) - k /\ \A i \in 1 .. Len(r) : r[i] = s[k + i]
  BY <1>2, DropIs
<1>4. ASSUME NEW i \in 1 .. Len(r)
      PROVE  /\ u + k + i <= WireLen(x) => r[i] = <<WirePart(x, u + k + i), c>>
             /\ u + k + i = WireLen(x) + 1 => r[i][1] = "code"
  <2>1. k + i \in 1 .. Len(s) /\ u + (k + i) = u + k + i /\ r[i] = s[k + i]
    BY <1>3
  <2> QED BY <2>1 DEF View
<1>5. View(r, u + k, x, c)
  BY <1>4 DEF View
<1> QED BY <1>2, <1>5

(* Bytes that are dropped in two steps. *)
LEMMA DropDrop ==
    ASSUME NEW T, NEW s \in Seq(T), NEW j \in 0 .. Len(s), NEW k \in 0 .. Len(s) - j
    PROVE  Drop(Drop(s, j), k) = Drop(s, j + k)
BY DEF Drop

(* What is consumed of a chunk leaves the rest of it, its body at least. *)
LEMMA UsedFacts ==
    ASSUME NEW x, NEW c, Reading(x, c), NEW d, In(d, x, c)
    PROVE  /\ UsedOf(d, x) \in Nat
           /\ UsedOf(d, x) = (IF d.code = <<>> THEN 0 ELSE 1)
                              + (IF d.fork = <<>> THEN 0 ELSE CONTEXT_BYTES_LEN)
                              + (IF d.len = <<>> THEN 0 ELSE VarintLen(x.length))
           /\ WireLen(x) \in Nat /\ UsedOf(d, x) + (IF d.len = <<>> THEN 1 ELSE 0) + x.size <= WireLen(x)
           /\ d.src \in Seq(Octets) /\ Len(d.src) \in Nat
<1>1. d.src \in Seq(Octets)
  BY DEF In, Decoder
<1>2. /\ d.code # <<>> => Responds
      /\ d.fork # <<>> => HasContext(x)
  BY DEF In
<1>3. PICK a \in Nat : a = IF d.code = <<>> THEN 0 ELSE 1
  OBVIOUS
<1>4. PICK b \in Nat : b = IF d.fork = <<>> THEN 0 ELSE CONTEXT_BYTES_LEN
  BY ReadingFacts
<1>5. PICK l \in Nat : l = IF d.len = <<>> THEN 0 ELSE VarintLen(x.length)
  BY ReadingFacts
<1>6. UsedOf(d, x) = a + b + l
  BY <1>3, <1>4, <1>5 DEF UsedOf, Used
<1>7. a <= CodeLen /\ CodeLen \in Nat
  BY <1>2, <1>3 DEF CodeLen
<1>8. CodeLen + b <= BeforeLength(x) /\ BeforeLength(x) \in Nat
  BY <1>2, <1>4, <1>7, ReadingFacts
<1>9. l + (IF d.len = <<>> THEN 1 ELSE 0) <= VarintLen(x.length)
  BY <1>5, ReadingFacts
<1>10. WireLen(x) = BeforeLength(x) + VarintLen(x.length) + x.size
       /\ x.size \in Nat /\ VarintLen(x.length) \in Nat
  BY ReadingFacts
<1>11. WireLen(x) \in Nat
       /\ UsedOf(d, x) + (IF d.len = <<>> THEN 1 ELSE 0) + x.size <= WireLen(x)
  BY <1>6, <1>7, <1>8, <1>9, <1>10
<1>12. UsedOf(d, x) \in Nat
  BY <1>6
<1> QED BY <1>1, <1>3, <1>4, <1>5, <1>6, <1>11, <1>12

(* Nothing that is dropped. *)
LEMMA DropNone ==
    ASSUME NEW T, NEW s \in Seq(T)
    PROVE  Drop(s, 0) = s
BY DEF Drop

(* A step that only decides the result. *)
LEMMA OutOnly ==
    ASSUME NEW x, NEW c, Reading(x, c), NEW d, In(d, x, c),
           NEW out \in {"go", "none", "some", "error"}, NEW e
    PROVE  e = [d EXCEPT !.out = out] =>
           /\ In(e, x, c) /\ Consumed(d, e, x)
           /\ e.out = out /\ e.code = d.code /\ e.fork = d.fork /\ e.len = d.len /\ e.src = d.src
           /\ UsedOf(e, x) = UsedOf(d, x)
<1>a. HAVE e = [d EXCEPT !.out = out]
<1>1. d \in Decoder
  BY DEF In
<1>2. /\ e.out = out /\ e.code = d.code /\ e.fork = d.fork /\ e.len = d.len /\ e.src = d.src
      /\ e \in Decoder
  BY <1>a, <1>1 DEF Decoder
<1>3. UsedOf(e, x) = UsedOf(d, x)
  BY <1>2 DEF UsedOf
<1>4. In(e, x, c)
  BY <1>2, <1>3 DEF In
<1>5. Consumed(d, e, x)
  <2>1. 0 \in 0 .. Len(d.src) /\ Drop(d.src, 0) = d.src /\ UsedOf(d, x) + 0 = UsedOf(d, x)
    BY UsedFacts, DropNone
  <2> QED BY <2>1, <1>2, <1>3 DEF Consumed
<1> QED BY <1>2, <1>3, <1>4, <1>5

(* A decoder that has consumed no more. *)
LEMMA Unchanged ==
    ASSUME NEW x, NEW c, Reading(x, c), NEW d, In(d, x, c)
    PROVE  Consumed(d, d, x)
<1>1. 0 \in 0 .. Len(d.src) /\ Drop(d.src, 0) = d.src /\ UsedOf(d, x) + 0 = UsedOf(d, x)
  BY UsedFacts, DropNone
<1> QED BY <1>1 DEF Consumed

(* What two parts of decode consume, one after the other. *)
LEMMA ConsumedTwice ==
    ASSUME NEW x, NEW c, Reading(x, c), NEW d, In(d, x, c), NEW e, In(e, x, c), NEW f,
           Consumed(d, e, x), Consumed(e, f, x)
    PROVE  Consumed(d, f, x)
<1>1. PICK j \in 0 .. Len(d.src) : e.src = Drop(d.src, j) /\ UsedOf(e, x) = UsedOf(d, x) + j
  BY DEF Consumed
<1>2. PICK k \in 0 .. Len(e.src) : f.src = Drop(e.src, k) /\ UsedOf(f, x) = UsedOf(e, x) + k
  BY DEF Consumed
<1>3. Len(e.src) = Len(d.src) - j
  BY <1>1, UsedFacts, DropIs
<1>4. k \in 0 .. Len(d.src) - j /\ j + k \in 0 .. Len(d.src)
  BY <1>3, UsedFacts
<1>5. f.src = Drop(d.src, j + k)
  BY <1>1, <1>2, <1>4, UsedFacts, DropDrop
<1>6. UsedOf(f, x) = UsedOf(d, x) + (j + k)
  BY <1>1, <1>2, UsedFacts
<1> QED BY <1>4, <1>5, <1>6 DEF Consumed

(* After the response code. *)
Coded(e, x) ==
    /\ Responds => e.code # <<>> /\ e.src # <<>>
    /\ e.len # <<>> => ~LengthRefused(x.code = "error", x.length) /\ x.size # 0

(* The response code: it is there, or there are too few bytes to go on. *)
LEMMA CodeStage ==
    ASSUME NEW x, NEW c, Reading(x, c), NEW d, In(d, x, c), d.out = "go",
           Holds(x, c, d.code, d.fork, d.len, d.src), NEW e
    PROVE  e = decode_code(d) =>
           /\ In(e, x, c) /\ Consumed(d, e, x)
           /\ e.out \in {"go", "none"}
           /\ e.out = "none" => Dry(e, x, c)
           /\ e.out = "go" => Coded(e, x)
<1>a. HAVE e = decode_code(d)
<1>1. d.len # <<>> => ~LengthRefused(x.code = "error", x.length) /\ x.size # 0
  BY DEF Holds
<1>2. CASE ~Responds
  <2>1. e = d
    BY <1>a, <1>2 DEF decode_code
  <2>2. Coded(d, x)
    BY <1>1, <1>2 DEF Coded
  <2> QED BY <2>1, <2>2, Unchanged
<1>3. CASE Responds /\ Len(d.src) <= 1
  <2>1. e = [d EXCEPT !.out = "none"]
    BY <1>a, <1>3 DEF decode_code
  <2>2. /\ In(e, x, c) /\ Consumed(d, e, x)
        /\ e.out = "none" /\ e.code = d.code /\ e.fork = d.fork /\ e.len = d.len
        /\ e.src = d.src /\ UsedOf(e, x) = UsedOf(d, x)
    BY <2>1, OutOnly
  <2>3. FewBytes(d.len, Len(d.src))
    <3>1. CASE d.len = <<>>
      BY <1>3, <3>1, UsedFacts DEF FewBytes
    <3>2. CASE d.len # <<>>
      <4>1. Chunk(d.len) = x
        BY <3>2 DEF In, Reading
      <4>2. x.length <= max_packet_size
        BY <1>1, <3>2, ReadingFacts DEF LengthRefused, is_out_of_bounds
      <4> QED BY <1>3, <3>2, <4>1, <4>2, ReadingFacts, UsedFacts DEF FewBytes
    <3> QED BY <3>1, <3>2
  <2>4. ASSUME Ours(x)
        PROVE  UsedOf(d, x) + Len(d.src) < WireLen(x)
    <3>1. /\ HasContext(x) => x.size >= 2
          /\ x.size # 1
      BY <2>4, OursAccepted DEF Reading
    <3>2. /\ d.code = <<>> => d.fork = <<>> /\ d.len = <<>>
          /\ d.len # <<>> => x.size # 0
          /\ d.code # <<>> /\ d.len = <<>> /\ ~HasContext(x) => VarintLen(x.length) >= 2
          /\ d.fork # <<>> => HasContext(x)
          /\ HasContext(x) /\ d.len # <<>> => d.fork # <<>>
      BY <1>3 DEF Holds
    <3>3. PICK ctx \in Nat : ctx = IF HasContext(x) THEN CONTEXT_BYTES_LEN ELSE 0
      BY ReadingFacts
    <3>4. PICK v \in Nat : v = VarintLen(x.length)
      BY ReadingFacts
    <3>5. WireLen(x) = 1 + ctx + v + x.size /\ x.size \in Nat /\ v >= 1
      BY <1>3, <3>3, <3>4, ReadingFacts
    <3>6. UsedOf(d, x) = (IF d.code = <<>> THEN 0 ELSE 1)
                         + (IF d.fork = <<>> THEN 0 ELSE CONTEXT_BYTES_LEN)
                         + (IF d.len = <<>> THEN 0 ELSE v)
      BY <3>4, UsedFacts
    <3>7. Len(d.src) \in Nat /\ Len(d.src) <= 1 /\ CONTEXT_BYTES_LEN \in Nat
      BY <1>3, UsedFacts, ReadingFacts
    <3>8. CASE d.code = <<>>
      <4>1. UsedOf(d, x) = 0
        BY <3>2, <3>6, <3>8
      <4> QED BY <4>1, <3>3, <3>4, <3>5, <3>7
    <3>9. CASE d.code # <<>> /\ d.len = <<>>
      <4>1. UsedOf(d, x) <= 1 + ctx /\ UsedOf(d, x) \in Nat
        BY <3>2, <3>3, <3>6, <3>7, <3>9
      <4>2. v + x.size >= 2
        BY <3>1, <3>2, <3>4, <3>5, <3>9
      <4> QED BY <4>1, <4>2, <3>3, <3>4, <3>5, <3>7
    <3>10. CASE d.code # <<>> /\ d.len # <<>>
      <4>1. UsedOf(d, x) = 1 + ctx + v
        BY <3>2, <3>3, <3>6, <3>7, <3>10
      <4>2. x.size >= 2
        BY <3>1, <3>2, <3>5, <3>10
      <4> QED BY <4>1, <4>2, <3>3, <3>4, <3>5, <3>7
    <3> QED BY <3>8, <3>9, <3>10
  <2>5. Dry(e, x, c)
    BY <2>2, <2>3, <2>4 DEF Dry
  <2> QED BY <2>2, <2>5
<1>4. CASE Responds /\ ~(Len(d.src) <= 1) /\ d.code # <<>>
  <2>1. e = d
    BY <1>a, <1>4 DEF decode_code
  <2>2. d.src # <<>>
    BY <1>4
  <2>3. Coded(d, x)
    BY <1>1, <1>4, <2>2 DEF Coded
  <2> QED BY <2>1, <2>3, Unchanged
<1>5. CASE Responds /\ ~(Len(d.src) <= 1) /\ ~(d.code # <<>>)
  <2>1. e = [d EXCEPT !.code = Head(d.src), !.src = Tail(d.src)]
    BY <1>a, <1>5 DEF decode_code
  <2>2. d.fork = <<>> /\ d.len = <<>>
    BY <1>5 DEF In
  <2>3. UsedOf(d, x) = 0
    BY <1>5, <2>2, UsedFacts
  <2>4. PICK s : s = d.src
    OBVIOUS
  <2>5. s \in Seq(Octets) /\ Len(s) >= 2 /\ View(s, 0, x, c)
    <3>1. d.src \in Seq(Octets) /\ Len(d.src) \in Nat /\ ~(Len(d.src) <= 1)
      BY <1>5, UsedFacts
    <3>2. View(d.src, 0, x, c)
      BY <2>3 DEF In
    <3> QED BY <2>4, <3>1, <3>2
  <2>6. Head(s) = <<"code", c>>
    <3>1. CodeLen = 1 /\ 1 <= WireLen(x)
      BY <1>5, ReadingFacts
    <3>2. WirePart(x, 1) = "code"
      BY <3>1 DEF WirePart
    <3> QED BY <2>5, <3>1, <3>2 DEF View
  <2>7. Tail(s) = Drop(s, 1) /\ Len(Drop(s, 1)) = Len(s) - 1 /\ Drop(s, 1) \in Seq(Octets)
    BY <2>5, DropIs DEF Drop
  <2>8. <<"code", c>> \in Kept("code") /\ <<"code", c>> # <<>>
    BY DEF Reading, Kept
  <2>9. /\ e \in Decoder
        /\ e.out = "go" /\ e.code = <<"code", c>> /\ e.fork = <<>> /\ e.len = <<>>
        /\ e.src = Drop(s, 1)
    <3>1. d \in Decoder
      BY DEF In
    <3> QED BY <2>1, <2>2, <2>4, <2>6, <2>7, <2>8, <3>1 DEF Decoder
  <2>10. UsedOf(e, x) = 1
    BY <2>8, <2>9 DEF UsedOf, Used
  <2>11. View(e.src, 1, x, c)
    <3>1. 1 \in 0 .. Len(s) /\ 0 + 1 = 1
      BY <2>5
    <3> QED BY <2>5, <2>9, <3>1, ViewDrop
  <2>12. In(e, x, c)
    BY <1>5, <2>8, <2>9, <2>10, <2>11 DEF In
  <2>13. Consumed(d, e, x)
    <3>1. 1 \in 0 .. Len(d.src) /\ e.src = Drop(d.src, 1) /\ UsedOf(e, x) = UsedOf(d, x) + 1
      BY <2>3, <2>4, <2>5, <2>9, <2>10
    <3> QED BY <3>1 DEF Consumed
  <2>14. Coded(e, x)
    <3>1. e.src # <<>>
      BY <2>5, <2>7, <2>9
    <3> QED BY <2>8, <2>9, <3>1 DEF Coded
  <2> QED BY <2>9, <2>12, <2>13, <2>14
<1> QED BY <1>2, <1>3, <1>4, <1>5

(* Once the code is there, an error is known. *)
LEMMA IsErrorIs ==
    ASSUME NEW x, NEW c, Reading(x, c), NEW d, In(d, x, c), Responds => d.code # <<>>
    PROVE  /\ IsError(d) <=> x.code = "error"
           /\ Responds => (HasContext(x) <=> has_context_bytes /\ ~IsError(d))
<1>1. CASE ~Responds
  BY <1>1 DEF Reading, IsError
<1>2. CASE Responds
  <2>1. d.code = <<"code", c>>
    BY <1>2 DEF In
  <2>2. Chunk(d.code) = x
    BY <2>1 DEF Reading
  <2>3. x.code \in {"success", "error"}
    BY <1>2 DEF Reading, ChunkType
  <2> QED BY <1>2, <2>2, <2>3 DEF IsError, HasContext
<1> QED BY <1>1, <1>2

(* After the context bytes. *)
Headed(e, x) ==
    /\ Responds => e.code # <<>>
    /\ HasContext(x) => e.fork # <<>>
    /\ Responds /\ ~HasContext(x) => e.src # <<>>

(* The context bytes: they are there, or too few are, or they name no      *)
(* fork.                                                                   *)
LEMMA ContextStage ==
    ASSUME NEW x, NEW c, Reading(x, c), NEW d, In(d, x, c), d.out = "go", Coded(d, x), NEW e
    PROVE  e = decode_context(d) =>
           /\ e \in Decoder
           /\ e.out \in {"go", "none", "error"}
           /\ e.out # "error" => In(e, x, c) /\ Consumed(d, e, x)
           /\ e.out = "none" => Dry(e, x, c)
           /\ e.out = "error" => ~Ours(x)
           /\ e.out = "go" => Headed(e, x)
<1>a. HAVE e = decode_context(d)
<1>0. d \in Decoder
  BY DEF In
<1>1. Responds => d.code # <<>> /\ d.src # <<>>
  BY DEF Coded
<1>2. Responds => (HasContext(x) <=> has_context_bytes /\ ~IsError(d))
  BY <1>1, IsErrorIs
<1>3. HasContext(x) => Responds
  BY ReadingFacts
<1>4. CASE ~HasContext(x) \/ d.fork # <<>>
  <2>1. e = d
    BY <1>a, <1>2, <1>4 DEF decode_context
  <2>2. Headed(d, x)
    BY <1>1, <1>4 DEF Headed
  <2> QED BY <1>0, <2>1, <2>2, Unchanged
<1>5. CASE HasContext(x) /\ d.fork = <<>> /\ Len(d.src) < CONTEXT_BYTES_LEN
  <2>1. e = [d EXCEPT !.out = "none"]
    BY <1>a, <1>2, <1>3, <1>5 DEF decode_context
  <2>2. /\ In(e, x, c) /\ Consumed(d, e, x)
        /\ e.out = "none" /\ e.code = d.code /\ e.fork = d.fork /\ e.len = d.len
        /\ e.src = d.src /\ UsedOf(e, x) = UsedOf(d, x)
    BY <2>1, OutOnly
  <2>3. d.code = <<"code", c>> /\ d.code # <<>> /\ d.len = <<>>
    BY <1>1, <1>3, <1>5 DEF In
  <2>4. FewBytes(d.len, Len(d.src))
    BY <1>5, <2>3 DEF FewBytes
  <2>5. Holds(x, c, d.code, d.fork, d.len, d.src)
    BY <1>3, <1>5, <2>3 DEF Holds
  <2>6. UsedOf(d, x) + Len(d.src) < WireLen(x)
    <3>1. UsedOf(d, x) = 1 /\ Len(d.src) \in Nat
      <4>1. d.code # <<>> /\ d.fork = <<>> /\ d.len = <<>>
        BY <1>5, <2>3
      <4> QED BY <4>1, UsedFacts
    <3>2. WireLen(x) >= 1 + CONTEXT_BYTES_LEN /\ WireLen(x) \in Nat /\ CONTEXT_BYTES_LEN \in Nat
      BY <1>3, <1>5, ReadingFacts
    <3> QED BY <1>5, <3>1, <3>2
  <2>7. Dry(e, x, c)
    BY <2>2, <2>4, <2>5, <2>6 DEF Dry
  <2> QED BY <2>2, <2>7 DEF In
<1>6. CASE HasContext(x) /\ d.fork = <<>> /\ ~(Len(d.src) < CONTEXT_BYTES_LEN)
  <2>1. PICK r : r = [d EXCEPT !.fork = Head(d.src), !.src = Drop(d.src, CONTEXT_BYTES_LEN)]
    OBVIOUS
  <2>2. e = IF Chunk(r.fork).fork = Unknown THEN [r EXCEPT !.out = "error", !.fork = <<>>] ELSE r
    BY <1>a, <1>2, <1>3, <1>6, <2>1 DEF decode_context
  <2>3. d.code = <<"code", c>> /\ d.code # <<>> /\ d.len = <<>>
    BY <1>1, <1>3, <1>6 DEF In
  <2>4. UsedOf(d, x) = 1
    <3>1. UsedOf(d, x) = (IF d.code = <<>> THEN 0 ELSE 1)
                          + (IF d.fork = <<>> THEN 0 ELSE CONTEXT_BYTES_LEN)
                          + (IF d.len = <<>> THEN 0 ELSE VarintLen(x.length))
      BY UsedFacts
    <3> QED BY <1>6, <2>3, <3>1
  <2>5. PICK s : s = d.src
    OBVIOUS
  <2>6. CONTEXT_BYTES_LEN \in 1 .. Len(s) /\ s \in Seq(Octets) /\ View(s, 1, x, c)
    <3>1. d.src \in Seq(Octets) /\ Len(d.src) \in Nat
      BY UsedFacts
    <3>2. View(d.src, 1, x, c)
      BY <2>4 DEF In
    <3>3. CONTEXT_BYTES_LEN \in Nat /\ 1 <= CONTEXT_BYTES_LEN
      BY ReadingFacts
    <3> QED BY <1>6, <2>5, <3>1, <3>2, <3>3
  <2>7. Head(s) = <<"context", c>>
    <3>1. CodeLen = 1 /\ CONTEXT_BYTES_LEN \in Nat /\ 1 <= CONTEXT_BYTES_LEN
          /\ BeforeLength(x) = 1 + CONTEXT_BYTES_LEN /\ BeforeLength(x) <= WireLen(x)
      BY <1>3, <1>6, ReadingFacts
    <3>2. WirePart(x, 1 + 1) = "context"
      BY <3>1 DEF WirePart
    <3>3. 1 \in 1 .. Len(s) /\ 1 + 1 <= WireLen(x)
      BY <2>6, <3>1, UsedFacts
    <3>4. s[1] = <<"context", c>>
      BY <2>6, <3>2, <3>3 DEF View
    <3> QED BY <2>6, <3>4
  <2>8. PICK t : t = Drop(s, CONTEXT_BYTES_LEN)
    OBVIOUS
  <2>9. t \in Seq(Octets) /\ CONTEXT_BYTES_LEN \in 0 .. Len(s)
    BY <2>6, <2>8, DropIs
  <2>10. <<"context", c>> \in Kept("context") /\ <<"context", c>> # <<>> /\ <<>> \in Kept("context")
    BY DEF Reading, Kept
  <2>11. /\ r \in Decoder
         /\ r.out = "go" /\ r.code = <<"code", c>> /\ r.fork = <<"context", c>> /\ r.len = <<>>
         /\ r.src = t
    <3>1. d \in Decoder
      BY DEF In
    <3> QED BY <2>1, <2>3, <2>5, <2>7, <2>8, <2>9, <2>10, <3>1 DEF Decoder
  <2>12. UsedOf(r, x) = 1 + CONTEXT_BYTES_LEN
    BY <2>3, <2>10, <2>11, ReadingFacts DEF UsedOf, Used
  <2>13. View(t, 1 + CONTEXT_BYTES_LEN, x, c)
    BY <2>6, <2>8, <2>9, ViewDrop
  <2>14. In(r, x, c)
    BY <1>3, <1>6, <2>3, <2>10, <2>11, <2>12, <2>13 DEF In
  <2>15. Consumed(d, r, x)
    BY <2>4, <2>5, <2>8, <2>9, <2>11, <2>12 DEF Consumed
  <2>16. Chunk(r.fork) = x
    BY <2>11 DEF Reading
  <2>17. CASE x.fork # Unknown
    <3>1. e = r
      BY <2>2, <2>16, <2>17
    <3>2. Headed(r, x)
      BY <1>6, <2>3, <2>10, <2>11 DEF Headed
    <3> QED BY <2>11, <2>14, <2>15, <3>1, <3>2
  <2>18. CASE x.fork = Unknown
    <3>1. e = [r EXCEPT !.out = "error", !.fork = <<>>]
      BY <2>2, <2>16, <2>18
    <3>2. ~Ours(x)
      BY <1>6, <2>18, OursAccepted DEF Reading
    <3>3. e.out = "error" /\ e \in Decoder
      BY <2>10, <2>11, <3>1 DEF Decoder
    <3> QED BY <3>2, <3>3
  <2> QED BY <2>17, <2>18
<1>7. Len(d.src) \in Nat /\ CONTEXT_BYTES_LEN \in Nat
  BY UsedFacts, ReadingFacts
<1> QED BY <1>4, <1>5, <1>6, <1>7

(* After the length prefix. *)
Lengthed(e, x) ==
    /\ Responds => e.code # <<>>
    /\ HasContext(x) => e.fork # <<>>
    /\ e.len # <<>>

(* After the first u bytes of a chunk come the n of one of its parts. *)
Follows(part, x, u, n) ==
    /\ part \in Parts \ {"code"} /\ n \in Nat
    /\ u + n <= WireLen(x)
    /\ \A i \in 1 .. n : WirePart(x, u + i) = part
    /\ u + n < WireLen(x) => WirePart(x, u + n + 1) # part

(* How much of that part is at the front of a buffer. *)
LEMMA LeadingOfView ==
    ASSUME NEW x, NEW c, Reading(x, c), NEW T, NEW s \in Seq(T), NEW u \in Nat,
           View(s, u, x, c), NEW part, NEW n, Follows(part, x, u, n)
    PROVE  Leading(part, s) = IF Len(s) < n THEN Len(s) ELSE n
<1>0. /\ part \in Parts \ {"code"} /\ n \in Nat
      /\ u + n <= WireLen(x)
      /\ \A i \in 1 .. n : WirePart(x, u + i) = part
      /\ u + n < WireLen(x) => WirePart(x, u + n + 1) # part
  BY DEF Follows
<1>1. PICK k : k = IF Len(s) < n THEN Len(s) ELSE n
  OBVIOUS
<1>2. k \in 0 .. Len(s) /\ k <= n /\ Len(s) \in Nat /\ WireLen(x) \in Nat
  BY <1>0, <1>1, ReadingFacts, ChunkFacts DEF Reading
<1>3. ASSUME NEW i \in 1 .. k
      PROVE  s[i][1] = part
  <2>1. i \in 1 .. Len(s) /\ i \in 1 .. n /\ u + i <= WireLen(x)
    BY <1>0, <1>2
  <2>2. s[i] = <<WirePart(x, u + i), c>>
    BY <2>1 DEF View
  <2> QED BY <1>0, <2>1, <2>2
<1>4. ASSUME k < Len(s)
      PROVE  s[k + 1][1] # part
  <2>1. k = n /\ k + 1 \in 1 .. Len(s)
    BY <1>0, <1>1, <1>2, <1>4
  <2>2. CASE u + n < WireLen(x)
    <3>1. u + (k + 1) <= WireLen(x) /\ u + (k + 1) = u + n + 1
      BY <1>0, <1>2, <2>1, <2>2
    <3>2. s[k + 1] = <<WirePart(x, u + (k + 1)), c>>
      BY <2>1, <3>1 DEF View
    <3> QED BY <1>0, <2>2, <3>1, <3>2
  <2>3. CASE u + n = WireLen(x)
    <3>1. u + (k + 1) = WireLen(x) + 1
      BY <1>0, <1>2, <2>1, <2>3
    <3>2. s[k + 1][1] = "code"
      BY <2>1, <3>1 DEF View
    <3> QED BY <1>0, <3>2 DEF Parts
  <2> QED BY <1>0, <1>2, <2>2, <2>3
<1>5. Leading(part, s) = k
  BY <1>2, <1>3, <1>4, LeadingIs
<1> QED BY <1>1, <1>5

(* The length prefix: it is there whole, or its end is not. *)
LEMMA LengthStage ==
    ASSUME NEW x, NEW c, Reading(x, c), NEW d, In(d, x, c), d.out = "go", Headed(d, x), NEW e
    PROVE  e = handle_length(d) =>
           /\ In(e, x, c) /\ Consumed(d, e, x)
           /\ e.out \in {"go", "none"}
           /\ e.out = "none" => Dry(e, x, c)
           /\ e.out = "go" => Lengthed(e, x)
<1>a. HAVE e = handle_length(d)
<1>1. /\ Responds => d.code # <<>>
      /\ HasContext(x) => d.fork # <<>>
      /\ Responds /\ ~HasContext(x) => d.src # <<>>
  BY DEF Headed
<1>2. CASE d.len # <<>>
  <2>1. e = d
    BY <1>a, <1>2 DEF handle_length
  <2>2. Lengthed(d, x)
    BY <1>1, <1>2 DEF Lengthed
  <2> QED BY <2>1, <2>2, Unchanged
<1>3. CASE d.len = <<>>
  <2>1. PICK v \in Nat : v = VarintLen(x.length)
    BY ReadingFacts
  <2>2. PICK u \in Nat : u = BeforeLength(x)
    BY ChunkFacts DEF Reading
  <2>3. /\ HeadLen(x) = u + v /\ WireLen(x) = u + v + x.size /\ x.size \in Nat
        /\ 1 <= v /\ v <= MaxVarintLen /\ MaxVarintLen \in Nat
        /\ u = CodeLen + (IF HasContext(x) THEN CONTEXT_BYTES_LEN ELSE 0)
    BY <2>1, <2>2, ReadingFacts
  <2>4. UsedOf(d, x) = u
    <3>1. /\ d.code = <<>> <=> ~Responds
          /\ d.fork = <<>> <=> ~HasContext(x)
      BY <1>1 DEF In
    <3>2. UsedOf(d, x) = (IF d.code = <<>> THEN 0 ELSE 1)
                         + (IF d.fork = <<>> THEN 0 ELSE CONTEXT_BYTES_LEN) + 0
      BY <1>3, UsedFacts
    <3>3. CodeLen = (IF d.code = <<>> THEN 0 ELSE 1)
      BY <3>1 DEF CodeLen
    <3>4. CONTEXT_BYTES_LEN \in Nat
      BY LengthAssumption
    <3> QED BY <2>3, <3>1, <3>2, <3>3, <3>4
  <2>5. PICK s : s = d.src
    OBVIOUS
  <2>6. s \in Seq(Octets) /\ Len(s) \in Nat /\ View(s, u, x, c)
    <3>1. d.src \in Seq(Octets) /\ View(d.src, u, x, c)
      BY <2>4, UsedFacts DEF In
    <3> QED BY <2>5, <3>1
  <2>7. \A i \in 1 .. v : WirePart(x, u + i) = "length"
    <3>1. CodeLen \in Nat /\ CodeLen <= u
      BY <2>2, ChunkFacts, LengthAssumption DEF Reading, BeforeLength
    <3> QED BY <2>2, <2>3, <3>1 DEF WirePart
  <2>8. Leading("length", s) = IF Len(s) < v THEN Len(s) ELSE v
    <3>1. u + v < WireLen(x) => WirePart(x, u + v + 1) # "length"
      <4>1. CodeLen \in Nat /\ CodeLen <= u
        BY <2>2, ChunkFacts, LengthAssumption DEF Reading, BeforeLength
      <4> QED BY <2>2, <2>3, <4>1 DEF WirePart
    <3>2. u + v <= WireLen(x) /\ "length" \in Parts \ {"code"}
      BY <2>3 DEF Parts
    <3>3. Follows("length", x, u, v)
      BY <2>7, <3>1, <3>2 DEF Follows
    <3> QED BY <2>6, <3>3, LeadingOfView
  <2>9. s # <<>> => Head(s) = <<"length", c>>
    <3>1. ASSUME s # <<>>
          PROVE  s[1] = <<"length", c>>
      <4>1. 1 \in 1 .. Len(s) /\ u + 1 <= WireLen(x) /\ 1 \in 1 .. v
        BY <2>3, <2>6, <3>1
      <4> QED BY <2>6, <2>7, <4>1 DEF View
    <3> QED BY <2>6, <3>1
  <2>10. s # <<>> => Chunk(Head(s)) = x
    BY <2>9 DEF Reading
  <2>11. CASE s = <<>> \/ Len(s) < v
    <3>1. e = [d EXCEPT !.out = "none"]
      <4>1. CASE s = <<>>
        BY <1>a, <1>3, <2>5, <4>1 DEF handle_length
      <4>2. CASE s # <<>> /\ Len(s) < v
        <5>1. Leading("length", d.src) < VarintLen(Chunk(Head(d.src)).length)
              /\ Leading("length", d.src) = Len(d.src) /\ d.src # <<>>
          BY <2>1, <2>5, <2>8, <2>10, <4>2
        <5> QED BY <1>a, <1>3, <5>1 DEF handle_length
      <4> QED BY <2>11, <4>1, <4>2
    <3>2. /\ In(e, x, c) /\ Consumed(d, e, x)
          /\ e.out = "none" /\ e.code = d.code /\ e.fork = d.fork /\ e.len = d.len
          /\ e.src = d.src /\ UsedOf(e, x) = UsedOf(d, x)
      BY <3>1, OutOnly
    <3>3. Len(s) < v
      BY <2>3, <2>11
    <3>4. FewBytes(d.len, Len(s))
      BY <1>3, <2>3, <2>6, <3>3 DEF FewBytes
    <3>5. Holds(x, c, d.code, d.fork, d.len, d.src)
      <4>1. Responds /\ ~HasContext(x) => VarintLen(x.length) >= 2
        <5>1. s # <<>> => Len(s) >= 1
          BY <2>6
        <5> QED BY <1>1, <2>1, <2>5, <2>6, <3>3, <5>1
      <4>2. /\ d.code \in {<<>>, <<"code", c>>}
            /\ d.fork \in {<<>>, <<"context", c>>}
            /\ d.code # <<>> => Responds
            /\ d.fork # <<>> => HasContext(x) /\ d.code # <<>>
        BY DEF In
      <4> QED BY <1>1, <1>3, <4>1, <4>2 DEF Holds
    <3>6. UsedOf(d, x) + Len(s) < WireLen(x)
      BY <2>3, <2>4, <2>6, <3>3
    <3>7. Dry(e, x, c)
      BY <2>5, <3>2, <3>4, <3>5, <3>6 DEF Dry
    <3> QED BY <3>2, <3>7
  <2>12. CASE s # <<>> /\ ~(Len(s) < v)
    <3>1. v \in 0 .. Len(s)
      BY <2>6, <2>12
    <3>2. PICK t : t = Drop(s, v)
      OBVIOUS
    <3>3. t \in Seq(Octets)
      BY <2>6, <3>1, <3>2, DropIs
    <3>4. e = [d EXCEPT !.len = <<"length", c>>, !.src = t]
      <4>1. ~(Leading("length", d.src) < VarintLen(Chunk(Head(d.src)).length)) /\ d.src # <<>>
        BY <2>1, <2>5, <2>8, <2>10, <2>12
      <4>2. e = [d EXCEPT !.len = Head(d.src),
                          !.src = Drop(d.src, VarintLen(Chunk(Head(d.src)).length))]
        BY <1>a, <1>3, <4>1 DEF handle_length
      <4> QED BY <2>1, <2>5, <2>9, <2>10, <2>12, <3>2, <4>2
    <3>5. <<"length", c>> \in Kept("length") /\ <<"length", c>> # <<>>
      BY DEF Reading, Kept
    <3>6. /\ e \in Decoder /\ e.out = "go" /\ e.code = d.code /\ e.fork = d.fork
          /\ e.len = <<"length", c>> /\ e.src = t
      <4>1. d \in Decoder
        BY DEF In
      <4> QED BY <3>3, <3>4, <3>5, <4>1 DEF Decoder
    <3>7. UsedOf(e, x) = u + v
      <4>1. UsedOf(d, x) = (IF d.code = <<>> THEN 0 ELSE 1)
                           + (IF d.fork = <<>> THEN 0 ELSE CONTEXT_BYTES_LEN) + 0
        BY <1>3, UsedFacts
      <4>2. UsedOf(e, x) = (IF d.code = <<>> THEN 0 ELSE 1)
                           + (IF d.fork = <<>> THEN 0 ELSE CONTEXT_BYTES_LEN) + v
        BY <2>1, <3>5, <3>6 DEF UsedOf, Used
      <4>3. CONTEXT_BYTES_LEN \in Nat
        BY LengthAssumption
      <4> QED BY <2>4, <4>1, <4>2, <4>3
    <3>8. View(t, u + v, x, c)
      BY <2>6, <3>1, <3>2, ViewDrop
    <3>9. In(e, x, c)
      <4>1. /\ d.code \in {<<>>, <<"code", c>>}
            /\ d.fork \in {<<>>, <<"context", c>>}
            /\ d.code # <<>> => Responds
            /\ d.fork # <<>> => HasContext(x) /\ d.code # <<>>
        BY DEF In
      <4> QED BY <1>1, <3>6, <3>7, <3>8, <4>1 DEF In
    <3>10. Consumed(d, e, x)
      BY <2>4, <2>5, <3>1, <3>2, <3>6, <3>7 DEF Consumed
    <3>11. Lengthed(e, x)
      BY <1>1, <3>5, <3>6 DEF Lengthed
    <3> QED BY <3>6, <3>9, <3>10, <3>11
  <2> QED BY <2>11, <2>12
<1> QED BY <1>2, <1>3

(* The bounds check refuses only a length that is not ours. *)
LEMMA CheckStage ==
    ASSUME NEW x, NEW c, Reading(x, c), NEW d, In(d, x, c), d.out = "go", Lengthed(d, x), NEW e
    PROVE  e = check_length(d) =>
           /\ e \in Decoder /\ In(e, x, c) /\ Consumed(d, e, x)
           /\ e.out \in {"go", "error"}
           /\ e.out = "error" => ~Ours(x)
           /\ e.out = "go" => Lengthed(e, x) /\ ~LengthRefused(x.code = "error", x.length)
<1>a. HAVE e = check_length(d)
<1>1. Chunk(d.len) = x
  BY DEF Lengthed, In, Reading
<1>2. IsError(d) = (x.code = "error")
  <2>1. IsError(d) <=> x.code = "error"
    BY IsErrorIs DEF Lengthed
  <2>2. IsError(d) \in BOOLEAN /\ (x.code = "error") \in BOOLEAN
    BY DEF IsError
  <2> QED BY <2>1, <2>2
<1>3. LengthRefused(IsError(d), Chunk(d.len).length) = LengthRefused(x.code = "error", x.length)
  BY <1>1, <1>2, Zenon
<1>4. d \in Decoder
  BY DEF In
<1>5. CASE LengthRefused(x.code = "error", x.length)
  <2>1. e = [d EXCEPT !.out = "error"]
    BY <1>a, <1>3, <1>5, Zenon DEF check_length
  <2>2. In(e, x, c) /\ Consumed(d, e, x) /\ e.out = "error"
    BY <2>1, OutOnly
  <2>3. ~Ours(x)
    BY <1>5, OursAccepted DEF Reading
  <2> QED BY <2>2, <2>3 DEF In
<1>6. CASE ~LengthRefused(x.code = "error", x.length)
  <2>1. e = d
    BY <1>a, <1>3, <1>6, Zenon DEF check_length
  <2> QED BY <1>4, <1>6, <2>1, Unchanged
<1> QED BY <1>5, <1>6

(* A chunk that is complete. *)
Complete(d, e, x, c) ==
    /\ e.code = IF Responds THEN <<"code", c>> ELSE <<>>
    /\ e.fork = IF HasContext(x) THEN <<"context", c>> ELSE <<>>
    /\ e.len = <<"length", c>>
    /\ \E k \in 0 .. Len(d.src) : e.src = Drop(d.src, k) /\ UsedOf(d, x) + k = WireLen(x)

(* The body: it is there whole and stands for a payload, or it is waited   *)
(* for with fewer bytes than the worst case, or the chunk is refused.      *)
LEMMA BodyStage ==
    ASSUME NEW x, NEW c, Reading(x, c), NEW d, In(d, x, c), d.out = "go", Lengthed(d, x),
           ~LengthRefused(x.code = "error", x.length), NEW e
    PROVE  e = finish(decode_body(d)) =>
           /\ e \in Decoder
           /\ e.out \in {"none", "some", "error"}
           /\ e.out = "none" => In(e, x, c) /\ Consumed(d, e, x) /\ Dry(e, x, c)
           /\ e.out = "error" => ~Ours(x)
           /\ e.out = "some" => Complete(d, e, x, c)
<1>a. HAVE e = finish(decode_body(d))
<1>1. PICK f : f = decode_body(d)
  OBVIOUS
<1>2. e = finish(f)
  BY <1>a, <1>1
<1>3. /\ d \in Decoder
      /\ d.code = IF Responds THEN <<"code", c>> ELSE <<>>
      /\ d.fork = IF HasContext(x) THEN <<"context", c>> ELSE <<>>
      /\ d.len = <<"length", c>> /\ d.len # <<>>
  BY DEF In, Lengthed
<1>4. Chunk(d.len) = x
  BY <1>3 DEF Reading
<1>5. PICK u \in Nat : u = UsedOf(d, x)
  BY UsedFacts
<1>6. u = HeadLen(x) /\ WireLen(x) = u + x.size /\ x.size \in Nat
      /\ CodeLen \in Nat /\ CodeLen <= u /\ BeforeLength(x) \in Nat /\ BeforeLength(x) <= u
  <2>1. /\ d.code = <<>> <=> ~Responds
        /\ d.fork = <<>> <=> ~HasContext(x)
    BY <1>3
  <2>2. u = CodeLen + (IF HasContext(x) THEN CONTEXT_BYTES_LEN ELSE 0) + VarintLen(x.length)
    <3>1. UsedOf(d, x) = (IF d.code = <<>> THEN 0 ELSE 1)
                         + (IF d.fork = <<>> THEN 0 ELSE CONTEXT_BYTES_LEN)
                         + VarintLen(x.length)
      BY <1>3, UsedFacts
    <3>2. CodeLen = IF d.code = <<>> THEN 0 ELSE 1
      BY <2>1 DEF CodeLen
    <3>3. (IF d.fork = <<>> THEN 0 ELSE CONTEXT_BYTES_LEN)
             = (IF HasContext(x) THEN CONTEXT_BYTES_LEN ELSE 0)
      BY <2>1
    <3> QED BY <1>5, <3>1, <3>2, <3>3
  <2>3. CodeLen \in Nat /\ BeforeLength(x) \in Nat /\ CodeLen <= BeforeLength(x)
    BY ChunkFacts, LengthAssumption DEF Reading, BeforeLength, ContextLen
  <2> QED BY <2>2, <2>3, ReadingFacts
<1>7. PICK s : s = d.src
  OBVIOUS
<1>8. s \in Seq(Octets) /\ Len(s) \in Nat /\ View(s, u, x, c)
  <2>1. d.src \in Seq(Octets) /\ View(d.src, u, x, c)
    BY <1>5, UsedFacts DEF In
  <2> QED BY <1>7, <2>1
<1>9. Leading("body", s) = IF Len(s) < x.size THEN Len(s) ELSE x.size
  <2>1. \A i \in 1 .. x.size : WirePart(x, u + i) = "body"
    BY <1>6 DEF WirePart
  <2>2. u + x.size <= WireLen(x) /\ ~(u + x.size < WireLen(x)) /\ "body" \in Parts \ {"code"}
    BY <1>6 DEF Parts
  <2>3. x.size \in Nat
    BY <1>6
  <2>4. Follows("body", x, u, x.size)
    BY <2>1, <2>2, <2>3 DEF Follows
  <2> QED BY <1>8, <2>4, LeadingOfView
<1>10. PICK limit \in Nat : limit = MaxCompressLen(x.length)
  BY ReadingFacts
<1>11. CASE x.size <= limit /\ Len(s) >= x.size
  <2>1. PICK t : t = Drop(s, x.size)
    OBVIOUS
  <2>2. x.size \in 0 .. Len(s)
    BY <1>6, <1>8, <1>11
  <2>3. t \in Seq(Octets)
    BY <1>8, <2>1, <2>2, DropIs
  <2>4. f = [d EXCEPT !.src = t, !.out = "some"]
    <3>1. Leading("body", d.src) >= x.size
      BY <1>6, <1>7, <1>8, <1>9, <1>11
    <3>2. x.size <= MaxCompressLen(x.length)
      BY <1>10, <1>11
    <3>3. f = [d EXCEPT !.src = Drop(d.src, x.size), !.out = "some"]
      BY <1>1, <1>4, <3>1, <3>2 DEF decode_body
    <3> QED BY <1>7, <2>1, <3>3
  <2>5. /\ f \in Decoder /\ f.out = "some" /\ f.code = d.code /\ f.fork = d.fork
        /\ f.len = d.len /\ f.src = t
    BY <1>3, <2>3, <2>4 DEF Decoder
  <2>6. Complete(d, f, x, c)
    <3>1. f.src = Drop(d.src, x.size) /\ x.size \in 0 .. Len(d.src)
          /\ UsedOf(d, x) + x.size = WireLen(x)
      BY <1>5, <1>6, <1>7, <2>1, <2>2, <2>5
    <3> QED BY <1>3, <2>5, <3>1 DEF Complete
  <2>7. PICK ok : ok = (\/ IsError(f)
                        \/ SszDecodes(Chunk(IF f.fork = <<>> THEN f.len ELSE f.fork).fork,
                                      Chunk(f.len).length))
    OBVIOUS
  <2>8. e = [f EXCEPT !.out = IF ok THEN "some" ELSE "error"]
    BY <1>2, <2>5, <2>7 DEF finish
  <2>9. /\ e \in Decoder /\ e.out = (IF ok THEN "some" ELSE "error")
        /\ e.code = f.code /\ e.fork = f.fork /\ e.len = f.len /\ e.src = f.src
    BY <2>5, <2>8 DEF Decoder
  <2>10. ASSUME Ours(x)
         PROVE  ok
    <3>1. x.code = "error" \/ SszDecodes(x.fork, x.length)
      BY <2>10, OursAccepted DEF Reading
    <3>2. Chunk(IF f.fork = <<>> THEN f.len ELSE f.fork) = x
      <4>1. CASE HasContext(x)
        <5>1. f.fork = <<"context", c>> /\ f.fork # <<>>
          BY <1>3, <2>5, <4>1
        <5>2. Chunk(f.fork) = x
          BY <5>1 DEF Reading
        <5> QED BY <5>1, <5>2
      <4>2. CASE ~HasContext(x)
        <5>1. f.fork = <<>> /\ Chunk(f.len) = x
          BY <1>3, <1>4, <2>5, <4>2
        <5> QED BY <5>1
      <4> QED BY <4>1, <4>2
    <3>3. Chunk(f.len).length = x.length
      BY <1>4, <2>5
    <3>4. x.code = "error" => IsError(f)
      <4>1. IsError(d) <=> x.code = "error"
        BY IsErrorIs DEF Lengthed
      <4> QED BY <2>5, <4>1 DEF IsError
    <3>5. CASE x.code = "error"
      BY <2>7, <3>4, <3>5
    <3>6. CASE SszDecodes(x.fork, x.length)
      <4>1. SszDecodes(Chunk(IF f.fork = <<>> THEN f.len ELSE f.fork).fork,
                       Chunk(f.len).length)
        BY <3>2, <3>3, <3>6, Zenon
      <4> QED BY <2>7, <4>1
    <3> QED BY <3>1, <3>5, <3>6
  <2>11. e.out = "some" => Complete(d, e, x, c)
    BY <2>6, <2>9 DEF Complete
  <2> QED BY <2>9, <2>10, <2>11
<1>12. CASE ~(x.size <= limit /\ Len(s) >= x.size)
  <2>1. PICK out \in {"error", "none"} : out = handle_error(Len(s), limit)
    BY DEF handle_error
  <2>2. f = [d EXCEPT !.out = out]
    <3>1. ~(x.size <= MaxCompressLen(x.length) /\ Leading("body", d.src) >= x.size)
      BY <1>6, <1>7, <1>8, <1>9, <1>10, <1>12
    <3>2. f = [d EXCEPT !.out = handle_error(Len(d.src), MaxCompressLen(x.length))]
      BY <1>1, <1>4, <3>1 DEF decode_body
    <3> QED BY <1>7, <1>10, <2>1, <3>2
  <2>3. /\ In(f, x, c) /\ Consumed(d, f, x)
        /\ f.out = out /\ f.code = d.code /\ f.fork = d.fork /\ f.len = d.len
        /\ f.src = d.src /\ UsedOf(f, x) = UsedOf(d, x)
    BY <2>2, OutOnly
  <2>4. e = f
    BY <1>2, <2>1, <2>3 DEF finish
  <2>5. ASSUME Ours(x)
        PROVE  x.size <= limit /\ Len(s) < x.size /\ Len(s) < limit
    <3>1. x.size <= limit
      BY <1>10, <2>5, OursAccepted DEF Reading
    <3> QED BY <1>6, <1>8, <1>12, <3>1
  <2>6. CASE Len(s) >= limit
    <3>1. out = "error"
      BY <2>1, <2>6 DEF handle_error
    <3>2. ~Ours(x)
      BY <1>8, <2>5, <2>6
    <3> QED BY <2>3, <2>4, <3>1, <3>2 DEF In
  <2>7. CASE ~(Len(s) >= limit)
    <3>1. out = "none"
      BY <2>1, <2>7 DEF handle_error
    <3>2. FewBytes(d.len, Len(s))
      <4>1. x.length <= max_packet_size
        BY ReadingFacts DEF LengthRefused, is_out_of_bounds
      <4> QED BY <1>3, <1>4, <1>8, <1>10, <2>7, <4>1 DEF FewBytes
    <3>3. Holds(x, c, d.code, d.fork, d.len, d.src)
      <4>1. x.size # 0
        BY <1>6, <1>8, <1>10, <1>12
      <4>2. /\ d.code # <<>> => Responds
            /\ d.fork # <<>> => HasContext(x) /\ d.code # <<>>
        BY DEF In
      <4> QED BY <1>3, <4>1, <4>2 DEF Holds
    <3>4. ASSUME Ours(x)
          PROVE  UsedOf(d, x) + Len(s) < WireLen(x)
      BY <1>5, <1>6, <1>8, <2>5, <3>4
    <3>5. Dry(f, x, c)
      BY <1>7, <2>3, <3>2, <3>3, <3>4 DEF Dry
    <3> QED BY <2>3, <2>4, <3>1, <3>5 DEF In
  <2> QED BY <2>6, <2>7
<1> QED BY <1>11, <1>12

(* A result that is decided is left alone. *)
LEMMA Decided ==
    ASSUME NEW d, d.out \in {"none", "error"}
    PROVE  /\ decode_context(d) = d
           /\ handle_length(d) = d
           /\ check_length(d) = d
           /\ finish(decode_body(d)) = d
BY DEF decode_context, handle_length, check_length, decode_body, finish

(* A chunk that is complete for the last part is so for the whole call. *)
LEMMA CompleteLater ==
    ASSUME NEW x, NEW c, Reading(x, c), NEW d, In(d, x, c), NEW f, In(f, x, c), NEW e,
           Consumed(d, f, x), Complete(f, e, x, c)
    PROVE  Complete(d, e, x, c)
<1>1. PICK j \in 0 .. Len(d.src) : f.src = Drop(d.src, j) /\ UsedOf(f, x) = UsedOf(d, x) + j
  BY DEF Consumed
<1>2. PICK k \in 0 .. Len(f.src) : e.src = Drop(f.src, k) /\ UsedOf(f, x) + k = WireLen(x)
  BY DEF Complete
<1>3. Len(f.src) = Len(d.src) - j
  BY <1>1, UsedFacts, DropIs
<1>4. k \in 0 .. Len(d.src) - j /\ j + k \in 0 .. Len(d.src)
  BY <1>3, UsedFacts
<1>5. e.src = Drop(d.src, j + k)
  BY <1>1, <1>2, <1>4, UsedFacts, DropDrop
<1>6. UsedOf(d, x) + (j + k) = WireLen(x)
  BY <1>1, <1>2, UsedFacts
<1> QED BY <1>4, <1>5, <1>6 DEF Complete

(* A call of decode: it waits with what it has consumed, returns the whole *)
(* chunk, or refuses it.                                                   *)
LEMMA DecodeIs ==
    ASSUME NEW x, NEW c, Reading(x, c), NEW d, In(d, x, c), d.out = "go",
           Holds(x, c, d.code, d.fork, d.len, d.src), NEW e
    PROVE  e = decode(d) =>
           /\ e \in Decoder
           /\ e.out \in {"none", "some", "error"}
           /\ e.out = "none" => In(e, x, c) /\ Consumed(d, e, x) /\ Dry(e, x, c)
           /\ e.out = "error" => ~Ours(x)
           /\ e.out = "some" => Complete(d, e, x, c)
<1>a. HAVE e = decode(d)
<1>1. PICK d1 : d1 = decode_code(d)
  OBVIOUS
<1>2. PICK d2 : d2 = decode_context(d1)
  OBVIOUS
<1>3. PICK d3 : d3 = handle_length(d2)
  OBVIOUS
<1>4. PICK d4 : d4 = check_length(d3)
  OBVIOUS
<1>5. e = finish(decode_body(d4))
  BY <1>a, <1>1, <1>2, <1>3, <1>4, Zenon DEF decode
<1>6. /\ In(d1, x, c) /\ Consumed(d, d1, x) /\ d1.out \in {"go", "none"}
      /\ d1.out = "none" => Dry(d1, x, c)
      /\ d1.out = "go" => Coded(d1, x)
  BY <1>1, CodeStage
<1>7. CASE d1.out = "none"
  <2>1. e = d1
    BY <1>2, <1>3, <1>4, <1>5, <1>7, Decided
  <2> QED BY <1>6, <1>7, <2>1 DEF In
<1>8. CASE d1.out = "go"
  <2>1. /\ d2 \in Decoder /\ d2.out \in {"go", "none", "error"}
        /\ d2.out # "error" => In(d2, x, c) /\ Consumed(d1, d2, x)
        /\ d2.out = "none" => Dry(d2, x, c)
        /\ d2.out = "error" => ~Ours(x)
        /\ d2.out = "go" => Headed(d2, x)
    BY <1>2, <1>6, <1>8, ContextStage
  <2>2. d2.out # "error" => Consumed(d, d2, x)
    BY <1>6, <2>1, ConsumedTwice
  <2>3. CASE d2.out \in {"none", "error"}
    <3>1. e = d2
      BY <1>3, <1>4, <1>5, <2>3, Decided
    <3> QED BY <2>1, <2>2, <2>3, <3>1
  <2>4. CASE d2.out = "go"
    <3>1. /\ In(d3, x, c) /\ Consumed(d2, d3, x) /\ d3.out \in {"go", "none"}
          /\ d3.out = "none" => Dry(d3, x, c)
          /\ d3.out = "go" => Lengthed(d3, x)
      BY <1>3, <2>1, <2>4, LengthStage
    <3>2. Consumed(d, d3, x)
      BY <2>1, <2>2, <2>4, <3>1, ConsumedTwice
    <3>3. CASE d3.out = "none"
      <4>1. e = d3
        BY <1>4, <1>5, <3>3, Decided
      <4> QED BY <3>1, <3>2, <3>3, <4>1 DEF In
    <3>4. CASE d3.out = "go"
      <4>1. /\ d4 \in Decoder /\ In(d4, x, c) /\ Consumed(d3, d4, x)
            /\ d4.out \in {"go", "error"}
            /\ d4.out = "error" => ~Ours(x)
            /\ d4.out = "go" => Lengthed(d4, x) /\ ~LengthRefused(x.code = "error", x.length)
        BY <1>4, <3>1, <3>4, CheckStage
      <4>2. Consumed(d, d4, x)
        BY <3>1, <3>2, <4>1, ConsumedTwice
      <4>3. CASE d4.out = "error"
        <5>1. e = d4
          BY <1>5, <4>3, Decided
        <5> QED BY <4>1, <4>3, <5>1
      <4>4. CASE d4.out = "go"
        <5>1. Lengthed(d4, x) /\ ~LengthRefused(x.code = "error", x.length)
          BY <4>1, <4>4, Zenon
        <5>2. /\ e \in Decoder /\ e.out \in {"none", "some", "error"}
              /\ e.out = "none" => In(e, x, c) /\ Consumed(d4, e, x) /\ Dry(e, x, c)
              /\ e.out = "error" => ~Ours(x)
              /\ e.out = "some" => Complete(d4, e, x, c)
          BY <1>5, <4>1, <4>4, <5>1, BodyStage
        <5>3. e.out = "none" => Consumed(d, e, x)
          BY <4>1, <4>2, <5>2, ConsumedTwice
        <5>4. e.out = "some" => Complete(d, e, x, c)
          BY <4>1, <4>2, <5>2, CompleteLater
        <5> QED BY <5>2, <5>3, <5>4
      <4> QED BY <4>1, <4>3, <4>4
    <3> QED BY <3>1, <3>3, <3>4
  <2> QED BY <2>1, <2>3, <2>4
<1> QED BY <1>6, <1>7, <1>8

(* With no chunk begun and no byte there is nothing to do. *)
LEMMA DecodeNothing ==
    ASSUME NEW d, d.src = <<>>, d.len = <<>>, d.fork = <<>>, d.code = <<>>, d.out = "go",
           d \in Decoder
    PROVE  decode(d) = [d EXCEPT !.out = "none"]
<1>1. CASE Responds
  <2>1. PICK f : f = [d EXCEPT !.out = "none"]
    OBVIOUS
  <2>2. Len(d.src) <= 1
    OBVIOUS
  <2>3. decode_code(d) = f
    BY <1>1, <2>1, <2>2 DEF decode_code
  <2>4. f.out = "none"
    BY <2>1 DEF Decoder
  <2>5. /\ decode_context(f) = f /\ handle_length(f) = f /\ check_length(f) = f
        /\ finish(decode_body(f)) = f
    BY <2>4, Decided
  <2>6. decode(d) = f
    BY <2>3, <2>5, Zenon DEF decode
  <2> QED BY <2>1, <2>6
<1>2. CASE ~Responds
  <2>1. decode_code(d) = d /\ decode_context(d) = d
    BY <1>2 DEF decode_code, decode_context
  <2>2. PICK f : f = [d EXCEPT !.out = "none"]
    OBVIOUS
  <2>3. handle_length(d) = f
    BY <2>2 DEF handle_length
  <2>4. f.out = "none"
    BY <2>2 DEF Decoder
  <2>5. check_length(f) = f /\ finish(decode_body(f)) = f
    BY <2>4, Decided
  <2>6. decode(d) = f
    BY <2>1, <2>3, <2>5, Zenon DEF decode
  <2> QED BY <2>2, <2>6
<1> QED BY <1>1, <1>2

-----------------------------------------------------------------------------
(* The steps.                                                              *)

(* The stream's protocol and direction never change, and with them what is *)
(* said of a chunk.                                                        *)
LEMMA SameStream ==
    ASSUME stream' = stream
    PROVE  /\ Responds' <=> Responds
           /\ MetaDataRequest' <=> MetaDataRequest
           /\ \A y : HasContext(y)' <=> HasContext(y)
           /\ \A y : WireLen(y)' = WireLen(y)
           /\ \A y, j : WirePart(y, j)' = WirePart(y, j)
<1>1. Responds' <=> Responds
  BY DEF Responds
<1>2. MetaDataRequest' <=> MetaDataRequest
  BY <1>1 DEF MetaDataRequest
<1>3. \A y : HasContext(y)' <=> HasContext(y)
  BY DEF HasContext, has_context_bytes
<1>4. \A y : ContextLen(y)' = ContextLen(y)
  BY <1>3 DEF ContextLen
<1>5. CodeLen' = CodeLen
  BY <1>1 DEF CodeLen
<1>6. \A y : BeforeLength(y)' = BeforeLength(y)
  BY <1>4, <1>5 DEF BeforeLength
<1>7. \A y : HeadLen(y)' = HeadLen(y)
  BY <1>6 DEF HeadLen
<1>8. \A y : WireLen(y)' = WireLen(y)
  BY <1>2, <1>7 DEF WireLen
<1>9. \A y, j : WirePart(y, j)' = WirePart(y, j)
  BY <1>5, <1>6, <1>7 DEF WirePart
<1> QED BY <1>1, <1>2, <1>3, <1>8, <1>9

(* So with the limits, and with what our encoder is given. *)
LEMMA SameItems ==
    ASSUME stream' = stream
    PROVE  /\ Items' = Items
           /\ \A y : Ours(y)' <=> Ours(y)
           /\ \A b, l : LengthRefused(b, l)' <=> LengthRefused(b, l)
<1>1. /\ rpc_request_limits' = rpc_request_limits
      /\ rpc_response_limits' = rpc_response_limits
  BY Zenon DEF rpc_request_limits, rpc_response_limits
<1>2. Successes' = Successes
  BY Zenon DEF Successes
<1>3. Requests' = Requests
  BY <1>1, Zenon DEF Requests
<1>4. Items' = Items
  BY <1>2, <1>3 DEF Items, Responds, Errors
<1>5. \A y : Ours(y)' <=> Ours(y)
  BY <1>4 DEF Ours, LaterFork
<1>6. \A b, l : LengthRefused(b, l)' <=> LengthRefused(b, l)
  BY <1>1, Zenon DEF LengthRefused, Responds
<1> QED BY <1>4, <1>5, <1>6

(* What the decoder keeps of a chunk is said of it whatever is sent.       *)
LEMMA SameHolds ==
    ASSUME stream' = stream
    PROVE  \A x, c, code, fork, length, bytes :
              Holds(x, c, code, fork, length, bytes)'
                 <=> Holds(x, c, code, fork, length, bytes)
<1> SUFFICES ASSUME NEW x, NEW c, NEW code, NEW fork, NEW length, NEW bytes
             PROVE  Holds(x, c, code, fork, length, bytes)'
                       <=> Holds(x, c, code, fork, length, bytes)
  OBVIOUS
<1>1. (Responds' <=> Responds) /\ (HasContext(x)' <=> HasContext(x))
  BY SameStream
<1>2. LengthRefused(x.code = "error", x.length)' <=> LengthRefused(x.code = "error", x.length)
  BY SameItems, Zenon
<1> QED BY <1>1, <1>2, Zenon DEF Holds

(* Sequences and records over larger sets. *)
LEMMA SeqLarger ==
    ASSUME NEW S, NEW T, S \subseteq T, NEW s \in Seq(S)
    PROVE  s \in Seq(T)
<1>1. s \in [1 .. Len(s) -> T]
  OBVIOUS
<1> QED BY <1>1

(* A chunk added at the end of the stream leaves the others their places.  *)
LEMMA PlacesGrow ==
    ASSUME CodecTypes, stream' = stream, NEW x \in ChunkType, sent' = Append(sent, x),
           NEW at, Places(at), NEW more
    PROVE  more = [n \in 1 .. Len(sent) + 2 |->
                      IF n = Len(sent) + 2 THEN at[Len(sent) + 1] + WireLen(x) ELSE at[n]]
           => Places(more)'
<1>a. HAVE more = [n \in 1 .. Len(sent) + 2 |->
                      IF n = Len(sent) + 2 THEN at[Len(sent) + 1] + WireLen(x) ELSE at[n]]
<1>1. sent \in Seq(ChunkType) /\ Len(sent) \in Nat
  BY DEF CodecTypes
<1>2. /\ Len(sent') = Len(sent) + 1 /\ sent'[Len(sent) + 1] = x
      /\ \A n \in 1 .. Len(sent) : sent'[n] = sent[n]
  BY <1>1
<1>3. PICK L \in Nat : L = Len(sent)
  BY <1>1
<1>4. WireLen(x) \in Nat
  BY ChunkFacts
<1>5. at \in [1 .. L + 1 -> Nat]
  BY <1>3 DEF Places
<1>6. more \in [1 .. L + 2 -> Nat]
  BY <1>a, <1>3, <1>4, <1>5
<1>7. /\ more[L + 2] = at[L + 1] + WireLen(x)
      /\ \A n \in 1 .. L + 1 : more[n] = at[n]
  BY <1>a, <1>3
<1>8. ASSUME NEW n \in 1 .. L + 1
      PROVE  more[n + 1] = more[n] + WireLen(sent[n])'
  <2>1. CASE n = L + 1
    BY <1>2, <1>3, <1>7, <2>1, SameStream
  <2>2. CASE n \in 1 .. L
    <3>1. more[n + 1] = at[n + 1] /\ more[n] = at[n]
      BY <1>7, <2>2
    <3>2. at[n + 1] = at[n] + WireLen(sent[n])
      BY <1>3, <2>2 DEF Places
    <3>3. WireLen(sent[n])' = WireLen(sent[n])
      BY <1>2, <1>3, <2>2, SameStream
    <3> QED BY <3>1, <3>2, <3>3
  <2>3. n = L + 1 \/ n \in 1 .. L
    BY <1>3
  <2> QED BY <2>1, <2>2, <2>3
<1>9. ASSUME NEW m \in 1 .. L + 2, NEW n \in 1 .. L + 2, m <= n
      PROVE  more[m] <= more[n]
  <2>1. CASE n = L + 2 /\ m = L + 2
    BY <1>6, <2>1
  <2>2. CASE n = L + 2 /\ m \in 1 .. L + 1
    <3>1. at[m] <= at[L + 1]
      BY <1>3, <2>2 DEF Places
    <3>2. at[m] \in Nat /\ at[L + 1] \in Nat
      BY <1>5, <2>2
    <3> QED BY <1>4, <1>7, <2>2, <3>1, <3>2
  <2>3. CASE n \in 1 .. L + 1
    <3>1. m \in 1 .. L + 1
      BY <1>9, <2>3
    <3>2. at[m] <= at[n]
      BY <1>3, <1>9, <2>3, <3>1 DEF Places
    <3> QED BY <1>7, <2>3, <3>1, <3>2
  <2> QED BY <1>9, <2>1, <2>2, <2>3
<1>10. Len(sent') + 1 = L + 2 /\ Len(sent') = L + 1
  BY <1>2, <1>3
<1> QED BY <1>6, <1>8, <1>9, <1>10 DEF Places

(* A chunk e bytes of which are written into a flushed buffer. *)
Writes(x, e) ==
    /\ ~closing /\ dst = <<>>
    /\ x \in ChunkType /\ (x.code = "none" <=> ~Responds)
    /\ sent' = Append(sent, x)
    /\ dst' = e
    /\ e \in Seq(Octets')
    /\ Len(e) <= WireLen(x)
    /\ ~broken' => Len(e) = WireLen(x)
    /\ \A i \in 1 .. Len(e) : e[i] = <<WirePart(x, i), Len(sent) + 1>>
    /\ broken' \in BOOLEAN /\ closing' \in BOOLEAN
    /\ broken' => closing'
    /\ ~Responds => closing'
    /\ UNCHANGED <<stream, src, eof, decoder, decoded, reader>>

(* The stream that is written and not broken ends where it is written on. *)
LEMMA UsedSame ==
    ASSUME CodecInv, Alive, NEW x, NEW e, Writes(x, e)
    PROVE  /\ UsedNow' = UsedNow /\ UsedNow \in Nat
           /\ Current' = Current /\ Current \in 1 .. Len(sent) + 1
           /\ Current = Len(sent) + 1 => UsedNow = 0
<1>1. sent \in Seq(ChunkType) /\ Len(sent) \in Nat
  BY DEF CodecInv, CodecTypes
<1>2. \A n \in 1 .. Len(sent) : sent'[n] = sent[n]
  BY <1>1 DEF Writes
<1>3. /\ Current' = Current
      /\ current_response_code' = current_response_code /\ fork_name' = fork_name /\ len' = len
  BY DEF Writes, Current, decoder
<1>4. Current \in 1 .. Len(sent) + 1
  BY <1>1 DEF CodecInv, CodecTypes, Current
<1>5. CASE Current = Len(sent) + 1
  <2>1. current_response_code = <<>> /\ fork_name = <<>> /\ len = <<>>
    BY <1>5 DEF CodecInv, Held
  <2> QED BY <1>3, <1>4, <2>1 DEF UsedNow, Used
<1>6. CASE Current \in 1 .. Len(sent)
  <2>1. sent'[Current'] = sent[Current] /\ sent[Current] \in ChunkType
    BY <1>1, <1>2, <1>3, <1>6
  <2>2. VarintLen(sent[Current].length) \in Nat /\ CONTEXT_BYTES_LEN \in Nat
    BY <2>1, ChunkFacts, LengthAssumption
  <2>3. UsedNow \in Nat
    BY <2>2 DEF UsedNow, Used
  <2>4. UsedNow' = UsedNow
    BY <1>3, <2>1 DEF UsedNow, Used
  <2> QED BY <1>1, <1>3, <1>4, <1>6, <2>3, <2>4
<1> QED BY <1>1, <1>4, <1>5, <1>6

(* The bytes that are written are those of the new chunk, at its place. *)
LEMMA WritesLayout ==
    ASSUME CodecInv, Alive, NEW x, NEW e, Writes(x, e)
    PROVE  Layout'
<1>1. PICK at : Places(at) /\ Laid(at)
  BY DEF CodecInv, Layout
<1>2. sent \in Seq(ChunkType) /\ src \in Seq(Octets) /\ e \in Seq(Octets') /\ dst = <<>>
      /\ stream' = stream /\ src' = src /\ dst' = e /\ ~broken /\ x \in ChunkType
      /\ sent' = Append(sent, x)
  BY DEF CodecInv, CodecTypes, WriterInv, Writes
<1>3. PICK L \in Nat : L = Len(sent)
  BY <1>2
<1>4. PICK more : more = [n \in 1 .. Len(sent) + 2 |->
                      IF n = Len(sent) + 2 THEN at[Len(sent) + 1] + WireLen(x) ELSE at[n]]
  OBVIOUS
<1>5. Places(more)'
  BY <1>1, <1>2, <1>4, PlacesGrow DEF CodecInv
<1>6. at \in [1 .. L + 1 -> Nat]
  BY <1>1, <1>3 DEF Places
<1>7. /\ more[L + 2] = at[L + 1] + WireLen(x)
      /\ \A n \in 1 .. L + 1 : more[n] = at[n]
  BY <1>3, <1>4
<1>8. WireLen(x) \in Nat
  BY <1>2, ChunkFacts
<1>9. PICK B \in Nat : B = at[Current] + UsedNow
  BY <1>3, <1>6, UsedSame
<1>10. (more[Current] + UsedNow)' = B
  <2>1. more[Current'] = at[Current]
    BY <1>3, <1>7, UsedSame
  <2> QED BY <1>9, <2>1, UsedSame
<1>11. PICK s : s = src
  OBVIOUS
<1>12. s \in Seq(Octets) /\ src \o dst = s /\ Len(s) \in Nat
  BY <1>2, <1>11
<1>13. B + Len(s) = at[L + 1]
  BY <1>1, <1>2, <1>3, <1>9, <1>12 DEF Laid
<1>14. \A n \in 1 .. L : \A i \in 1 .. Len(s) :
          at[n] < B + i /\ B + i <= at[n + 1] => s[i] = <<WirePart(sent[n], B + i - at[n]), n>>
  BY <1>1, <1>3, <1>9, <1>12 DEF Laid
<1>15. PICK t : t = s \o e
  OBVIOUS
<1>16. PICK k \in Nat : k = Len(e)
  BY <1>2
<1>17. /\ Len(t) = Len(s) + k
       /\ \A i \in 1 .. Len(s) : t[i] = s[i]
       /\ \A j \in 1 .. k : t[Len(s) + j] = e[j]
  BY <1>2, <1>12, <1>15, <1>16
<1>18. (src \o dst)' = t
  BY <1>2, <1>11, <1>15
<1>19. /\ \A n \in 1 .. L : sent'[n] = sent[n]
       /\ sent'[L + 1] = x /\ Len(sent') = L + 1
  BY <1>2, <1>3
<1>20. k <= WireLen(x) /\ (~broken' => k = WireLen(x))
       /\ \A j \in 1 .. k : e[j] = <<WirePart(x, j), L + 1>>
  BY <1>3, <1>16 DEF Writes
<1>21. ASSUME NEW n \in 1 .. L + 1, NEW i \in 1 .. Len(t),
              more[n] < B + i, B + i <= more[n + 1]
       PROVE  t[i] = <<WirePart(sent[n], B + i - more[n])', n>>
  <2>1. CASE i \in 1 .. Len(s)
    <3>1. n \in 1 .. L
      <4>1. ASSUME n = L + 1
            PROVE  FALSE
        BY <1>6, <1>7, <1>12, <1>13, <1>21, <2>1, <4>1
      <4> QED BY <4>1
    <3>2. more[n] = at[n] /\ more[n + 1] = at[n + 1]
      BY <1>7, <3>1
    <3>3. s[i] = <<WirePart(sent[n], B + i - at[n]), n>>
      BY <1>14, <1>21, <2>1, <3>1, <3>2
    <3> QED BY <1>2, <1>17, <1>19, <2>1, <3>1, <3>2, <3>3, SameStream
  <2>2. CASE i \in Len(s) + 1 .. Len(s) + k
    <3>1. PICK j \in 1 .. k : i = Len(s) + j
      <4>1. i - Len(s) \in 1 .. k /\ i = Len(s) + (i - Len(s))
        BY <1>12, <2>2
      <4> QED BY <4>1
    <3>2. n = L + 1
      <4>1. ASSUME n \in 1 .. L
            PROVE  FALSE
        <5>1. more[n + 1] = at[n + 1] /\ at[n + 1] \in Nat /\ at[L + 1] \in Nat
          BY <1>6, <1>7, <4>1
        <5>2. at[n + 1] <= at[L + 1]
          BY <1>1, <1>3, <4>1 DEF Places
        <5> QED BY <1>12, <1>13, <1>21, <3>1, <5>1, <5>2
      <4> QED BY <4>1
    <3>3. more[n] = at[L + 1] /\ B + i - more[n] = j
      BY <1>6, <1>7, <1>12, <1>13, <3>1, <3>2
    <3>4. t[i] = <<WirePart(x, j), L + 1>>
      BY <1>17, <1>20, <3>1
    <3>5. WirePart(sent[n], B + i - more[n])' = WirePart(x, j)
      BY <1>2, <1>19, <3>2, <3>3, SameStream
    <3> QED BY <3>2, <3>4, <3>5
  <2> QED BY <1>12, <1>17, <2>1, <2>2
<1>22. /\ B + Len(t) <= more[L + 2]
       /\ ~broken' => B + Len(t) = more[L + 2]
  BY <1>6, <1>7, <1>8, <1>12, <1>13, <1>17, <1>20
<1>23. Laid(more)'
  <2>1. Len(sent') + 1 = L + 2 /\ Len(sent') = L + 1
    BY <1>19
  <2> QED BY <1>10, <1>18, <1>21, <1>22, <2>1 DEF Laid
<1> QED BY <1>5, <1>23 DEF Layout

(* The decoder is where it was: in a chunk, or before the one that is new. *)
LEMMA WritesHeld ==
    ASSUME CodecInv, Alive, NEW x, NEW e, Writes(x, e)
    PROVE  Held'
<1>1. /\ sent \in Seq(ChunkType) /\ Len(sent) \in Nat /\ stream' = stream /\ src' = src
      /\ Len(sent') = Len(sent) + 1 /\ sent'[Len(sent) + 1] = x
      /\ \A n \in 1 .. Len(sent) : sent'[n] = sent[n]
      /\ current_response_code' = current_response_code /\ fork_name' = fork_name /\ len' = len
  BY DEF CodecInv, CodecTypes, Writes, decoder
<1>2. PICK c \in 1 .. Len(sent) + 1 : c = Current /\ c = Current'
  BY UsedSame
<1>3. c # Len(sent') + 1
  BY <1>1
<1>4. CASE c = Len(sent) + 1
  <2>1. current_response_code = <<>> /\ fork_name = <<>> /\ len = <<>>
    BY <1>2, <1>4 DEF CodecInv, Held
  <2>2. Holds(x, c, <<>>, <<>>, <<>>, src)
    BY DEF Holds
  <2>3. Holds(x, c, <<>>, <<>>, <<>>, src)'
    BY <1>1, <2>2, SameHolds
  <2>4. sent'[c] = x
    BY <1>1, <1>4
  <2> QED BY <1>1, <1>2, <1>3, <2>1, <2>3, <2>4 DEF Held
<1>5. CASE c \in 1 .. Len(sent)
  <2>1. c # Len(sent) + 1 /\ sent'[c] = sent[c]
    BY <1>1, <1>5
  <2>2. Holds(sent[c], c, current_response_code, fork_name, len, src)
    BY <1>2, <2>1 DEF CodecInv, Held
  <2>3. PICK y : y = sent[c]
    OBVIOUS
  <2>4. Holds(y, c, current_response_code, fork_name, len, src)'
    BY <1>1, <2>2, <2>3, SameHolds
  <2> QED BY <1>1, <1>2, <1>3, <2>1, <2>3, <2>4 DEF Held
<1> QED BY <1>1, <1>4, <1>5

(* What was kept is kept among more chunks. *)
LEMMA WritesTypes ==
    ASSUME CodecInv, NEW x, NEW e, Writes(x, e)
    PROVE  CodecTypes'
<1>1. /\ stream \in Streams /\ eof \in BOOLEAN
      /\ reader \in {"reading", "dry", "failed", "ended"}
      /\ sent \in Seq(ChunkType)
      /\ \A n \in 1 .. Len(sent) : sent[n].code = "none" <=> ~Responds
      /\ src \in Seq(Octets)
      /\ current_response_code \in Kept("code")
      /\ fork_name \in Kept("context")
      /\ len \in Kept("length")
      /\ decoded \in Seq([code : Kept("code"), fork : Kept("context"), len : Kept("length")])
      /\ Len(decoded) <= Len(sent)
  BY DEF CodecInv, CodecTypes
<1>2. /\ stream' = stream /\ eof' = eof /\ reader' = reader /\ sent' = Append(sent, x)
      /\ dst' \in Seq(Octets') /\ src' = src /\ decoded' = decoded
      /\ current_response_code' = current_response_code /\ fork_name' = fork_name /\ len' = len
      /\ closing' \in BOOLEAN /\ broken' \in BOOLEAN
      /\ x \in ChunkType /\ (x.code = "none" <=> ~Responds)
  BY DEF Writes, decoder
<1>3. PICK L \in Nat : L = Len(sent)
  BY <1>1
<1>4. /\ Len(sent') = L + 1 /\ sent'[L + 1] = x
      /\ \A n \in 1 .. L : sent'[n] = sent[n]
  BY <1>1, <1>2, <1>3
<1>5. sent' \in Seq(ChunkType')
  <2>1. ChunkType' = ChunkType
    BY DEF ChunkType
  <2> QED BY <1>1, <1>2, <2>1
<1>6. \A n \in 1 .. Len(sent') : sent'[n].code = "none" <=> ~Responds'
  BY <1>1, <1>2, <1>3, <1>4, SameStream
<1>7. 1 .. L \subseteq 1 .. L + 1
  OBVIOUS
<1>8. Octets \subseteq Octets' /\ \A p : Kept(p) \subseteq Kept(p)'
  BY <1>3, <1>4, <1>7 DEF Octets, Kept
<1>9. src' \in Seq(Octets')
  BY <1>1, <1>2, <1>8, SeqLarger
<1>10. decoded' \in Seq([code : Kept("code"), fork : Kept("context"), len : Kept("length")]')
  <2>1. PICK S : S = [code : Kept("code"), fork : Kept("context"), len : Kept("length")]
    OBVIOUS
  <2>2. PICK T : T = [code : Kept("code"), fork : Kept("context"), len : Kept("length")]'
    OBVIOUS
  <2>3. S \subseteq T
    BY <1>8, <2>1, <2>2
  <2>4. decoded \in Seq(S)
    BY <1>1, <2>1
  <2>5. decoded \in Seq(T)
    BY <2>3, <2>4, SeqLarger
  <2> QED BY <1>2, <2>2, <2>5
<1>11. Len(decoded') <= Len(sent')
  BY <1>1, <1>2, <1>3, <1>4
<1>12. stream' \in Streams'
  BY <1>1, <1>2 DEF Streams, protocol_info
<1> QED BY <1>1, <1>2, <1>5, <1>6, <1>8, <1>9, <1>10, <1>11, <1>12 DEF CodecTypes

(* A chunk that is written keeps the invariant. *)
LEMMA WritesInv ==
    ASSUME CodecInv, NEW x, NEW e, Writes(x, e)
    PROVE  CodecInv'
<1>1. /\ stream' = stream /\ eof' = eof /\ reader' = reader /\ sent' = Append(sent, x)
      /\ src' = src /\ decoded' = decoded /\ len' = len
      /\ x \in ChunkType
      /\ ~closing /\ ~broken /\ ~eof
      /\ closing' \in BOOLEAN
  BY DEF Writes, decoder, CodecInv, WriterInv
<1>2. sent \in Seq(ChunkType) /\ Len(decoded) \in Nat /\ Len(decoded) <= Len(sent)
      /\ len \in Kept("length") /\ src \in Seq(Octets)
  BY DEF CodecInv, CodecTypes
<1>3. PICK L \in Nat : L = Len(sent)
  BY <1>2
<1>4. /\ Len(sent') = L + 1 /\ sent'[L + 1] = x
      /\ \A n \in 1 .. L : sent'[n] = sent[n]
  BY <1>1, <1>2, <1>3
<1>5. WriterInv'
  <2>1. ASSUME ~Responds'
        PROVE  Len(sent') <= 1 /\ (closing' <=> Len(sent') = 1)
    <3>1. ~Responds
      BY <1>1, <2>1, SameStream
    <3>2. L = 0 /\ closing'
      BY <1>1, <1>2, <1>3, <3>1 DEF CodecInv, WriterInv, Writes
    <3> QED BY <1>4, <3>2
  <2>2. MetaDataRequest' => reader' \notin {"dry", "failed"}
    BY <1>1, SameStream DEF CodecInv, WriterInv
  <2>3. broken' => closing'
    BY DEF Writes
  <2> QED BY <1>1, <2>1, <2>2, <2>3 DEF WriterInv
<1>6. Alive' => Layout' /\ Held'
  BY <1>1, WritesLayout, WritesHeld DEF Alive
<1>7. Alive' /\ ~Responds' => decoded' = <<>>
  BY <1>1, SameStream DEF Alive, CodecInv
<1>8. Waiting'
  <2>1. SUFFICES ASSUME reader = "dry"
                 PROVE  /\ (Current <= Len(sent) /\ Ours(sent[Current]) =>
                               UsedNow + Len(src) < WireLen(sent[Current]))'
                        /\ FewBytes(len, Len(src))'
    BY <1>1 DEF Waiting
  <2>2. Alive
    BY <2>1 DEF Alive
  <2>3. PICK c \in 1 .. L + 1 : c = Current /\ c = Current'
    BY <1>3, <2>2, UsedSame
  <2>4. FewBytes(len, Len(src))
    BY <2>1 DEF CodecInv, Waiting
  <2>5. FewBytes(len, Len(src))'
    <3>1. CASE len = <<>>
      BY <1>1, <2>4, <3>1 DEF FewBytes
    <3>2. CASE len # <<>>
      <4>1. PICK n \in 1 .. L : len = <<"length", n>>
        BY <1>2, <1>3, <3>2 DEF Kept
      <4>2. Chunk(len)' = Chunk(len)
        BY <1>1, <1>4, <4>1 DEF Chunk
      <4> QED BY <1>1, <2>4, <3>2, <4>2 DEF FewBytes
    <3> QED BY <3>1, <3>2
  <2>6. ASSUME c = L + 1
        PROVE  UsedNow' + Len(src') < WireLen(sent[c])'
    <3>1. UsedNow' = 0 /\ UsedNow = 0
      BY <1>3, <2>2, <2>3, <2>6, UsedSame
    <3>2. PICK at : Places(at) /\ Laid(at)
      BY <2>2 DEF CodecInv, Layout
    <3>3. at[L + 1] \in Nat
      BY <1>3, <3>2 DEF Places
    <3>4. src \o dst = src
      BY <1>2 DEF Writes
    <3>5. at[c] + 0 + Len(src) <= at[L + 1]
      BY <1>3, <2>3, <3>1, <3>2, <3>4 DEF Laid
    <3>6. Len(src) = 0
      BY <1>2, <2>6, <3>3, <3>5
    <3>7. ~MetaDataRequest
      BY <2>1 DEF CodecInv, WriterInv
    <3>8. WireLen(x) \in Nat /\ WireLen(x) >= 1
      BY <1>1, <3>7, ChunkFacts
    <3>9. WireLen(sent[c])' = WireLen(x)
      BY <1>1, <1>4, <2>6, SameStream
    <3> QED BY <1>1, <3>1, <3>6, <3>8, <3>9
  <2>7. ASSUME c \in 1 .. L, Ours(sent[c])'
        PROVE  UsedNow' + Len(src') < WireLen(sent[c])'
    <3>1. sent'[c] = sent[c]
      BY <1>4, <2>7
    <3>2. Ours(sent[c])
      BY <1>1, <2>7, <3>1, SameItems
    <3>3. UsedNow + Len(src) < WireLen(sent[c])
      BY <1>3, <2>1, <2>3, <2>7, <3>2 DEF CodecInv, Waiting
    <3>4. WireLen(sent[c])' = WireLen(sent[c])
      BY <1>1, <3>1, SameStream
    <3>5. UsedNow' = UsedNow
      BY <2>2, UsedSame
    <3> QED BY <1>1, <3>3, <3>4, <3>5
  <2>8. c = L + 1 \/ c \in 1 .. L
    OBVIOUS
  <2> QED BY <2>3, <2>5, <2>6, <2>7, <2>8
<1>9. Returned'
  <2>1. SUFFICES ASSUME NEW i \in 1 .. Len(decoded)
                 PROVE  decoded[i] = [code |-> IF Responds THEN <<"code", i>> ELSE <<>>,
                                      fork |-> IF HasContext(sent[i])' THEN <<"context", i>>
                                                                      ELSE <<>>,
                                      len |-> <<"length", i>>]
    BY <1>1, SameStream DEF Returned
  <2>2. sent'[i] = sent[i]
    BY <1>2, <1>3, <1>4
  <2>3. HasContext(sent[i])' <=> HasContext(sent[i])
    BY <1>1, <2>2, SameStream
  <2> QED BY <2>3 DEF CodecInv, Returned
<1>10. RejectsOnlyForeign'
  <2>1. SUFFICES ASSUME reader = "failed"
                 PROVE  Len(decoded') < Len(sent') /\ ~Ours(sent[Len(decoded) + 1])'
    BY <1>1 DEF RejectsOnlyForeign
  <2>2. Len(decoded) < Len(sent) /\ ~Ours(sent[Len(decoded) + 1])
    BY <1>1, <2>1 DEF CodecInv, RejectsOnlyForeign
  <2>3. PICK n \in 1 .. L : n = Len(decoded) + 1
    BY <1>2, <1>3, <2>2
  <2>4. sent'[n] = sent[n] /\ Len(decoded') + 1 = n /\ Len(decoded') < Len(sent')
    BY <1>1, <1>2, <1>3, <1>4, <2>2, <2>3
  <2>5. ~Ours(sent[n])' /\ sent'[Len(decoded') + 1] = sent'[n]
    BY <1>1, <2>2, <2>3, <2>4, SameItems
  <2> QED BY <2>4, <2>5, <2>3
<1> QED BY <1>5, <1>6, <1>7, <1>8, <1>9, <1>10, WritesTypes DEF CodecInv

(* Send writes a chunk of ours, or the start of one that is too long. *)
LEMMA SendInv ==
    ASSUME CodecInv, NEW chunk \in Items, NEW last_chunk \in BOOLEAN, Send(chunk, last_chunk)
    PROVE  CodecInv'
<1>1. stream \in Streams /\ sent \in Seq(ChunkType) /\ dst = <<>> /\ ~closing
  BY DEF CodecInv, CodecTypes, Send, WriterReady
<1>2. chunk \in ChunkType /\ (chunk.code = "none" <=> ~Responds)
  BY <1>1, ItemFacts
<1>3. sent' = Append(sent, chunk) /\ UNCHANGED <<stream, src, eof, decoder, decoded, reader>>
  BY DEF Send
<1>4. \A p \in Parts : <<p, Len(sent) + 1>> \in Octets'
  BY <1>1, <1>2, <1>3 DEF Octets, Parts
<1>5. PICK e : e = encode(chunk, Len(sent) + 1, <<>>)
  OBVIOUS
<1>6. /\ e \in Seq(Octets') /\ Len(e) <= WireLen(chunk)
      /\ chunk.length <= max_packet_size => Len(e) = WireLen(chunk)
      /\ \A i \in 1 .. Len(e) : e[i] = <<WirePart(chunk, i), Len(sent) + 1>>
  BY <1>2, <1>4, <1>5, EncodeIs
<1>7. dst' = e
  BY <1>1, <1>5, Zenon DEF Send
<1>8. broken' = (chunk.length > max_packet_size)
      /\ closing' = (last_chunk \/ chunk.code = "error" \/ broken')
      /\ (~Responds => last_chunk)
  BY Zenon DEF Send
<1>9. broken' \in BOOLEAN /\ closing' \in BOOLEAN /\ (broken' => closing')
      /\ (~Responds => closing')
  BY <1>8
<1>10. ~broken' => Len(e) = WireLen(chunk)
  <2>1. chunk.length \in Nat /\ max_packet_size \in Nat
    BY <1>2, LengthFacts, LengthAssumption DEF ChunkType
  <2>2. ASSUME ~broken'
        PROVE  chunk.length <= max_packet_size
    <3>1. ~(chunk.length > max_packet_size)
      BY <1>8, <2>2, Zenon
    <3> QED BY <2>1, <3>1
  <2> QED BY <1>6, <2>2
<1>11. Writes(chunk, e)
  BY <1>1, <1>2, <1>3, <1>6, <1>7, <1>9, <1>10 DEF Writes
<1> QED BY <1>11, WritesInv

(* SendForeign writes a whole chunk. *)
LEMMA SendForeignInv ==
    ASSUME CodecInv, NEW chunk \in Foreign, SendForeign(chunk)
    PROVE  CodecInv'
<1>1. stream \in Streams /\ sent \in Seq(ChunkType) /\ dst = <<>> /\ ~closing
      /\ broken \in BOOLEAN /\ ~broken
  BY DEF CodecInv, CodecTypes, WriterInv, SendForeign, WriterReady
<1>2. chunk \in ChunkType /\ (chunk.code = "none" <=> ~Responds)
  BY <1>1, ForeignFacts
<1>3. sent' = Append(sent, chunk) /\ UNCHANGED <<stream, src, eof, decoder, decoded, reader>>
      /\ broken' = broken
  BY DEF SendForeign
<1>4. \A p \in Parts : <<p, Len(sent) + 1>> \in Octets'
  BY <1>1, <1>2, <1>3 DEF Octets, Parts
<1>5. ~MetaDataRequest
  BY DEF SendForeign, MetaDataRequest
<1>6. PICK e : e = Wire(chunk, Len(sent) + 1)
  OBVIOUS
<1>7. /\ e \in Seq(Octets') /\ Len(e) = WireLen(chunk)
      /\ \A i \in 1 .. Len(e) : e[i] = <<WirePart(chunk, i), Len(sent) + 1>>
  BY <1>2, <1>4, <1>5, <1>6, WireIs
<1>8. dst' = e
  BY <1>6, Zenon DEF SendForeign, Wire
<1>9. closing' \in BOOLEAN /\ (~Responds => closing')
  BY DEF SendForeign
<1>10. WireLen(chunk) \in Nat
  BY <1>2, ChunkFacts
<1>11. Writes(chunk, e)
  BY <1>1, <1>2, <1>3, <1>7, <1>8, <1>9, <1>10 DEF Writes
<1> QED BY <1>11, WritesInv

(* A step that sends nothing and decodes nothing. *)
LEMMA SameChunks ==
    ASSUME CodecInv, UNCHANGED <<stream, sent, decoder, decoded>>
    PROVE  /\ Current' = Current /\ UsedNow' = UsedNow
           /\ Octets' = Octets /\ ChunkType' = ChunkType
           /\ \A at : Places(at)' <=> Places(at)
           /\ OursOnly' <=> OursOnly
           /\ Returned'
           /\ \A n : FewBytes(len, n)' <=> FewBytes(len, n)
           /\ Streams' = Streams
<1>1. stream' = stream /\ sent' = sent /\ decoded' = decoded /\ len' = len
      /\ current_response_code' = current_response_code /\ fork_name' = fork_name
  BY DEF decoder
<1>2. Current' = Current /\ UsedNow' = UsedNow
  BY <1>1 DEF Current, UsedNow, Used
<1>3. Octets' = Octets
  BY <1>1 DEF Octets, Parts
<1>4. ASSUME NEW at
      PROVE  Places(at)' <=> Places(at)
  <2>1. \A n : WireLen(sent[n])' = WireLen(sent[n])
    BY <1>1, SameStream
  <2> QED BY <1>1, <2>1 DEF Places
<1>5. OursOnly' <=> OursOnly
  BY <1>1, SameItems DEF OursOnly
<1>6. Returned'
  <2>1. \A n : HasContext(sent[n])' <=> HasContext(sent[n])
    BY <1>1, SameStream
  <2>2. Responds' <=> Responds
    BY <1>1, SameStream
  <2>3. ASSUME NEW i \in 1 .. Len(decoded)
        PROVE  decoded'[i] = [code |-> IF Responds' THEN <<"code", i>> ELSE <<>>,
                             fork |-> IF HasContext(sent[i])' THEN <<"context", i>> ELSE <<>>,
                             len |-> <<"length", i>>]
    BY <1>1, <2>1, <2>2 DEF CodecInv, Returned
  <2> QED BY <1>1, <2>3 DEF Returned
<1>7. \A n : FewBytes(len, n)' <=> FewBytes(len, n)
  BY <1>1 DEF FewBytes, Chunk
<1>8. Streams' = Streams /\ ChunkType' = ChunkType
  BY DEF Streams, protocol_info, ChunkType
<1> QED BY <1>2, <1>3, <1>4, <1>5, <1>6, <1>7, <1>8

(* The types of the chunks, then, stay what they are. *)
LEMMA SameTypes ==
    ASSUME CodecInv, UNCHANGED <<stream, sent, decoder, decoded>>,
           closing' \in BOOLEAN, broken' \in BOOLEAN, eof' \in BOOLEAN,
           reader' \in {"reading", "dry", "failed", "ended"},
           dst' \in Seq(Octets), src' \in Seq(Octets)
    PROVE  CodecTypes'
<1>1. stream' = stream /\ sent' = sent /\ decoded' = decoded /\ len' = len
      /\ current_response_code' = current_response_code /\ fork_name' = fork_name
  BY DEF decoder
<1>2. \A p : Kept(p)' = Kept(p)
  BY <1>1 DEF Kept
<1>3. /\ stream' \in Streams' /\ sent' \in Seq(ChunkType')
      /\ dst' \in Seq(Octets') /\ src' \in Seq(Octets')
  BY <1>1, SameChunks DEF CodecInv, CodecTypes
<1>4. \A n \in 1 .. Len(sent') : sent'[n].code = "none" <=> ~Responds'
  BY <1>1, SameStream DEF CodecInv, CodecTypes
<1>5. /\ current_response_code' \in Kept("code")'
      /\ fork_name' \in Kept("context")'
      /\ len' \in Kept("length")'
  BY <1>1, <1>2 DEF CodecInv, CodecTypes
<1>6. decoded' \in Seq([code : Kept("code"), fork : Kept("context"), len : Kept("length")]')
  BY <1>1, <1>2 DEF CodecInv, CodecTypes
<1>7. Len(decoded') <= Len(sent')
  BY <1>1 DEF CodecInv, CodecTypes
<1> QED BY <1>3, <1>4, <1>5, <1>6, <1>7 DEF CodecTypes

(* The network, the end of the stream and a writer that closes: the bytes  *)
(* in flight move, or are lost with the connection.                        *)
Quiet ==
    /\ UNCHANGED <<stream, sent, decoder, decoded>>
    /\ closing' \in BOOLEAN /\ broken' \in BOOLEAN /\ eof' \in BOOLEAN
    /\ reader' \in {"reading", "dry", "failed", "ended"}
    /\ dst' \in Seq(Octets) /\ src' \in Seq(Octets)
    /\ WriterInv'
    /\ Alive' => Alive
    /\ reader' = "dry" => reader = "dry" /\ src' = src
    /\ reader' = "failed" => reader = "failed"
    /\ broken => broken'
    /\ src # <<>> => src' # <<>>
    /\ Len(src' \o dst') <= Len(src \o dst)
    /\ \A i \in 1 .. Len(src' \o dst') : (src' \o dst')[i] = (src \o dst)[i]
    /\ ~broken' => Len(src' \o dst') = Len(src \o dst)

(* A step that only moves or loses bytes keeps the invariant. *)
LEMMA QuietInv ==
    ASSUME CodecInv, Quiet
    PROVE  CodecInv'
<1>1. stream' = stream /\ sent' = sent /\ decoded' = decoded /\ len' = len
      /\ current_response_code' = current_response_code /\ fork_name' = fork_name
      /\ UNCHANGED <<stream, sent, decoder, decoded>>
  BY DEF Quiet, decoder
<1>2. CodecTypes'
  BY SameTypes DEF Quiet
<1>3. ASSUME Alive'
      PROVE  Layout'
  <2>1. PICK at : Places(at) /\ Laid(at)
    BY <1>3 DEF CodecInv, Layout, Quiet
  <2>2. PICK s : s = src' \o dst'
    OBVIOUS
  <2>3. PICK t : t = src \o dst
    OBVIOUS
  <2>4. Len(s) \in Nat /\ Len(t) \in Nat
    BY <2>2, <2>3 DEF Quiet, CodecInv, CodecTypes
  <2>5. /\ Len(s) <= Len(t) /\ (~broken' => Len(s) = Len(t))
        /\ \A i \in 1 .. Len(s) : s[i] = t[i]
    BY <2>2, <2>3 DEF Quiet
  <2>6. PICK B : B = at[Current] + UsedNow
    OBVIOUS
  <2>7. /\ \A n \in 1 .. Len(sent) : \A i \in 1 .. Len(t) :
              at[n] < B + i /\ B + i <= at[n + 1] =>
                  t[i] = <<WirePart(sent[n], B + i - at[n]), n>>
        /\ B + Len(t) <= at[Len(sent) + 1]
        /\ ~broken => B + Len(t) = at[Len(sent) + 1]
    BY <2>1, <2>3, <2>6 DEF Laid
  <2>8. sent \in Seq(ChunkType) /\ Current \in 1 .. Len(sent) + 1
    BY DEF CodecInv, CodecTypes, Current
  <2>9. B \in Nat /\ at[Len(sent) + 1] \in Nat
    <3>1. UsedNow \in Nat
      <4>1. CASE Current = Len(sent) + 1
        BY <1>3, <4>1 DEF CodecInv, Quiet, Held, UsedNow, Used
      <4>2. CASE Current \in 1 .. Len(sent)
        <5>1. sent[Current] \in ChunkType
          BY <2>8, <4>2
        <5>2. VarintLen(sent[Current].length) \in Nat /\ CONTEXT_BYTES_LEN \in Nat
          BY <5>1, ChunkFacts, LengthAssumption
        <5> QED BY <5>2 DEF UsedNow, Used
      <4> QED BY <2>8, <4>1, <4>2
    <3>2. at[Current] \in Nat /\ at[Len(sent) + 1] \in Nat
      BY <2>1, <2>8 DEF Places
    <3> QED BY <2>6, <3>1, <3>2
  <2>10. (at[Current] + UsedNow)' = B
    BY <1>1, <2>6, SameChunks
  <2>11. ASSUME NEW n \in 1 .. Len(sent), NEW i \in 1 .. Len(s),
                at[n] < B + i, B + i <= at[n + 1]
         PROVE  s[i] = <<WirePart(sent[n], B + i - at[n])', n>>
    <3>1. i \in 1 .. Len(t) /\ s[i] = t[i]
      BY <2>4, <2>5
    <3>2. t[i] = <<WirePart(sent[n], B + i - at[n]), n>>
      BY <2>7, <2>11, <3>1
    <3>3. WirePart(sent[n], B + i - at[n])' = WirePart(sent[n], B + i - at[n])
      BY <1>1, SameStream
    <3> QED BY <3>1, <3>2, <3>3
  <2>12. B + Len(s) <= at[Len(sent) + 1]
    BY <2>4, <2>5, <2>7, <2>9
  <2>13. ~broken' => B + Len(s) = at[Len(sent) + 1]
    BY <2>5, <2>7 DEF Quiet
  <2>14. (src \o dst)' = s
    BY <2>2
  <2>15. Laid(at)'
    BY <1>1, <2>10, <2>11, <2>12, <2>13, <2>14 DEF Laid
  <2>16. Places(at)'
    BY <1>1, <2>1, SameChunks
  <2> QED BY <2>15, <2>16 DEF Layout
<1>4. ASSUME Alive'
      PROVE  Held'
  <2>1. Held
    BY <1>4 DEF CodecInv, Quiet
  <2>2. Current' = Current
    BY <1>1, SameChunks
  <2>3. CASE Current = Len(sent) + 1
    BY <1>1, <2>1, <2>2, <2>3 DEF Held
  <2>4. CASE Current # Len(sent) + 1
    <3>1. PICK y : y = sent[Current]
      OBVIOUS
    <3>2. PICK c : c = Current
      OBVIOUS
    <3>3. Holds(y, c, current_response_code, fork_name, len, src)
      BY <2>1, <2>4, <3>1, <3>2 DEF Held
    <3>4. src # <<>> => src' # <<>>
      BY DEF Quiet
    <3>5. Holds(y, c, current_response_code, fork_name, len, src')
      BY <3>3, <3>4 DEF Holds
    <3>6. Holds(y, c, current_response_code, fork_name, len, src)'
      BY <1>1, <3>5, SameHolds
    <3> QED BY <1>1, <2>2, <2>4, <3>1, <3>2, <3>6 DEF Held
  <2> QED BY <2>3, <2>4
<1>5. Alive' /\ ~Responds' => decoded' = <<>>
  BY <1>1, SameStream DEF CodecInv, Quiet
<1>6. Waiting'
  <2>1. SUFFICES ASSUME reader' = "dry"
                 PROVE  /\ (Current <= Len(sent) /\ Ours(sent[Current]) =>
                               UsedNow + Len(src) < WireLen(sent[Current]))'
                        /\ FewBytes(len, Len(src))'
    BY DEF Waiting
  <2>2. reader = "dry" /\ src' = src
    BY <2>1 DEF Quiet
  <2>3. FewBytes(len, Len(src))'
    BY <1>1, <2>2, SameChunks DEF CodecInv, Waiting
  <2>4. PICK y : y = sent[Current]
    OBVIOUS
  <2>5. Current' = Current /\ UsedNow' = UsedNow /\ sent'[Current'] = y
    BY <1>1, <2>4, SameChunks
  <2>6. (Ours(y)' <=> Ours(y)) /\ WireLen(y)' = WireLen(y)
    BY <1>1, SameItems, SameStream
  <2>7. Current <= Len(sent) /\ Ours(y) => UsedNow + Len(src) < WireLen(y)
    BY <2>2, <2>4 DEF CodecInv, Waiting
  <2>8. (Current <= Len(sent) /\ Ours(sent[Current]) =>
            UsedNow + Len(src) < WireLen(sent[Current]))'
    BY <1>1, <2>2, <2>5, <2>6, <2>7
  <2> QED BY <2>3, <2>8
<1>7. RejectsOnlyForeign'
  BY <1>1, SameChunks, SameItems DEF CodecInv, RejectsOnlyForeign, Quiet
<1>8. WriterInv' /\ Returned'
  BY <1>1, SameChunks DEF Quiet
<1> QED BY <1>2, <1>3, <1>4, <1>5, <1>6, <1>7, <1>8 DEF CodecInv

(* Bytes that are moved from one buffer to the next stay in their order. *)
LEMMA Moved ==
    ASSUME src \in Seq(Octets), dst \in Seq(Octets), NEW k \in 1 .. Len(dst), Deliver(k)
    PROVE  /\ src' \in Seq(Octets) /\ dst' \in Seq(Octets) /\ src' # <<>>
           /\ src' \o dst' = src \o dst
<1>a. PICK T : T = Octets
  OBVIOUS
<1>b. PICK a \in Seq(T) : a = src
  BY <1>a
<1>c. PICK b \in Seq(T) : b = dst
  BY <1>a
<1>d. k \in 1 .. Len(b)
  BY <1>c
<1>e. PICK r : r = SubSeq(b, 1, k)
  OBVIOUS
<1>f. PICK q : q = SubSeq(b, k + 1, Len(b))
  OBVIOUS
<1>g. r \in Seq(T) /\ Len(r) = k /\ \A i \in 1 .. k : r[i] = b[i]
  BY <1>c, <1>d, <1>e
<1>h. PICK p : p = a \o r
  OBVIOUS
<1>1. p \in Seq(T) /\ Len(p) = Len(a) + Len(r)
      /\ \A i \in 1 .. Len(a) + Len(r) : p[i] = IF i <= Len(a) THEN a[i] ELSE r[i - Len(a)]
  <2>1. a \in Seq(T) /\ r \in Seq(T)
    BY <1>b, <1>g
  <2> QED BY <1>h, <2>1, ConcatIs
<1>3. q \in Seq(T) /\ Len(q) = Len(b) - k /\ \A i \in 1 .. Len(b) - k : q[i] = b[k + i]
  BY <1>c, <1>d, <1>f
<1>5. /\ a \in Seq(T) /\ b \in Seq(T) /\ r \in Seq(T) /\ q \in Seq(T) /\ k \in 1 .. Len(b)
      /\ Len(a) \in Nat /\ Len(b) \in Nat
  BY <1>b, <1>c, <1>d, <1>g, <1>3
<1>6. /\ p \in Seq(T) /\ Len(p) = Len(a) + k
      /\ \A i \in 1 .. Len(a) : p[i] = a[i]
      /\ \A i \in 1 .. k : p[Len(a) + i] = b[i]
  <2>2. ASSUME NEW i \in 1 .. k
        PROVE  p[Len(a) + i] = b[i]
    <3>1. Len(a) + i \in 1 .. Len(a) + Len(r) /\ ~(Len(a) + i <= Len(a)) /\ Len(a) + i - Len(a) = i
      BY <1>5, <1>g
    <3>2. p[Len(a) + i] = r[Len(a) + i - Len(a)]
      BY <1>1, <3>1
    <3>3. p[Len(a) + i] = r[i]
      BY <3>1, <3>2
    <3> QED BY <1>g, <3>3
  <2>3. ASSUME NEW i \in 1 .. Len(a)
        PROVE  p[i] = a[i]
    <3>1. i \in 1 .. Len(a) + Len(r) /\ i <= Len(a)
      BY <1>5, <1>g
    <3> QED BY <1>1, <3>1
  <2>4. Len(p) = Len(a) + k
    BY <1>g, <1>1
  <2> QED BY <1>1, <2>2, <2>3, <2>4
<1>7. p \in Seq(T) /\ p # <<>>
  BY <1>5, <1>6
<1>8. PICK s : s = p \o q
  OBVIOUS
<1>9. PICK t : t = a \o b
  OBVIOUS
<1>10. s \in Seq(T) /\ t \in Seq(T) /\ Len(s) = Len(t) /\ Len(s) \in Nat
       /\ Len(t) = Len(a) + Len(b)
  <2>1. s \in Seq(T) /\ Len(s) = Len(p) + Len(q)
    BY <1>5, <1>7, <1>8, ConcatIs
  <2>2. t \in Seq(T) /\ Len(t) = Len(a) + Len(b)
    BY <1>5, <1>9, ConcatIs
  <2> QED BY <1>3, <1>5, <1>6, <2>1, <2>2
<1>11. ASSUME NEW i \in 1 .. Len(s)
       PROVE  s[i] = t[i]
  <2>1. CASE i <= Len(a)
    BY <2>1, <1>5, <1>6, <1>7, <1>8, <1>9, <1>10
  <2>2. CASE Len(a) < i /\ i <= Len(a) + k
    <3>1. PICK j \in 1 .. k : i = Len(a) + j
      <4>1. i - Len(a) \in 1 .. k /\ i = Len(a) + (i - Len(a))
        BY <1>5, <2>2
      <4> QED BY <4>1
    <3>2. s[i] = p[i]
      BY <2>2, <1>5, <1>6, <1>7, <1>8
    <3>3. t[i] = b[j]
      <4>1. \A n \in 1 .. Len(a) + Len(b) :
               t[n] = IF n <= Len(a) THEN a[n] ELSE b[n - Len(a)]
        BY <1>5, <1>9, ConcatIs
      <4>2. i \in 1 .. Len(a) + Len(b) /\ ~(i <= Len(a)) /\ i - Len(a) = j
        BY <1>5, <3>1
      <4> QED BY <4>1, <4>2
    <3> QED BY <1>6, <3>1, <3>2, <3>3
  <2>3. CASE Len(a) + k < i
    <3>1. PICK j \in 1 .. Len(b) - k : i = Len(a) + k + j
      <4>1. i - (Len(a) + k) \in 1 .. Len(b) - k /\ i = Len(a) + k + (i - (Len(a) + k))
        BY <1>5, <2>3, <1>10
      <4> QED BY <4>1
    <3>2. s[i] = q[j]
      <4>1. \A n \in 1 .. Len(p) + Len(q) :
               s[n] = IF n <= Len(p) THEN p[n] ELSE q[n - Len(p)]
        BY <1>5, <1>7, <1>8, ConcatIs
      <4>2. i \in 1 .. Len(p) + Len(q) /\ ~(i <= Len(p)) /\ i - Len(p) = j
        BY <1>3, <1>5, <1>6, <3>1
      <4> QED BY <4>1, <4>2
    <3>3. t[i] = b[k + j]
      BY <3>1, <1>5, <1>9
    <3> QED BY <1>3, <3>1, <3>2, <3>3
  <2> QED BY <1>5, <2>1, <2>2, <2>3, <1>10
<1>12. s = t
  BY <1>10, <1>11
<1>13. src' = p /\ dst' = q
  BY <1>b, <1>c, <1>e, <1>f, <1>h DEF Deliver
<1> QED BY <1>a, <1>b, <1>c, <1>5, <1>7, <1>8, <1>9, <1>12, <1>13

(* Deliver moves bytes from the write buffer to the read buffer. *)
LEMMA DeliverInv ==
    ASSUME CodecInv, NEW k \in 1 .. Len(dst), Deliver(k)
    PROVE  CodecInv'
<1>1. /\ UNCHANGED <<stream, sent, decoder, decoded>> /\ closing' = closing
      /\ broken' = broken /\ eof' = eof
      /\ reader' = "reading" /\ Alive
  BY DEF Deliver, Alive
<1>2. /\ dst \in Seq(Octets) /\ src \in Seq(Octets)
      /\ closing \in BOOLEAN /\ broken \in BOOLEAN /\ eof \in BOOLEAN
  BY DEF CodecInv, CodecTypes
<1>4. src' \in Seq(Octets) /\ dst' \in Seq(Octets) /\ src' # <<>>
      /\ src' \o dst' = src \o dst
  BY <1>2, Moved
<1>5. WriterInv'
  <2>1. ~eof
    BY <1>2 DEF CodecInv, WriterInv
  <2> QED BY <1>1, <2>1, SameStream DEF CodecInv, WriterInv
<1>6. Len(src \o dst) \in Nat
  BY <1>2
<1>7. /\ Len(src' \o dst') <= Len(src \o dst)
      /\ \A i \in 1 .. Len(src' \o dst') : (src' \o dst')[i] = (src \o dst)[i]
      /\ ~broken' => Len(src' \o dst') = Len(src \o dst)
  BY <1>4, <1>6
<1>8. Quiet
  BY <1>1, <1>2, <1>4, <1>5, <1>7 DEF Quiet
<1> QED BY <1>8, QuietInv

(* A step of the writer that adds nothing to the stream, and the end of it. *)
LEMMA NothingMoved ==
    ASSUME CodecInv, UNCHANGED <<stream, sent, dst, broken, src, decoder, decoded>>,
           closing' \in BOOLEAN, closing => closing', eof' \in BOOLEAN,
           eof' => closing' /\ dst = <<>>, ~Responds => closing' = closing,
           reader' = reader \/ (reader' = "reading" /\ Alive)
    PROVE  CodecInv'
<1>1. /\ dst \in Seq(Octets) /\ src \in Seq(Octets) /\ broken \in BOOLEAN
      /\ reader \in {"reading", "dry", "failed", "ended"}
  BY DEF CodecInv, CodecTypes
<1>2. WriterInv'
  BY SameStream DEF CodecInv, WriterInv
<1>3. /\ Len(src' \o dst') <= Len(src \o dst)
      /\ \A i \in 1 .. Len(src' \o dst') : (src' \o dst')[i] = (src \o dst)[i]
      /\ ~broken' => Len(src' \o dst') = Len(src \o dst)
  <2>1. Len(src \o dst) \in Nat /\ src' = src /\ dst' = dst
    BY <1>1
  <2> QED BY <2>1
<1>4. (Alive' => Alive) /\ reader' \in {"reading", "dry", "failed", "ended"}
  BY <1>1 DEF Alive
<1>5. Quiet
  BY <1>1, <1>2, <1>3, <1>4 DEF Quiet
<1> QED BY <1>5, QuietInv

(* Cut loses the bytes of the write buffer. *)
LEMMA CutInv ==
    ASSUME CodecInv, Cut
    PROVE  CodecInv'
<1>1. /\ UNCHANGED <<stream, sent, src, eof, decoder, decoded, reader>>
      /\ closing' = TRUE /\ broken' = TRUE /\ dst' = <<>> /\ dst # <<>>
  BY DEF Cut
<1>2. /\ dst \in Seq(Octets) /\ src \in Seq(Octets) /\ sent \in Seq(ChunkType)
      /\ eof \in BOOLEAN /\ reader \in {"reading", "dry", "failed", "ended"}
  BY DEF CodecInv, CodecTypes
<1>3. Len(sent) # 0
  <2>1. dst[1] \in Octets
    BY <1>1, <1>2
  <2>2. PICK n \in 1 .. Len(sent) : TRUE
    BY <2>1 DEF Octets
  <2> QED BY <1>2, <2>2
<1>4. WriterInv'
  <2>1. ~Responds => Len(sent) <= 1
    BY DEF CodecInv, WriterInv
  <2>2. ASSUME ~Responds
        PROVE  Len(sent) = 1
    <3>1. PICK n \in Nat : n = Len(sent)
      BY <1>2
    <3>2. n # 0 /\ n <= 1
      BY <1>3, <2>1, <2>2, <3>1
    <3>3. n = 1
      BY <3>1, <3>2
    <3> QED BY <3>1, <3>3
  <2> QED BY <1>1, <2>2, SameStream DEF CodecInv, WriterInv
<1>5. /\ Len(src' \o dst') <= Len(src \o dst)
      /\ \A i \in 1 .. Len(src' \o dst') : (src' \o dst')[i] = (src \o dst)[i]
  <2>1. src' \o dst' = src
    BY <1>1, <1>2
  <2>2. /\ Len(src) \in Nat /\ Len(src) <= Len(src \o dst)
        /\ \A i \in 1 .. Len(src) : src[i] = (src \o dst)[i]
    BY <1>2
  <2> QED BY <2>1, <2>2
<1>6. Alive' => Alive
  BY <1>1 DEF Alive
<1>7. dst' \in Seq(Octets)
  BY <1>1
<1>8. Quiet
  BY <1>1, <1>2, <1>4, <1>5, <1>6, <1>7 DEF Quiet
<1> QED BY <1>8, QuietInv

(* Terminate closes the stream. *)
LEMMA TerminateInv ==
    ASSUME CodecInv, Terminate
    PROVE  CodecInv'
BY NothingMoved DEF Terminate, CodecInv, CodecTypes, WriterInv

(* Eof is seen only after the last byte. *)
LEMMA EofInv ==
    ASSUME CodecInv, Eof
    PROVE  CodecInv'
<1>1. closing \in BOOLEAN /\ reader \in {"reading", "dry", "failed", "ended"}
  BY DEF CodecInv, CodecTypes
<1>2. /\ UNCHANGED <<stream, sent, dst, broken, src, decoder, decoded>> /\ closing' = closing
      /\ eof' = TRUE /\ closing /\ dst = <<>>
  BY DEF Eof, writer
<1>3. reader' = reader \/ (reader' = "reading" /\ Alive)
  BY DEF Eof, Alive
<1> QED BY <1>1, <1>2, <1>3, NothingMoved

(* Nothing happens. *)
LEMMA StutterInv ==
    ASSUME CodecInv, UNCHANGED vars
    PROVE  CodecInv'
<1>1. /\ UNCHANGED <<stream, sent, dst, broken, src, decoder, decoded>> /\ closing' = closing
      /\ eof' = eof /\ reader' = reader
  BY DEF vars, writer
<1>2. closing \in BOOLEAN /\ eof \in BOOLEAN /\ (eof => closing /\ dst = <<>>)
  BY DEF CodecInv, CodecTypes, WriterInv
<1> QED BY <1>1, <1>2, NothingMoved

(* A MetaData request is taken without a byte. *)
LEMMA TakeMetaDataInv ==
    ASSUME CodecInv, TakeMetaData
    PROVE  CodecInv'
<1>1. /\ UNCHANGED <<stream, sent, dst, broken, src, decoder, decoded>> /\ closing' = closing
      /\ eof' = eof /\ reader' = "ended"
  BY DEF TakeMetaData, writer
<1>2. closing \in BOOLEAN /\ broken \in BOOLEAN /\ eof \in BOOLEAN
      /\ dst \in Seq(Octets) /\ src \in Seq(Octets)
  BY DEF CodecInv, CodecTypes
<1>3. WriterInv'
  BY <1>1, SameStream DEF CodecInv, WriterInv
<1>4. Len(src \o dst) \in Nat /\ src' = src /\ dst' = dst
  BY <1>1, <1>2
<1>5. ~Alive'
  BY <1>1 DEF Alive
<1>6. Quiet
  BY <1>1, <1>2, <1>3, <1>4, <1>5 DEF Quiet
<1> QED BY <1>6, QuietInv

(* The reader's call of decode is in the chunk that follows the returned   *)
(* ones: its buffer starts with the bytes of it that were not consumed.    *)
LEMMA PollView ==
    ASSUME CodecInv, Alive, ~MetaDataRequest, Current \in 1 .. Len(sent)
    PROVE  /\ Reading(sent[Current], Current)
           /\ UsedNow \in Nat
           /\ View(src, UsedNow, sent[Current], Current)
<1>1. PICK c : c = Current
  OBVIOUS
<1>2. PICK x : x = sent[c]
  OBVIOUS
<1>3. /\ stream \in Streams /\ sent \in Seq(ChunkType) /\ c \in 1 .. Len(sent)
      /\ (x.code = "none" <=> ~Responds)
  BY <1>1, <1>2 DEF CodecInv, CodecTypes
<1>4. x \in ChunkType
  BY <1>2, <1>3
<1>5. \A p : Chunk(<<p, c>>) = x
  BY <1>2 DEF Chunk
<1>6. Reading(x, c)
  BY <1>3, <1>4, <1>5 DEF Reading
<1>9. PICK u \in Nat : u = UsedNow
  <2>1. VarintLen(x.length) \in Nat /\ CONTEXT_BYTES_LEN \in Nat
    BY <1>6, ReadingFacts
  <2> QED BY <1>1, <1>2, <2>1 DEF UsedNow, Used
<1>11. PICK at : Places(at) /\ Laid(at)
  BY DEF CodecInv, Layout
<1>12. PICK L \in Nat : L = Len(sent)
  BY <1>3
<1>13. src \in Seq(Octets) /\ dst \in Seq(Octets)
  BY DEF CodecInv, CodecTypes
<1>14. PICK s : s = src \o dst
  OBVIOUS
<1>15. Len(src) \in Nat /\ Len(s) \in Nat /\ Len(src) <= Len(s)
       /\ \A i \in 1 .. Len(src) : s[i] = src[i]
  BY <1>13, <1>14
<1>17. /\ at \in [1 .. L + 1 -> Nat]
       /\ \A n \in 1 .. L : at[n + 1] = at[n] + WireLen(sent[n])
       /\ \A m, n \in 1 .. L + 1 : m <= n => at[m] <= at[n]
  BY <1>11, <1>12 DEF Places
<1>16. PICK B \in Nat : B = at[c] + u
  <2>1. c \in 1 .. L + 1
    BY <1>3, <1>12
  <2>2. at[c] \in Nat
    BY <1>17, <2>1
  <2> QED BY <2>2
<1>18. /\ \A n \in 1 .. L : \A i \in 1 .. Len(s) :
             at[n] < B + i /\ B + i <= at[n + 1] =>
                 s[i] = <<WirePart(sent[n], B + i - at[n]), n>>
       /\ B + Len(s) <= at[L + 1]
  BY <1>1, <1>9, <1>11, <1>12, <1>14, <1>16 DEF Laid
<1>19. /\ c \in 1 .. L /\ at[c] \in Nat /\ at[c + 1] \in Nat /\ at[L + 1] \in Nat
       /\ at[c + 1] = at[c] + WireLen(x) /\ WireLen(x) \in Nat
  <2>1. c \in 1 .. L /\ c + 1 \in 1 .. L + 1 /\ c \in 1 .. L + 1 /\ L + 1 \in 1 .. L + 1
    BY <1>3, <1>12
  <2> QED BY <1>2, <1>4, <1>17, <2>1, ChunkFacts
<1>20. ASSUME NEW i \in 1 .. Len(src), u + i <= WireLen(x)
       PROVE  src[i] = <<WirePart(x, u + i), c>>
  <2>a. PICK a \in Nat : a = at[c]
    BY <1>19
  <2>b. PICK w \in Nat : w = WireLen(x)
    BY <1>19
  <2>c. B = a + u /\ at[c + 1] = a + w /\ u + i <= w /\ i \in Nat /\ 1 <= i
    BY <1>15, <1>16, <1>19, <1>20, <2>a, <2>b
  <2>d. a < B + i /\ B + i <= a + w /\ B + i - a = u + i
    <3>1. B = a + u /\ u + i <= w /\ i \in Nat /\ 1 <= i
      BY <2>c
    <3> QED BY <3>1
  <2>e. i \in 1 .. Len(s)
    BY <1>15
  <2>1. at[c] < B + i /\ B + i <= at[c + 1] /\ B + i - at[c] = u + i /\ i \in 1 .. Len(s)
    BY <2>a, <2>c, <2>d, <2>e
  <2>2. s[i] = <<WirePart(sent[c], B + i - at[c]), c>>
    BY <1>18, <1>19, <2>1
  <2> QED BY <1>2, <1>15, <2>1, <2>2
<1>21. ASSUME NEW i \in 1 .. Len(src), u + i = WireLen(x) + 1
       PROVE  src[i][1] = "code"
  <2>a. PICK a \in Nat : a = at[c]
    BY <1>19
  <2>b. PICK w \in Nat : w = WireLen(x)
    BY <1>19
  <2>z. PICK z \in Nat : z = at[L + 1]
    BY <1>19
  <2>k. PICK k \in Nat : k = Len(s)
    BY <1>15
  <2>c. /\ B = a + u /\ at[c + 1] = a + w /\ u + i = w + 1 /\ i \in Nat /\ 1 <= i
        /\ i <= k /\ B + k <= z
    BY <1>15, <1>16, <1>18, <1>19, <1>21, <2>a, <2>b, <2>z, <2>k
  <2>d. B + i = a + w + 1 /\ B + i <= z /\ B \in Nat
    <3>1. B = a + u /\ u + i = w + 1 /\ i \in Nat /\ i <= k /\ B + k <= z
      BY <2>c
    <3> QED BY <3>1
  <2>1. B + i = at[c + 1] + 1 /\ i \in 1 .. Len(s) /\ B + i <= at[L + 1] /\ B \in Nat
        /\ i \in Nat
    BY <2>c, <2>d, <2>z, <2>k
  <2>2. c + 1 \in 1 .. L
    <3>1. c # L
      <4>1. ASSUME c = L
            PROVE  FALSE
        <5>1. PICK m \in Nat : m = B + i
          BY <2>1
        <5>2. m = z + 1 /\ m <= z
          BY <2>1, <2>z, <4>1, <5>1
        <5> QED BY <2>z, <5>2
      <4> QED BY <4>1
    <3> QED BY <1>19, <3>1
  <2>3. PICK y \in ChunkType : y = sent[c + 1]
    BY <1>3, <1>12, <2>2
  <2>4. WireLen(y) \in Nat /\ WireLen(y) >= 1
    BY ChunkFacts
  <2>5. at[(c + 1) + 1] = at[c + 1] + WireLen(y)
    BY <1>17, <2>2, <2>3
  <2>6. at[c + 1] < B + i /\ B + i <= at[(c + 1) + 1] /\ B + i - at[c + 1] = 1
    <3>1. PICK b \in Nat : b = at[c + 1]
      BY <1>19
    <3>2. PICK v \in Nat : v = WireLen(y)
      BY <2>4
    <3>3. PICK m \in Nat : m = B + i
      BY <2>1
    <3>4. m = b + 1 /\ v >= 1 /\ at[(c + 1) + 1] = b + v
      BY <2>1, <2>4, <2>5, <3>1, <3>2, <3>3
    <3>5. b < m /\ m <= b + v /\ m - b = 1
      BY <3>1, <3>2, <3>3, <3>4
    <3> QED BY <3>1, <3>3, <3>4, <3>5
  <2>7. s[i] = <<WirePart(sent[c + 1], B + i - at[c + 1]), c + 1>>
    BY <1>18, <2>1, <2>2, <2>6
  <2>8. Responds
    <3>1. ~Responds => Len(sent) <= 1
      BY DEF CodecInv, WriterInv
    <3>2. ~(L <= 1)
      BY <1>19, <2>2
    <3> QED BY <1>12, <3>1, <3>2
  <2>9. WirePart(y, 1) = "code"
    BY <2>8 DEF WirePart, CodeLen
  <2> QED BY <1>15, <2>3, <2>6, <2>7, <2>9
<1>22. View(src, u, x, c)
  BY <1>20, <1>21 DEF View
<1> QED BY <1>1, <1>2, <1>6, <1>9, <1>22

(* So is the state that Poll hands to decode. *)
LEMMA PollReads ==
    ASSUME CodecInv, Alive, ~MetaDataRequest, Current \in 1 .. Len(sent), NEW d,
           d \in Decoder, d.src = src, d.code = current_response_code, d.fork = fork_name,
           d.len = len
    PROVE  /\ In(d, sent[Current], Current)
           /\ Holds(sent[Current], Current, d.code, d.fork, d.len, d.src)
           /\ UsedOf(d, sent[Current]) = UsedNow
<1>1. PICK c : c = Current
  OBVIOUS
<1>2. PICK x : x = sent[c]
  OBVIOUS
<1>3. sent \in Seq(ChunkType) /\ c \in 1 .. Len(sent)
  BY <1>1 DEF CodecInv, CodecTypes
<1>7. Holds(x, c, d.code, d.fork, d.len, d.src)
  <2>1. c # Len(sent) + 1
    BY <1>3
  <2> QED BY <1>1, <1>2, <2>1 DEF CodecInv, Held
<1>8. UsedOf(d, x) = UsedNow
  BY <1>1, <1>2 DEF UsedOf, UsedNow
<1>22. View(d.src, UsedOf(d, x), x, c)
  BY <1>1, <1>2, <1>8, PollView
<1>23. In(d, x, c)
  BY <1>7, <1>22 DEF In, Holds
<1> QED BY <1>1, <1>2, <1>7, <1>8, <1>23

(* The stream once k bytes are consumed. *)
LEMMA LaidDrop ==
    ASSUME CodecInv, stream' = stream, sent' = sent, dst' = dst, broken' = broken,
           NEW k \in 0 .. Len(src), src' = Drop(src, k),
           NEW at, Places(at), Laid(at), at[Current] + UsedNow \in Nat,
           (at[Current] + UsedNow)' = at[Current] + UsedNow + k
    PROVE  Laid(at)'
<1>1. src \in Seq(Octets) /\ dst \in Seq(Octets) /\ sent \in Seq(ChunkType)
  BY DEF CodecInv, CodecTypes
<1>2. PICK r : r = src'
  OBVIOUS
<1>3. r \in Seq(Octets) /\ Len(r) = Len(src) - k /\ \A i \in 1 .. Len(src) - k : r[i] = src[k + i]
  BY <1>1, <1>2, DropIs
<1>4. PICK s : s = src \o dst
  OBVIOUS
<1>5. PICK t : t = r \o dst
  OBVIOUS
<1>6. /\ s \in Seq(Octets) /\ Len(s) = Len(src) + Len(dst)
      /\ \A i \in 1 .. Len(src) + Len(dst) :
            s[i] = IF i <= Len(src) THEN src[i] ELSE dst[i - Len(src)]
  BY <1>1, <1>4, ConcatIs
<1>7. /\ t \in Seq(Octets) /\ Len(t) = Len(r) + Len(dst)
      /\ \A i \in 1 .. Len(r) + Len(dst) :
            t[i] = IF i <= Len(r) THEN r[i] ELSE dst[i - Len(r)]
  <2>1. r \in Seq(Octets)
    BY <1>3
  <2> QED BY <1>1, <1>5, <2>1, ConcatIs
<1>8. Len(src) \in Nat /\ Len(dst) \in Nat /\ Len(s) \in Nat /\ Len(t) = Len(s) - k
      /\ Len(t) \in Nat
  BY <1>1, <1>3, <1>6, <1>7
<1>9. ASSUME NEW i \in 1 .. Len(t)
      PROVE  k + i \in 1 .. Len(s) /\ t[i] = s[k + i]
  <2>1. k + i \in 1 .. Len(s)
    BY <1>8
  <2>2. CASE i <= Len(r)
    <3>1. t[i] = r[i] /\ r[i] = src[k + i]
      <4>1. Len(r) = Len(src) - k /\ Len(r) \in Int /\ i \in Int /\ 1 <= i
        BY <1>3, <1>8
      <4>2. i \in 1 .. Len(src) - k
        BY <2>2, <4>1
      <4>3. i \in 1 .. Len(r) + Len(dst)
        BY <1>8, <2>2, <4>1
      <4>4. r[i] = src[k + i]
        BY <1>3, <4>2
      <4>5. t[i] = r[i]
        BY <1>7, <2>2, <4>3
      <4> QED BY <4>4, <4>5
    <3>2. k + i <= Len(src) /\ k + i \in 1 .. Len(src) + Len(dst)
      BY <1>3, <1>6, <1>8, <2>1, <2>2
    <3> QED BY <1>6, <2>1, <3>1, <3>2
  <2>3. CASE ~(i <= Len(r))
    <3>1. t[i] = dst[i - Len(r)]
      BY <1>3, <1>7, <1>8, <2>3
    <3>2. ~(k + i <= Len(src)) /\ k + i \in 1 .. Len(src) + Len(dst)
          /\ (k + i) - Len(src) = i - Len(r)
      BY <1>3, <1>6, <1>8, <2>1, <2>3
    <3> QED BY <1>6, <2>1, <3>1, <3>2
  <2> QED BY <2>1, <2>2, <2>3
<1>10. PICK B \in Nat : B = at[Current] + UsedNow
  OBVIOUS
<1>11. (at[Current] + UsedNow)' = B + k
  BY <1>10
<1>12. /\ \A n \in 1 .. Len(sent) : \A i \in 1 .. Len(s) :
             at[n] < B + i /\ B + i <= at[n + 1] =>
                 s[i] = <<WirePart(sent[n], B + i - at[n]), n>>
       /\ B + Len(s) <= at[Len(sent) + 1]
       /\ ~broken => B + Len(s) = at[Len(sent) + 1]
  BY <1>4, <1>10 DEF Laid
<1>17. PICK C \in Nat : C = B + k
  BY <1>10
<1>13. ASSUME NEW n \in 1 .. Len(sent), NEW i \in 1 .. Len(t),
              at[n] < C + i, C + i <= at[n + 1]
       PROVE  t[i] = <<WirePart(sent[n], C + i - at[n])', n>>
  <2>1. B + (k + i) = C + i
    BY <1>10, <1>17
  <2>a. k + i \in 1 .. Len(s) /\ t[i] = s[k + i]
    BY <1>9
  <2>b. at[n] < B + (k + i) /\ B + (k + i) <= at[n + 1]
    BY <1>13, <2>1
  <2>c. s[k + i] = <<WirePart(sent[n], B + (k + i) - at[n]), n>>
    BY <1>12, <2>a, <2>b
  <2>2. s[k + i] = <<WirePart(sent[n], C + i - at[n]), n>>
    <3>1. PICK p \in Nat : p = at[n]
      <4>1. n \in 1 .. Len(sent) + 1 /\ at \in [1 .. Len(sent) + 1 -> Nat]
        BY <1>1 DEF Places
      <4> QED BY <4>1
    <3>2. B + (k + i) - p = C + i - p
      <4>1. PICK j \in Nat : j = k
        BY <1>8
      <4>2. C = B + j
        BY <1>17, <4>1
      <4>3. B + (j + i) - p = C + i - p
        BY <4>2
      <4> QED BY <4>1, <4>3
    <3> QED BY <2>c, <3>1, <3>2
  <2>3. WirePart(sent[n], C + i - at[n])' = WirePart(sent[n], C + i - at[n])
    BY SameStream
  <2> QED BY <1>9, <2>2, <2>3
<1>14. C + Len(t) = B + Len(s)
  BY <1>8, <1>10, <1>17
<1>15. (src \o dst)' = t
  BY <1>2, <1>5
<1>16. C + Len(t) <= at[Len(sent) + 1] /\ (~broken => C + Len(t) = at[Len(sent) + 1])
  BY <1>12, <1>14
<1>18. (at[Current] + UsedNow)' = C
  BY <1>11, <1>17
<1> QED BY <1>13, <1>15, <1>16, <1>18 DEF Laid

(* What a step of the reader may do to the types. *)
LEMMA ReaderTypes ==
    ASSUME CodecInv, UNCHANGED <<stream, sent, dst, closing, broken, eof>>,
           reader' \in {"reading", "dry", "failed", "ended"}, src' \in Seq(Octets),
           current_response_code' \in Kept("code"), fork_name' \in Kept("context"),
           len' \in Kept("length"), Len(decoded') <= Len(sent),
           decoded' \in Seq([code : Kept("code"), fork : Kept("context"), len : Kept("length")])
    PROVE  CodecTypes'
<1>1. \A p : Kept(p)' = Kept(p)
  BY DEF Kept
<1>2. Octets' = Octets /\ ChunkType' = ChunkType /\ Streams' = Streams
  BY DEF Octets, Parts, ChunkType, Streams, protocol_info
<1>3. /\ stream' \in Streams' /\ sent' \in Seq(ChunkType')
      /\ dst' \in Seq(Octets') /\ src' \in Seq(Octets')
      /\ closing' \in BOOLEAN /\ broken' \in BOOLEAN /\ eof' \in BOOLEAN
  BY <1>2 DEF CodecInv, CodecTypes
<1>4. \A n \in 1 .. Len(sent') : sent'[n].code = "none" <=> ~Responds'
  BY SameStream DEF CodecInv, CodecTypes
<1>5. /\ current_response_code' \in Kept("code")'
      /\ fork_name' \in Kept("context")'
      /\ len' \in Kept("length")'
      /\ decoded' \in Seq([code : Kept("code"), fork : Kept("context"), len : Kept("length")]')
  BY <1>1
<1> QED BY <1>3, <1>4, <1>5 DEF CodecTypes

(* What Poll takes from the result e of decode. *)
Takes(e) ==
    /\ src' = e.src
    /\ current_response_code' = ResetCode(e)
    /\ fork_name' = ResetFork(e)
    /\ len' = ResetLen(e)
    /\ decoded' = IF e.out = "some"
                  THEN Append(decoded, [code |-> e.code, fork |-> e.fork, len |-> e.len])
                  ELSE decoded
    /\ reader' = Outcome(e)
    /\ UNCHANGED <<stream, sent, dst, closing, broken, eof>>

(* The first parts of the invariant after a call. *)
LEMMA TakesTypes ==
    ASSUME CodecInv, Alive, ~MetaDataRequest, NEW e \in Decoder, Takes(e),
           e.out = "some" => Current <= Len(sent)
    PROVE  CodecTypes' /\ WriterInv'
<1>1. /\ e.src \in Seq(Octets) /\ e.code \in Kept("code") /\ e.fork \in Kept("context")
      /\ e.len \in Kept("length")
  BY DEF Decoder
<1>2. <<>> \in Kept("code") /\ <<>> \in Kept("context") /\ <<>> \in Kept("length")
  BY DEF Kept
<1>3. current_response_code' \in Kept("code") /\ fork_name' \in Kept("context")
      /\ len' \in Kept("length") /\ src' \in Seq(Octets)
  BY <1>1, <1>2 DEF Takes, ResetCode, ResetFork, ResetLen
<1>4. reader' \in {"reading", "dry", "failed", "ended"}
  BY DEF Takes, Outcome
<1>5. PICK S : S = [code : Kept("code"), fork : Kept("context"), len : Kept("length")]
  OBVIOUS
<1>6. PICK r : r = [code |-> e.code, fork |-> e.fork, len |-> e.len]
  OBVIOUS
<1>7. r \in S
  BY <1>1, <1>5, <1>6
<1>8. decoded \in Seq(S) /\ Len(decoded) <= Len(sent) /\ sent \in Seq(ChunkType)
  BY <1>5 DEF CodecInv, CodecTypes
<1>9. decoded' = IF e.out = "some" THEN Append(decoded, r) ELSE decoded
  BY <1>6 DEF Takes
<1>10. decoded' \in Seq(S)
  BY <1>7, <1>8, <1>9
<1>11. Len(decoded') <= Len(sent)
  <2>1. CASE e.out = "some"
    <3>1. Len(decoded') = Len(decoded) + 1
      BY <1>8, <1>9, <2>1
    <3> QED BY <2>1, <3>1 DEF Current
  <2>2. CASE e.out # "some"
    BY <1>8, <1>9, <2>2
  <2> QED BY <2>1, <2>2
<1>12. UNCHANGED <<stream, sent, dst, closing, broken, eof>>
  BY DEF Takes
<1>13. CodecTypes'
  BY <1>3, <1>4, <1>5, <1>10, <1>11, <1>12, ReaderTypes
<1>14. WriterInv'
  BY <1>12, SameStream DEF CodecInv, WriterInv
<1> QED BY <1>13, <1>14

(* The items that were returned stay. *)
LEMMA TakesReturned ==
    ASSUME CodecInv, NEW e, Takes(e), e.out # "some"
    PROVE  Returned' /\ decoded' = decoded /\ Current' = Current
<1>1. decoded' = decoded /\ stream' = stream /\ sent' = sent
  BY DEF Takes
<1>2. \A n : HasContext(sent[n])' <=> HasContext(sent[n])
  BY <1>1, SameStream
<1>3. Responds' <=> Responds
  BY <1>1, SameStream
<1>4. ASSUME NEW i \in 1 .. Len(decoded)
      PROVE  decoded'[i] = [code |-> IF Responds' THEN <<"code", i>> ELSE <<>>,
                           fork |-> IF HasContext(sent[i])' THEN <<"context", i>> ELSE <<>>,
                           len |-> <<"length", i>>]
  BY <1>1, <1>2, <1>3 DEF CodecInv, Returned
<1> QED BY <1>1, <1>4 DEF Returned, Current

(* No chunk to read: nothing is there, and nothing is lost by ending. *)
LEMMA PollNothing ==
    ASSUME CodecInv, Alive, ~MetaDataRequest, Current = Len(sent) + 1,
           NEW d \in Decoder, d.src = src, d.code = current_response_code,
           d.fork = fork_name, d.len = len, d.out = "go", NEW e, Takes(e)
    PROVE  e = decode(d) => CodecInv'
<1>a. HAVE e = decode(d)
<1>1. current_response_code = <<>> /\ fork_name = <<>> /\ len = <<>>
  BY DEF CodecInv, Held
<1>2. PICK at : Places(at) /\ Laid(at)
  BY DEF CodecInv, Layout
<1>3. sent \in Seq(ChunkType) /\ src \in Seq(Octets) /\ dst \in Seq(Octets)
  BY DEF CodecInv, CodecTypes
<1>4. UsedNow = 0
  BY <1>1 DEF UsedNow, Used
<1>5. src = <<>>
  <2>1. PICK p \in Nat : p = at[Len(sent) + 1]
    <3>1. Len(sent) + 1 \in 1 .. Len(sent) + 1 /\ at \in [1 .. Len(sent) + 1 -> Nat]
      BY <1>2, <1>3 DEF Places
    <3> QED BY <3>1
  <2>2. PICK k \in Nat : k = Len(src \o dst)
    BY <1>3
  <2>3. p + 0 + k <= p
    BY <1>2, <1>4, <2>1, <2>2 DEF Laid
  <2>4. k = 0
    BY <2>1, <2>2, <2>3
  <2>5. Len(src) = 0
    <3>1. PICK a \in Nat : a = Len(src)
      BY <1>3
    <3>2. PICK b \in Nat : b = Len(dst)
      BY <1>3
    <3>3. Len(src \o dst) = a + b
      BY <1>3, <3>1, <3>2, ConcatIs
    <3>4. a + b = 0
      BY <2>2, <2>4, <3>3
    <3>5. a = 0
      BY <3>1, <3>2, <3>4
    <3> QED BY <3>1, <3>5
  <2> QED BY <1>3, <2>5
<1>6. e = [d EXCEPT !.out = "none"]
  <2>1. d.src = <<>> /\ d.code = <<>> /\ d.fork = <<>> /\ d.len = <<>>
    BY <1>1, <1>5
  <2>2. decode(d) = [d EXCEPT !.out = "none"]
    BY <2>1, DecodeNothing
  <2> QED BY <1>a, <2>2
<1>7. e \in Decoder /\ e.out = "none" /\ e.src = <<>> /\ e.code = <<>> /\ e.fork = <<>>
      /\ e.len = <<>>
  BY <1>1, <1>5, <1>6 DEF Decoder
<1>8. CodecTypes' /\ WriterInv'
  BY <1>7, TakesTypes
<1>9. Returned' /\ decoded' = decoded /\ Current' = Current
  BY <1>7, TakesReturned
<1>10. /\ src' = <<>> /\ current_response_code' = <<>> /\ fork_name' = <<>> /\ len' = <<>>
       /\ UNCHANGED <<stream, sent, dst, closing, broken, eof>>
  BY <1>7 DEF Takes, ResetCode, ResetFork, ResetLen
<1>11. reader' \in {"dry", "ended"}
  <2>1. CASE ~eof
    BY <1>7, <2>1 DEF Takes, Outcome
  <2>2. CASE eof /\ Responds
    BY <1>7, <2>2 DEF Takes, Outcome
  <2>3. CASE eof /\ ~Responds
    <3>1. Len(sent) = 1 /\ decoded = <<>>
      BY <2>3 DEF CodecInv, WriterInv
    <3>2. Current = 1
      BY <3>1 DEF Current
    <3> QED BY <3>1, <3>2
  <2> QED BY <2>1, <2>2, <2>3
<1>12. UsedNow' = 0
  BY <1>10 DEF UsedNow, Used
<1>13. Layout'
  <2>1. src' = src /\ (at[Current] + UsedNow)' = at[Current] + UsedNow
    BY <1>4, <1>5, <1>9, <1>10, <1>12
  <2>2. Places(at)'
    <3>1. \A n : WireLen(sent[n])' = WireLen(sent[n])
      BY <1>10, SameStream
    <3> QED BY <1>2, <1>10, <3>1 DEF Places
  <2>3. at[Current] + UsedNow \in Nat
    <3>1. Current \in 1 .. Len(sent) + 1 /\ at \in [1 .. Len(sent) + 1 -> Nat]
      BY <1>2, <1>3 DEF Places
    <3> QED BY <1>4, <3>1
  <2>4. PICK k : k = 0
    OBVIOUS
  <2>6. /\ k \in 0 .. Len(src) /\ src' = Drop(src, k)
        /\ at[Current] + UsedNow = at[Current] + UsedNow + k
    BY <1>3, <2>1, <2>3, <2>4, DropNone
  <2>5. Laid(at)'
    <3>1. (at[Current] + UsedNow)' = at[Current] + UsedNow + k
      BY <2>1, <2>6
    <3> QED BY <1>2, <1>10, <2>3, <2>6, <3>1, LaidDrop
  <2> QED BY <2>2, <2>5 DEF Layout
<1>14. Held'
  BY <1>9, <1>10 DEF Held
<1>15. Waiting'
  <2>1. Current' = Len(sent') + 1
    BY <1>9, <1>10
  <2>2. ~(Current' <= Len(sent'))
    BY <1>3, <1>10, <2>1
  <2>3. FewBytes(len, Len(src))'
    BY <1>10 DEF FewBytes
  <2> QED BY <2>2, <2>3 DEF Waiting
<1>16. RejectsOnlyForeign'
  BY <1>11 DEF RejectsOnlyForeign
<1>17. Alive' /\ ~Responds' => decoded' = <<>>
  BY <1>9, <1>10, SameStream DEF CodecInv
<1> QED BY <1>8, <1>9, <1>13, <1>14, <1>15, <1>16, <1>17 DEF CodecInv

(* The places stay what they are for a reader that goes on by k bytes. *)
LEMMA TakesLayout ==
    ASSUME CodecInv, Alive, NEW e, Takes(e), NEW k \in 0 .. Len(src), e.src = Drop(src, k),
           NEW at, Places(at), Laid(at), at[Current] + UsedNow \in Nat,
           (at[Current] + UsedNow)' = at[Current] + UsedNow + k
    PROVE  Layout'
<1>1. UNCHANGED <<stream, sent, dst, closing, broken, eof>> /\ src' = Drop(src, k)
  BY DEF Takes
<1>2. Places(at)'
  <2>1. \A n : WireLen(sent[n])' = WireLen(sent[n])
    BY <1>1, SameStream
  <2> QED BY <1>1, <2>1 DEF Places
<1>3. Laid(at)'
  BY <1>1, LaidDrop
<1> QED BY <1>2, <1>3 DEF Layout

(* decode waits: the reader has gone on in its chunk.  At the end of the   *)
(* stream that is a failure only if the stream was cut, or not ours.       *)
LEMMA PollNone ==
    ASSUME CodecInv, Alive, ~MetaDataRequest, Current \in 1 .. Len(sent),
           NEW e \in Decoder, Takes(e), e.out = "none", NEW k \in 0 .. Len(src),
           e.src = Drop(src, k), UsedOf(e, sent[Current]) = UsedNow + k,
           Dry(e, sent[Current], Current)
    PROVE  CodecInv'
<1>1. CodecTypes' /\ WriterInv'
  BY TakesTypes
<1>2. Returned' /\ decoded' = decoded /\ Current' = Current
  BY TakesReturned
<1>3. /\ src' = e.src /\ current_response_code' = e.code /\ fork_name' = e.fork /\ len' = e.len
      /\ stream' = stream /\ sent' = sent /\ dst' = dst /\ closing' = closing
      /\ broken' = broken /\ eof' = eof /\ reader' = Outcome(e)
  BY DEF Takes, ResetCode, ResetFork, ResetLen
<1>4. PICK c : c = Current
  OBVIOUS
<1>5. PICK x : x = sent[c]
  OBVIOUS
<1>6. PICK u \in Nat : u = UsedNow
  BY PollView
<1>7. sent \in Seq(ChunkType) /\ src \in Seq(Octets) /\ c \in 1 .. Len(sent)
  BY <1>4 DEF CodecInv, CodecTypes
<1>8. UsedNow' = u + k
  BY <1>2, <1>3, <1>4, <1>5, <1>6 DEF UsedNow, UsedOf
<1>9. PICK at : Places(at) /\ Laid(at)
  BY DEF CodecInv, Layout
<1>10. at \in [1 .. Len(sent) + 1 -> Nat] /\ at[c] \in Nat /\ c + 1 \in 1 .. Len(sent) + 1
  BY <1>7, <1>9 DEF Places
<1>11. Layout'
  <2>1. PICK a \in Nat : a = at[c]
    BY <1>10
  <2>2. at[Current] + UsedNow \in Nat /\ a + u + k = a + (u + k)
    BY <1>4, <1>6, <2>1
  <2>3. (at[Current] + UsedNow)' = at[Current] + UsedNow + k
    BY <1>2, <1>4, <1>6, <1>8, <2>1, <2>2
  <2> QED BY <1>9, <2>2, <2>3, TakesLayout
<1>12. /\ Holds(x, c, e.code, e.fork, e.len, e.src)
       /\ FewBytes(e.len, Len(e.src))
       /\ Ours(x) => UsedOf(e, x) + Len(e.src) < WireLen(x)
  BY <1>4, <1>5 DEF Dry
<1>13. Held'
  <2>1. Holds(x, c, current_response_code, fork_name, len, src)'
    BY <1>3, <1>12, SameHolds
  <2>2. Current' # Len(sent') + 1
    BY <1>2, <1>3, <1>4, <1>7
  <2> QED BY <1>2, <1>3, <1>4, <1>5, <2>1, <2>2 DEF Held
<1>14. Waiting'
  <2>1. FewBytes(len, Len(src))'
    BY <1>3, <1>12 DEF FewBytes, Chunk
  <2>2. (Ours(x)' <=> Ours(x)) /\ WireLen(x)' = WireLen(x)
    BY <1>3, SameItems, SameStream
  <2>3. Ours(x) => UsedNow' + Len(src') < WireLen(x)
    BY <1>3, <1>4, <1>5, <1>6, <1>8, <1>12
  <2>4. sent'[Current'] = x
    BY <1>2, <1>3, <1>4, <1>5
  <2> QED BY <2>1, <2>2, <2>3, <2>4 DEF Waiting
<1>15. RejectsOnlyForeign'
  <2>1. SUFFICES ASSUME reader' = "failed", ~broken, Ours(x)
                 PROVE  FALSE
    <3>1. Len(decoded') < Len(sent') /\ Len(decoded') + 1 = c
      BY <1>2, <1>3, <1>4, <1>7 DEF Current
    <3>2. sent'[Len(decoded') + 1] = x /\ (Ours(x)' <=> Ours(x))
      BY <1>3, <1>5, <3>1, SameItems
    <3> QED BY <1>3, <3>1, <3>2 DEF RejectsOnlyForeign
  <2>2. eof
    BY <1>3, <2>1 DEF Outcome
  <2>3. src \o dst = src
    BY <1>7, <2>2 DEF CodecInv, WriterInv
  <2>4. PICK n \in Nat : n = Len(src)
    BY <1>7
  <2>5. Len(e.src) = n - k
    BY <1>7, <2>4, DropIs
  <2>6. Ours(x)
    BY <2>1
  <2>7. PICK w \in Nat : w = WireLen(x)
    <3>1. x \in ChunkType
      BY <1>5, <1>7
    <3> QED BY <3>1, ChunkFacts
  <2>8. u + k + (n - k) < w
    BY <1>4, <1>5, <1>6, <1>12, <2>5, <2>6, <2>7
  <2>9. PICK a \in Nat : a = at[c]
    BY <1>10
  <2>10. PICK z \in Nat : z = at[Len(sent) + 1]
    <3>1. Len(sent) + 1 \in 1 .. Len(sent) + 1
      BY <1>7
    <3> QED BY <1>10, <3>1
  <2>11. a + u + n = z
    BY <1>4, <1>6, <1>9, <2>1, <2>3, <2>4, <2>9, <2>10 DEF Laid
  <2>12. at[c + 1] = a + w /\ at[c + 1] <= z
    <3>1. at[c + 1] = a + w
      BY <1>5, <1>7, <1>9, <2>7, <2>9 DEF Places
    <3>2. Len(sent) + 1 \in 1 .. Len(sent) + 1 /\ c + 1 <= Len(sent) + 1
      BY <1>7
    <3>3. at[c + 1] <= at[Len(sent) + 1]
      BY <1>9, <1>10, <3>2 DEF Places
    <3> QED BY <2>10, <3>1, <3>3
  <2>13. a + w <= z
    BY <2>12
  <2> QED BY <2>4, <2>8, <2>11, <2>13
<1>16. Alive' /\ ~Responds' => decoded' = <<>>
  BY <1>2, <1>3, SameStream DEF CodecInv
<1> QED BY <1>1, <1>2, <1>11, <1>13, <1>14, <1>15, <1>16 DEF CodecInv

(* decode refuses the chunk: it is not ours. *)
LEMMA PollError ==
    ASSUME CodecInv, Alive, ~MetaDataRequest, Current \in 1 .. Len(sent),
           NEW e \in Decoder, Takes(e), e.out = "error", ~Ours(sent[Current])
    PROVE  CodecInv'
<1>1. CodecTypes' /\ WriterInv'
  BY TakesTypes
<1>2. Returned' /\ decoded' = decoded
  BY TakesReturned
<1>3. stream' = stream /\ sent' = sent /\ reader' = "failed"
  BY DEF Takes, Outcome
<1>4. Len(decoded') < Len(sent') /\ ~Ours(sent[Len(decoded) + 1])'
  <2>1. Len(decoded) < Len(sent) /\ Len(decoded) + 1 = Current
    BY DEF Current, CodecInv, CodecTypes
  <2> QED BY <1>2, <1>3, <2>1, SameItems
<1>5. ~Alive'
  BY <1>3 DEF Alive
<1>6. Waiting' /\ RejectsOnlyForeign'
  BY <1>3, <1>4 DEF Waiting, RejectsOnlyForeign
<1> QED BY <1>1, <1>2, <1>5, <1>6 DEF CodecInv

(* decode returns the chunk: the reader is before the next one, with       *)
(* nothing kept.                                                           *)
LEMMA PollSome ==
    ASSUME CodecInv, Alive, ~MetaDataRequest, Current \in 1 .. Len(sent),
           NEW d, d.src = src, UsedOf(d, sent[Current]) = UsedNow,
           NEW e \in Decoder, Takes(e), e.out = "some", Complete(d, e, sent[Current], Current)
    PROVE  CodecInv'
<1>1. sent \in Seq(ChunkType) /\ src \in Seq(Octets) /\ Len(decoded) \in Nat
  BY DEF CodecInv, CodecTypes
<1>2. CodecTypes' /\ WriterInv'
  <2>1. Current <= Len(sent)
    BY <1>1
  <2> QED BY <2>1, TakesTypes
<1>3. PICK c \in Nat : c = Current
  BY <1>1 DEF Current
<1>4. PICK x : x = sent[c]
  OBVIOUS
<1>5. /\ e.code = (IF Responds THEN <<"code", c>> ELSE <<>>)
      /\ e.fork = (IF HasContext(x) THEN <<"context", c>> ELSE <<>>)
      /\ e.len = <<"length", c>>
  BY <1>3, <1>4 DEF Complete
<1>6. PICK k \in 0 .. Len(src) : e.src = Drop(src, k) /\ UsedNow + k = WireLen(x)
  BY <1>3, <1>4 DEF Complete
<1>7. /\ stream' = stream /\ sent' = sent /\ dst' = dst /\ broken' = broken
      /\ src' = e.src /\ reader' = Outcome(e)
  BY DEF Takes
<1>8. current_response_code' = <<>> /\ len' = <<>>
  BY DEF Takes, ResetCode, ResetLen
<1>9. fork_name' = <<>>
  <2>1. CASE IsError(e)
    <3>1. Responds /\ Chunk(e.code).code = "error"
      BY <2>1 DEF IsError
    <3>2. Chunk(e.code) = x
      BY <1>4, <1>5, <3>1 DEF Chunk
    <3>3. ~HasContext(x)
      BY <3>1, <3>2 DEF HasContext
    <3> QED BY <1>5, <3>3 DEF Takes, ResetFork
  <2>2. CASE ~IsError(e)
    BY <2>2 DEF Takes, ResetFork
  <2> QED BY <2>1, <2>2
<1>10. PICK r : r = [code |-> e.code, fork |-> e.fork, len |-> e.len]
  OBVIOUS
<1>11. decoded' = Append(decoded, r)
  BY <1>10 DEF Takes
<1>12. Len(decoded) = c - 1 /\ Len(decoded') = c /\ decoded'[c] = r
       /\ \A i \in 1 .. c - 1 : decoded'[i] = decoded[i]
  <2>1. PICK S : decoded \in Seq(S)
    BY DEF CodecInv, CodecTypes
  <2>2. Len(decoded) + 1 = c
    BY <1>3 DEF Current
  <2> QED BY <1>1, <1>11, <2>1, <2>2
<1>13. Current' = c + 1
  BY <1>12 DEF Current
<1>14. Returned'
  <2>1. \A n : HasContext(sent[n])' <=> HasContext(sent[n])
    BY <1>7, SameStream
  <2>2. Responds' <=> Responds
    BY <1>7, SameStream
  <2>3. ASSUME NEW i \in 1 .. c
        PROVE  decoded'[i] = [code |-> IF Responds' THEN <<"code", i>> ELSE <<>>,
                             fork |-> IF HasContext(sent[i])' THEN <<"context", i>> ELSE <<>>,
                             len |-> <<"length", i>>]
    <3>1. CASE i = c
      BY <1>4, <1>5, <1>10, <1>12, <2>1, <2>2, <3>1
    <3>2. CASE i \in 1 .. c - 1
      <4>1. i \in 1 .. Len(decoded) /\ decoded'[i] = decoded[i]
        BY <1>12, <3>2
      <4> QED BY <2>1, <2>2, <4>1 DEF CodecInv, Returned
    <3> QED BY <1>3, <3>1, <3>2
  <2> QED BY <1>12, <2>3 DEF Returned
<1>15. UsedNow' = 0
  BY <1>8, <1>9 DEF UsedNow, Used
<1>16. PICK at : Places(at) /\ Laid(at)
  BY DEF CodecInv, Layout
<1>17. Layout'
  <2>1. PICK u \in Nat : u = UsedNow
    BY PollView
  <2>2. at \in [1 .. Len(sent) + 1 -> Nat] /\ c \in 1 .. Len(sent) + 1 /\ c \in 1 .. Len(sent)
    BY <1>1, <1>3, <1>16 DEF Places
  <2>3. PICK a \in Nat : a = at[c]
    BY <2>2
  <2>4. PICK w : w = WireLen(x)
    OBVIOUS
  <2>5. w = u + k
    BY <1>6, <2>1, <2>4
  <2>6. at[c + 1] = a + w
    BY <1>4, <1>16, <2>2, <2>3, <2>4 DEF Places
  <2>7. at[c + 1] = a + u + k /\ a + u \in Nat /\ a + u + k \in Nat
    <3>1. at[c + 1] = a + (u + k)
      BY <2>5, <2>6
    <3>2. k \in Nat
      BY <1>1, <1>6
    <3>3. PICK j \in Nat : j = k
      BY <3>2
    <3>4. a + (u + j) = a + u + j /\ a + u \in Nat /\ a + u + j \in Nat
      OBVIOUS
    <3> QED BY <3>1, <3>3, <3>4
  <2>8. (at[Current] + UsedNow)' = at[c + 1]
    BY <1>13, <1>15, <2>7
  <2>9. at[Current] + UsedNow = a + u
    BY <1>3, <2>1, <2>3
  <2>10. (at[Current] + UsedNow)' = at[Current] + UsedNow + k /\ at[Current] + UsedNow \in Nat
    BY <2>7, <2>8, <2>9
  <2> QED BY <1>6, <1>16, <2>10, TakesLayout
<1>18. Held'
  <2>1. CASE Current' = Len(sent') + 1
    BY <1>8, <1>9, <2>1 DEF Held
  <2>2. CASE Current' # Len(sent') + 1
    <3>1. PICK y : y = sent'[c + 1]
      OBVIOUS
    <3>2. PICK s : s = src'
      OBVIOUS
    <3>3. Holds(y, c + 1, <<>>, <<>>, <<>>, s)
      BY DEF Holds
    <3>4. Holds(y, c + 1, <<>>, <<>>, <<>>, s)'
      BY <1>7, <3>3, SameHolds
    <3> QED BY <1>8, <1>9, <1>13, <2>2, <3>1, <3>2, <3>4 DEF Held
  <2> QED BY <2>1, <2>2
<1>19. reader' = (IF Responds THEN "reading" ELSE "ended")
  BY <1>7 DEF Outcome
<1>20. Waiting' /\ RejectsOnlyForeign'
  BY <1>19 DEF Waiting, RejectsOnlyForeign
<1>21. Alive' /\ ~Responds' => decoded' = <<>>
  BY <1>7, <1>19, SameStream DEF Alive
<1> QED BY <1>2, <1>14, <1>17, <1>18, <1>20, <1>21 DEF CodecInv

(* Poll: nothing to read, or what decode does to the chunk the reader is   *)
(* in.                                                                     *)
LEMMA PollInv ==
    ASSUME CodecInv, Poll
    PROVE  CodecInv'
<1>1. Alive /\ ~MetaDataRequest
  BY DEF Poll, Alive, MetaDataRequest
<1>2. PICK d : d = [src |-> src, code |-> current_response_code, fork |-> fork_name,
                   len |-> len, out |-> "go"]
  OBVIOUS
<1>3. PICK e : e = decode(d)
  OBVIOUS
<1>4. Takes(e)
  BY <1>2, <1>3, Zenon DEF Poll, Takes, writer
<1>5. /\ d \in Decoder /\ d.src = src /\ d.code = current_response_code
      /\ d.fork = fork_name /\ d.len = len /\ d.out = "go"
  BY <1>2 DEF CodecInv, CodecTypes, Decoder
<1>6. CASE Current = Len(sent) + 1
  BY <1>1, <1>3, <1>4, <1>5, <1>6, PollNothing
<1>7. CASE Current \in 1 .. Len(sent)
  <2>1. PICK c : c = Current
    OBVIOUS
  <2>2. PICK x : x = sent[c]
    OBVIOUS
  <2>3. Reading(x, c)
    BY <1>1, <1>7, <2>1, <2>2, PollView
  <2>4. In(d, x, c) /\ Holds(x, c, d.code, d.fork, d.len, d.src) /\ UsedOf(d, x) = UsedNow
    BY <1>1, <1>5, <1>7, <2>1, <2>2, PollReads
  <2>5. /\ e \in Decoder
        /\ e.out \in {"none", "some", "error"}
        /\ e.out = "none" => In(e, x, c) /\ Consumed(d, e, x) /\ Dry(e, x, c)
        /\ e.out = "error" => ~Ours(x)
        /\ e.out = "some" => Complete(d, e, x, c)
    BY <1>3, <1>5, <2>3, <2>4, DecodeIs
  <2>6. CASE e.out = "none"
    <3>1. PICK k \in 0 .. Len(src) : e.src = Drop(src, k) /\ UsedOf(e, x) = UsedNow + k
      BY <1>5, <2>4, <2>5, <2>6 DEF Consumed
    <3> QED BY <1>1, <1>4, <1>7, <2>1, <2>2, <2>5, <2>6, <3>1, PollNone
  <2>7. CASE e.out = "error"
    BY <1>1, <1>4, <1>7, <2>1, <2>2, <2>5, <2>7, PollError
  <2>8. CASE e.out = "some"
    BY <1>1, <1>4, <1>5, <1>7, <2>1, <2>2, <2>4, <2>5, <2>8, PollSome
  <2> QED BY <2>5, <2>6, <2>7, <2>8
<1>8. Current \in 1 .. Len(sent) + 1 /\ Len(sent) \in Nat
  BY DEF CodecInv, CodecTypes, Current
<1> QED BY <1>6, <1>7, <1>8

(* The invariant holds at first, *)
LEMMA CodecInitInv == CodecInit => CodecInv
<1> SUFFICES ASSUME CodecInit
             PROVE  CodecInv
  OBVIOUS
<1>1. CodecTypes /\ WriterInv
  <2>1. CodecTypes
    <3>1. /\ stream \in Streams /\ reader = "reading"
          /\ closing \in BOOLEAN /\ broken \in BOOLEAN /\ eof \in BOOLEAN
      BY DEF CodecInit
    <3>2. sent = <<>> /\ dst = <<>> /\ src = <<>> /\ decoded = <<>>
      BY DEF CodecInit
    <3>3. sent \in Seq(ChunkType) /\ dst \in Seq(Octets) /\ src \in Seq(Octets)
          /\ Len(decoded) <= Len(sent) /\ Len(sent) = 0
      BY <3>2
    <3>4. \A S : decoded \in Seq(S)
      BY <3>2
    <3>5. /\ current_response_code \in Kept("code")
          /\ fork_name \in Kept("context")
          /\ len \in Kept("length")
      BY DEF CodecInit, Kept
    <3> QED BY <3>1, <3>3, <3>4, <3>5 DEF CodecTypes
  <2>2. Len(sent) = 0 /\ ~closing /\ ~broken /\ ~eof /\ reader = "reading"
    BY DEF CodecInit
  <2>3. Len(sent) <= 1 /\ Len(sent) # 1
    BY <2>2
  <2> QED BY <2>1, <2>2, <2>3 DEF WriterInv
<1>2. Layout
  <2>1. PICK at : at = [n \in 1 .. 1 |-> 0]
    OBVIOUS
  <2>2. Len(sent) = 0 /\ Len(src \o dst) = 0 /\ Current = 1 /\ UsedNow = 0
    BY DEF CodecInit, Current, UsedNow, Used
  <2>3. at[1] = 0 /\ at \in [1 .. 0 + 1 -> Nat]
    BY <2>1
  <2>4. Places(at)
    BY <2>1, <2>2, <2>3 DEF Places
  <2>5. Laid(at)
    BY <2>2, <2>3 DEF Laid
  <2> QED BY <2>4, <2>5 DEF Layout
<1>3. Held
  BY DEF CodecInit, Held, Current
<1>4. Waiting /\ Returned /\ RejectsOnlyForeign /\ decoded = <<>>
  BY DEF CodecInit, Waiting, Returned, RejectsOnlyForeign
<1> QED BY <1>1, <1>2, <1>3, <1>4 DEF CodecInv

(* and every step keeps it. *)
LEMMA CodecNextInv == CodecInv /\ [CodecNext]_vars => CodecInv'
<1> SUFFICES ASSUME CodecInv, [CodecNext]_vars
             PROVE  CodecInv'
  OBVIOUS
<1>1. CASE \E chunk \in Items, last_chunk \in BOOLEAN : Send(chunk, last_chunk)
  BY <1>1, SendInv
<1>2. CASE Terminate
  BY <1>2, TerminateInv
<1>3. CASE \E chunk \in Foreign : SendForeign(chunk)
  BY <1>3, SendForeignInv
<1>4. CASE \E k \in 1 .. Len(dst) : Deliver(k)
  BY <1>4, DeliverInv
<1>5. CASE Cut
  BY <1>5, CutInv
<1>6. CASE Eof
  BY <1>6, EofInv
<1>7. CASE Poll
  BY <1>7, PollInv
<1>8. CASE TakeMetaData
  BY <1>8, TakeMetaDataInv
<1>9. CASE UNCHANGED vars
  BY <1>9, StutterInv
<1> QED BY <1>1, <1>2, <1>3, <1>4, <1>5, <1>6, <1>7, <1>8, <1>9 DEF CodecNext

(* On every stream, whoever writes it, the reader is always where CodecInv *)
(* says: the bytes in the two buffers are those of the chunks from the     *)
(* reader's place on.                                                      *)
THEOREM CodecInvariant == CodecSpec => []CodecInv
BY CodecInitInv, CodecNextInv, PTL DEF CodecSpec

(* The i-th item that decode returns is made of the parts of the i-th      *)
(* chunk that was encoded, whatever fragments the network makes.           *)
THEOREM ItemsInOrder == CodecSpec => []InOrder
<1>1. CodecInv => InOrder
  <2> SUFFICES ASSUME CodecInv
               PROVE  InOrder
    OBVIOUS
  <2>1. ToSet(dst \o src) \subseteq Octets
    <3>1. PICK s : s = dst \o src
      OBVIOUS
    <3>2. s \in Seq(Octets)
      BY <3>1 DEF CodecInv, CodecTypes
    <3>3. ToSet(s) \subseteq Octets
      BY <3>2 DEF ToSet
    <3> QED BY <3>1, <3>3
  <2>2. CodecTypeOK
    BY <2>1 DEF CodecInv, CodecTypes, CodecTypeOK, Kept, Octets, Parts
  <2> QED BY <2>2 DEF CodecInv, Returned, InOrder
<1> QED BY <1>1, CodecInvariant, PTL

(* A reader that waits has returned every whole chunk of our encoder, and  *)
(* buffers of a foreign one no more than the bytes of the part that is     *)
(* due, or than its announced length can compress to.                      *)
THEOREM WaitsForMore == CodecSpec => []WaitsOnlyForMore
<1>1. CodecInv => WaitsOnlyForMore
  <2> SUFFICES ASSUME CodecInv, reader = "dry"
               PROVE  /\ dst = <<>> /\ ~broken /\ OursOnly => Len(decoded) = Len(sent)
                      /\ FewBytes(len, Len(src))
    BY DEF WaitsOnlyForMore, FewBytes
  <2>1. FewBytes(len, Len(src))
    BY DEF CodecInv, Waiting
  <2>2. ASSUME dst = <<>>, ~broken, OursOnly, Len(decoded) # Len(sent)
        PROVE  FALSE
    <3>1. sent \in Seq(ChunkType) /\ src \in Seq(Octets) /\ Len(decoded) \in Nat
          /\ Len(decoded) <= Len(sent)
      BY DEF CodecInv, CodecTypes
    <3>2. PICK c : c = Current
      OBVIOUS
    <3>3. c \in 1 .. Len(sent) /\ c + 1 \in 1 .. Len(sent) + 1
          /\ Len(sent) + 1 \in 1 .. Len(sent) + 1 /\ c + 1 <= Len(sent) + 1
          /\ c \in 1 .. Len(sent) + 1
      BY <2>2, <3>1, <3>2 DEF Current
    <3>4. PICK x \in ChunkType : x = sent[c]
      BY <3>1, <3>3
    <3>5. Alive /\ ~MetaDataRequest
      BY DEF CodecInv, WriterInv, Alive
    <3>6. PICK u \in Nat : u = UsedNow
      BY <3>2, <3>3, <3>5, PollView
    <3>7. PICK n \in Nat : n = Len(src)
      BY <3>1
    <3>8. PICK w \in Nat : w = WireLen(x)
      BY ChunkFacts
    <3>9. u + n < w
      <4>1. Ours(x)
        BY <2>2, <3>3, <3>4 DEF OursOnly
      <4>2. c <= Len(sent)
        BY <3>1, <3>3
      <4> QED BY <3>2, <3>4, <3>6, <3>7, <3>8, <4>1, <4>2 DEF CodecInv, Waiting
    <3>10. PICK at : Places(at) /\ Laid(at)
      BY <3>5 DEF CodecInv, Layout
    <3>11. at \in [1 .. Len(sent) + 1 -> Nat]
      BY <3>10 DEF Places
    <3>12. PICK a \in Nat : a = at[c]
      BY <3>3, <3>11
    <3>13. PICK z \in Nat : z = at[Len(sent) + 1]
      BY <3>3, <3>11
    <3>14. src \o dst = src
      BY <2>2, <3>1
    <3>15. a + u + n = z
      BY <2>2, <3>2, <3>6, <3>7, <3>10, <3>12, <3>13, <3>14 DEF Laid
    <3>16. at[c + 1] = a + w /\ at[c + 1] <= at[Len(sent) + 1]
      BY <3>3, <3>4, <3>8, <3>10, <3>12 DEF Places
    <3>17. a + w <= z
      BY <3>13, <3>16
    <3> QED BY <3>9, <3>15, <3>17
  <2> QED BY <2>1, <2>2
<1> QED BY <1>1, CodecInvariant, PTL

(* A reader fails only on a stream that was cut, or at a chunk that is not *)
(* ours, with every chunk before it returned: of what encode has written   *)
(* decode refuses nothing but a block of a later fork on version 1.        *)
THEOREM RejectsForeignOnly == CodecSpec => []RejectsOnlyForeign
<1>1. CodecInv => RejectsOnlyForeign
  BY DEF CodecInv
<1> QED BY <1>1, CodecInvariant, PTL
=============================================================================
