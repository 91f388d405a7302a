-------------------------- MODULE RpcHandlerProofs --------------------------
(***************************************************************************)
(* Proofs about RpcHandler, for any requests, limits and bounds: the       *)
(* handler's books balance, no request is lost or duplicated, the reports  *)
(* to the application come in order and in number, no inbound request is   *)
(* answered beyond what it asked for, and a clean close leaves nothing.    *)
(***************************************************************************)
EXTENDS RpcHandler, FiniteSetTheorems, SequenceTheorems, TLAPS

\* The sequence has the element.
Holds(x, seq) == \E i \in DOMAIN seq : seq[i] = x

\* It does not have it twice.
AtMostOnce(x, seq) == \A i, j \in DOMAIN seq : seq[i] = x /\ seq[j] = x => i = j

Queued(r) == Holds(r, dial_queue)
Failed(r) == Holds(OutboundError(r), events_out)
Open(r) == outbound_substreams[r] # "None"

\* A request is in at most one of the four places, and in that one only once.
OnePlace(r) ==
    /\ AtMostOnce(r, dial_queue)
    /\ AtMostOnce(OutboundError(r), events_out)
    /\ ~(Queued(r) /\ Failed(r)) /\ ~(Queued(r) /\ r \in opening) /\ ~(Queued(r) /\ Open(r))
    /\ ~(Failed(r) /\ r \in opening) /\ ~(Failed(r) /\ Open(r)) /\ ~(r \in opening /\ Open(r))
    /\ Queued(r) \/ Failed(r) \/ r \in opening \/ Open(r) => r \in sent

\* A request that left them was reported.
LeftReported(r) ==
    r \in sent /\ ~Queued(r) /\ ~Failed(r) /\ r \notin opening /\ ~Open(r) /\ expected[r] > 0
        => reports[r] # <<>>

\* The goodbye is sent by a shutdown, and only by the first.
GoodbyeOnce == Goodbye \in sent => state # "Active"

Ordered(seq) ==
    \A i, j \in DOMAIN seq :
        i < j => /\ seq[j] = "Response" => seq[i] = "Response"
                 /\ seq[i] # "EndOfStream"

\* What was reported of a request, by the place where it is.
ReportsByPlace(r) ==
    /\ r \notin sent \/ Queued(r) \/ Failed(r) \/ r \in opening => reports[r] = <<>>
    /\ outbound_substreams[r] = "RequestPendingResponse" =>
         /\ \A i \in DOMAIN reports[r] : reports[r][i] = "Response"
         /\ outbound_remaining[r] >= 1
         /\ Times("Response", reports[r]) + outbound_remaining[r] = expected[r]
    /\ outbound_substreams[r] = "Closing" =>
         /\ reports[r] # <<>>
         /\ ~Holds("EndOfStream", reports[r])
    /\ Times("Response", reports[r]) <= expected[r]
    /\ Ordered(reports[r])

RequestInv ==
    /\ GoodbyeOnce
    /\ \A r \in Requests : OnePlace(r) /\ LeftReported(r) /\ ReportsByPlace(r)

\* An open inbound substream counts down exactly what the peer is still owed.
InboundOK(info, owes) ==
    /\ owes >= 0
    /\ info.st # "None" => info.remaining_chunks >= 1 /\ owes = info.remaining_chunks
    /\ info.st = "Busy" => (info.last_chunk <=> info.remaining_chunks <= 1)

InboundInv ==
    \A id \in InboundIds :
        /\ InboundOK(inbound_substreams[id], owed[id])
        /\ id >= current_inbound_substream_id => inbound_substreams[id].st = "None"

\* What the requests ask for: only those for blocks have more than one response.
AskedOK(r) ==
    /\ r \notin sent \/ r = Goodbye => expected[r] = 0
    /\ expected[r] > 1 => r \in BlockRequests

AskedInv == \A r \in Requests : AskedOK(r)

\* A handler that has ended is not inside poll.
EndedWaits == ~Running => phase = "Waiting"

\* The inductive invariant.
HInv == BooksBalance /\ RequestInv /\ AskedInv /\ InboundInv /\ EndedWaits /\ CleanClose

-----------------------------------------------------------------------------
(* Sequences.                                                              *)

\* Appending adds one element at the end.
LEMMA AppendHolds ==
    ASSUME NEW S, NEW s \in Seq(S), NEW y \in S, NEW x
    PROVE  /\ Append(s, y) \in Seq(S)
           /\ Holds(x, Append(s, y)) <=> Holds(x, s) \/ x = y
           /\ AtMostOnce(x, s) /\ ~(Holds(x, s) /\ x = y) => AtMostOnce(x, Append(s, y))
<1> DEFINE t == Append(s, y)
<1>1. /\ t \in Seq(S) /\ Len(t) = Len(s) + 1 /\ Len(s) \in Nat
      /\ DOMAIN s = 1 .. Len(s) /\ DOMAIN t = 1 .. Len(s) + 1
      /\ \A i \in 1 .. Len(s) : t[i] = s[i]
      /\ t[Len(s) + 1] = y
  BY AppendProperties, LenProperties
<1> HIDE DEF t
<1>2. Holds(x, t) <=> Holds(x, s) \/ x = y
  <2>1. ASSUME Holds(x, s) PROVE Holds(x, t)
    BY <1>1, <2>1 DEF Holds
  <2>2. ASSUME x = y PROVE Holds(x, t)
    BY <1>1, <2>2 DEF Holds
  <2>3. ASSUME Holds(x, t), x # y PROVE Holds(x, s)
    <3>1. PICK i \in 1 .. Len(s) + 1 : t[i] = x
      BY <1>1, <2>3 DEF Holds
    <3>2. i \in 1 .. Len(s)
      BY <1>1, <2>3, <3>1
    <3> QED BY <1>1, <3>1, <3>2 DEF Holds
  <2> QED BY <2>1, <2>2, <2>3
<1>3. ASSUME AtMostOnce(x, s), ~(Holds(x, s) /\ x = y) PROVE AtMostOnce(x, t)
  <2> SUFFICES ASSUME NEW i \in 1 .. Len(s) + 1, NEW j \in 1 .. Len(s) + 1, t[i] = x, t[j] = x
               PROVE  i = j
    BY <1>1 DEF AtMostOnce
  <2>1. CASE i \in 1 .. Len(s) /\ j \in 1 .. Len(s)
    BY <1>1, <1>3, <2>1 DEF AtMostOnce
  <2>2. CASE i = Len(s) + 1 /\ j = Len(s) + 1
    BY <2>2
  <2>3. CASE i \in 1 .. Len(s) /\ j = Len(s) + 1
    BY <1>1, <1>3, <2>3 DEF Holds
  <2>4. CASE i = Len(s) + 1 /\ j \in 1 .. Len(s)
    BY <1>1, <1>3, <2>4 DEF Holds
  <2> QED BY <1>1, <2>1, <2>2, <2>3, <2>4
<1> QED BY <1>1, <1>2, <1>3 DEF t

\* Taking the head away from a sequence that has it once.
LEMMA TailHolds ==
    ASSUME NEW S, NEW s \in Seq(S), s # <<>>, NEW x
    PROVE  /\ Head(s) \in S /\ Holds(Head(s), s)
           /\ Tail(s) \in Seq(S)
           /\ Holds(x, Tail(s)) => Holds(x, s)
           /\ AtMostOnce(x, s) => AtMostOnce(x, Tail(s))
           /\ AtMostOnce(x, s) => (Holds(x, Tail(s)) <=> Holds(x, s) /\ x # Head(s))
<1> DEFINE t == Tail(s)
<1>1. /\ t \in Seq(S) /\ Len(t) = Len(s) - 1 /\ Len(s) \in Nat \ {0}
      /\ DOMAIN s = 1 .. Len(s) /\ DOMAIN t = 1 .. Len(s) - 1
      /\ \A i \in 1 .. Len(s) - 1 : t[i] = s[i + 1]
      /\ Head(s) = s[1] /\ Head(s) \in S
  BY HeadTailProperties, LenProperties, EmptySeq
<1> HIDE DEF t
<1>2. Holds(Head(s), s)
  BY <1>1 DEF Holds
<1>3. ASSUME Holds(x, t) PROVE Holds(x, s)
  <2>1. PICK i \in 1 .. Len(s) - 1 : t[i] = x
    BY <1>1, <1>3 DEF Holds
  <2>2. i + 1 \in 1 .. Len(s) /\ s[i + 1] = x
    BY <1>1, <2>1
  <2> QED BY <1>1, <2>2 DEF Holds
<1>4. ASSUME AtMostOnce(x, s) PROVE AtMostOnce(x, t)
  <2> SUFFICES ASSUME NEW i \in 1 .. Len(s) - 1, NEW j \in 1 .. Len(s) - 1, t[i] = x, t[j] = x
               PROVE  i = j
    BY <1>1 DEF AtMostOnce
  <2>1. i + 1 \in 1 .. Len(s) /\ s[i + 1] = x /\ j + 1 \in 1 .. Len(s) /\ s[j + 1] = x
    BY <1>1
  <2>2. i + 1 = j + 1
    BY <1>1, <1>4, <2>1 DEF AtMostOnce
  <2> QED BY <2>2, <1>1
<1>5. ASSUME AtMostOnce(x, s), Holds(x, t) PROVE x # Head(s)
  <2>1. PICK i \in 1 .. Len(s) - 1 : t[i] = x
    BY <1>1, <1>5 DEF Holds
  <2>2. i + 1 \in 1 .. Len(s) /\ s[i + 1] = x /\ 1 \in 1 .. Len(s) /\ i + 1 # 1
    BY <1>1, <2>1
  <2> QED BY <1>1, <1>5, <2>2 DEF AtMostOnce
<1>6. ASSUME Holds(x, s), x # Head(s) PROVE Holds(x, t)
  <2>1. PICK i \in 1 .. Len(s) : s[i] = x
    BY <1>1, <1>6 DEF Holds
  <2>2. i - 1 \in 1 .. Len(s) - 1 /\ t[i - 1] = x
    BY <1>1, <1>6, <2>1
  <2> QED BY <1>1, <2>2 DEF Holds
<1> QED BY <1>1, <1>2, <1>3, <1>4, <1>5, <1>6 DEF t

\* Putting one sequence after another.
LEMMA ConcatHolds ==
    ASSUME NEW S, NEW s \in Seq(S), NEW t \in Seq(S), NEW x
    PROVE  /\ s \o t \in Seq(S)
           /\ Holds(x, s \o t) <=> Holds(x, s) \/ Holds(x, t)
           /\ AtMostOnce(x, s) /\ AtMostOnce(x, t) /\ ~(Holds(x, s) /\ Holds(x, t))
                => AtMostOnce(x, s \o t)
<1> DEFINE u == s \o t
           m == Len(s)
           n == Len(t)
<1>1. /\ u \in Seq(S) /\ m \in Nat /\ n \in Nat
      /\ DOMAIN s = 1 .. m /\ DOMAIN t = 1 .. n /\ DOMAIN u = 1 .. m + n
      /\ \A i \in 1 .. m + n : u[i] = IF i <= m THEN s[i] ELSE t[i - m]
  BY ConcatProperties, LenProperties
<1> HIDE DEF u, m, n
<1>2. ASSUME Holds(x, s) PROVE Holds(x, u)
  <2>1. PICK i \in 1 .. m : s[i] = x
    BY <1>1, <1>2 DEF Holds
  <2>2. i \in 1 .. m + n /\ u[i] = x
    BY <1>1, <2>1
  <2> QED BY <1>1, <2>2 DEF Holds
<1>3. ASSUME Holds(x, t) PROVE Holds(x, u)
  <2>1. PICK i \in 1 .. n : t[i] = x
    BY <1>1, <1>3 DEF Holds
  <2>2. i + m \in 1 .. m + n /\ u[i + m] = x
    BY <1>1, <2>1
  <2> QED BY <1>1, <2>2 DEF Holds
<1>4. ASSUME Holds(x, u) PROVE Holds(x, s) \/ Holds(x, t)
  <2>1. PICK i \in 1 .. m + n : u[i] = x
    BY <1>1, <1>4 DEF Holds
  <2>2. CASE i <= m
    BY <1>1, <2>1, <2>2 DEF Holds
  <2>3. CASE ~(i <= m)
    <3>1. i - m \in 1 .. n /\ t[i - m] = x
      BY <1>1, <2>1, <2>3
    <3> QED BY <1>1, <3>1 DEF Holds
  <2> QED BY <2>2, <2>3
<1>5. ASSUME AtMostOnce(x, s), AtMostOnce(x, t), ~(Holds(x, s) /\ Holds(x, t))
      PROVE  AtMostOnce(x, u)
  <2> SUFFICES ASSUME NEW i \in 1 .. m + n, NEW j \in 1 .. m + n, u[i] = x, u[j] = x
               PROVE  i = j
    BY <1>1 DEF AtMostOnce
  <2>1. CASE i <= m /\ j <= m
    <3>1. i \in 1 .. m /\ s[i] = x /\ j \in 1 .. m /\ s[j] = x
      BY <1>1, <2>1
    <3> QED BY <1>1, <1>5, <3>1 DEF AtMostOnce
  <2>2. CASE ~(i <= m) /\ ~(j <= m)
    <3>1. i - m \in 1 .. n /\ t[i - m] = x /\ j - m \in 1 .. n /\ t[j - m] = x
      BY <1>1, <2>2
    <3>2. i - m = j - m
      BY <1>1, <1>5, <3>1 DEF AtMostOnce
    <3> QED BY <1>1, <3>2
  <2>3. CASE i <= m /\ ~(j <= m)
    <3>1. i \in 1 .. m /\ s[i] = x /\ j - m \in 1 .. n /\ t[j - m] = x
      BY <1>1, <2>3
    <3> QED BY <1>1, <1>5, <3>1 DEF Holds
  <2>4. CASE ~(i <= m) /\ j <= m
    <3>1. j \in 1 .. m /\ s[j] = x /\ i - m \in 1 .. n /\ t[i - m] = x
      BY <1>1, <2>4
    <3> QED BY <1>1, <1>5, <3>1 DEF Holds
  <2> QED BY <2>1, <2>2, <2>3, <2>4
<1> QED BY <1>1, <1>2, <1>3, <1>4, <1>5 DEF u

\* The empty sequence and a sequence of one element.
LEMMA ShortHolds ==
    ASSUME NEW S, NEW y \in S, NEW x
    PROVE  /\ <<>> \in Seq(S) /\ ~Holds(x, <<>>) /\ AtMostOnce(x, <<>>)
           /\ <<y>> \in Seq(S) /\ (Holds(x, <<y>>) <=> x = y) /\ AtMostOnce(x, <<y>>)
BY DEF Holds, AtMostOnce

\* How often an element occurs in a sequence, and in one it is appended to.
LEMMA TimesAppend ==
    ASSUME NEW S, NEW s \in Seq(S), NEW y \in S, NEW x
    PROVE  /\ Times(x, s) \in Nat
           /\ Times(x, Append(s, y)) = Times(x, s) + (IF x = y THEN 1 ELSE 0)
<1> DEFINE t == Append(s, y)
           D == {i \in DOMAIN s : s[i] = x}
           E == {i \in DOMAIN t : t[i] = x}
<1>1. /\ t \in Seq(S) /\ Len(s) \in Nat
      /\ DOMAIN s = 1 .. Len(s) /\ DOMAIN t = 1 .. Len(s) + 1
      /\ \A i \in 1 .. Len(s) : t[i] = s[i]
      /\ t[Len(s) + 1] = y
  BY AppendProperties, LenProperties
<1>2. IsFiniteSet(D) /\ Cardinality(D) \in Nat
  <2>1. IsFiniteSet(1 .. Len(s))
    BY <1>1, FS_Interval
  <2>2. IsFiniteSet(D)
    BY <1>1, <2>1, FS_Subset
  <2> QED BY <2>2, FS_CardinalityType
<1>3. CASE x = y
  <2>1. E = D \cup {Len(s) + 1} /\ Len(s) + 1 \notin D
    BY <1>1, <1>3
  <2>2. Cardinality(E) = Cardinality(D) + 1
    BY <1>2, <2>1, FS_AddElement
  <2> QED BY <1>2, <1>3, <2>2 DEF Times
<1>4. CASE x # y
  <2>1. E = D
    BY <1>1, <1>4
  <2>2. Times(x, t) = Times(x, s) /\ Times(x, s) \in Nat
    BY <1>2, <2>1 DEF Times
  <2>3. Times(x, t) = Times(x, s) + 0
    BY <2>2
  <2> QED BY <1>4, <2>2, <2>3
<1> QED BY <1>3, <1>4

\* Nothing occurs in the empty sequence.
LEMMA TimesEmpty == ASSUME NEW x PROVE Times(x, <<>>) = 0
<1>1. {i \in DOMAIN <<>> : <<>>[i] = x} = {}
  OBVIOUS
<1> QED BY <1>1, FS_EmptySet DEF Times

\* An element that is held at most once is counted so.
LEMMA TimesOnce ==
    ASSUME NEW S, NEW s \in Seq(S), NEW x, AtMostOnce(x, s)
    PROVE  Times(x, s) = IF Holds(x, s) THEN 1 ELSE 0
<1> DEFINE D == {i \in DOMAIN s : s[i] = x}
<1>1. CASE Holds(x, s)
  <2>1. PICK i \in DOMAIN s : s[i] = x
    BY <1>1 DEF Holds
  <2>2. D = {i}
    BY <2>1 DEF AtMostOnce
  <2> QED BY <1>1, <2>2, FS_Singleton DEF Times
<1>2. CASE ~Holds(x, s)
  <2>1. D = {}
    BY <1>2 DEF Holds
  <2> QED BY <1>2, <2>1, FS_EmptySet DEF Times
<1> QED BY <1>1, <1>2

\* A report after which others may come: it continues an ordered sequence that
\* has not ended, and a response continues one of responses only.
LEMMA OrderedAppend ==
    ASSUME NEW S, NEW s \in Seq(S), NEW what \in S, Ordered(s),
           ~Holds("EndOfStream", s),
           what = "Response" => \A i \in DOMAIN s : s[i] = "Response"
    PROVE  Ordered(Append(s, what))
<1> DEFINE t == Append(s, what)
<1>1. /\ Len(s) \in Nat
      /\ DOMAIN s = 1 .. Len(s) /\ DOMAIN t = 1 .. Len(s) + 1
      /\ \A i \in 1 .. Len(s) : t[i] = s[i]
      /\ t[Len(s) + 1] = what
  BY AppendProperties, LenProperties
<1> HIDE DEF t
<1>2. SUFFICES ASSUME NEW i \in 1 .. Len(s) + 1, NEW j \in 1 .. Len(s) + 1, i < j
               PROVE  (t[j] = "Response" => t[i] = "Response") /\ t[i] # "EndOfStream"
  BY <1>1 DEF Ordered, t
<1>3. i \in 1 .. Len(s) /\ t[i] = s[i] /\ s[i] # "EndOfStream"
  BY <1>1, <1>2 DEF Holds
<1>4. CASE j \in 1 .. Len(s)
  BY <1>1, <1>2, <1>3, <1>4 DEF Ordered
<1>5. CASE j = Len(s) + 1
  BY <1>1, <1>3, <1>5
<1> QED BY <1>1, <1>3, <1>4, <1>5

-----------------------------------------------------------------------------
(* The queues of the handler.                                              *)

QueueTypes == events_out \in Seq(HandlerEvents) /\ dial_queue \in Seq(Requests)

\* The events the handler makes.
LEMMA EventTypes ==
    /\ \A r \in Requests : OutboundError(r) \in HandlerEvents
    /\ \A n \in Nat : <<"Request", n>> \in HandlerEvents /\ <<"InboundError", n>> \in HandlerEvents
    /\ \A r, n : <<"Request", n>> # OutboundError(r) /\ <<"InboundError", n>> # OutboundError(r)
    /\ \A q, r : OutboundError(q) = OutboundError(r) => q = r
BY DEF OutboundError, HandlerEvents

\* An event that is not the failure of a request leaves the failures as they are.
LEMMA OtherEvent ==
    ASSUME NEW es \in Seq(HandlerEvents), NEW kind \in {"Request", "InboundError"},
           NEW n \in Nat
    PROVE  /\ Append(es, <<kind, n>>) \in Seq(HandlerEvents)
           /\ <<<<kind, n>>>> \in Seq(HandlerEvents)
           /\ \A r : /\ Holds(OutboundError(r), Append(es, <<kind, n>>))
                          <=> Holds(OutboundError(r), es)
                     /\ AtMostOnce(OutboundError(r), es)
                          => AtMostOnce(OutboundError(r), Append(es, <<kind, n>>))
                     /\ ~Holds(OutboundError(r), <<<<kind, n>>>>)
<1> DEFINE e == <<kind, n>>
<1>1. e \in HandlerEvents /\ \A r : e # OutboundError(r)
  BY EventTypes
<1> HIDE DEF e
<1>2. Append(es, e) \in Seq(HandlerEvents) /\ <<e>> \in Seq(HandlerEvents)
  BY <1>1
<1>3. ASSUME NEW r
      PROVE  /\ Holds(OutboundError(r), Append(es, e)) <=> Holds(OutboundError(r), es)
             /\ AtMostOnce(OutboundError(r), es) => AtMostOnce(OutboundError(r), Append(es, e))
             /\ ~Holds(OutboundError(r), <<e>>)
  BY <1>1, AppendHolds, ShortHolds
<1> QED BY <1>2, <1>3 DEF e

\* The events a shutdown adds by itself: none, or one that is not a failure.
LEMMA OneEvent ==
    /\ <<>> \in Seq(Requests) /\ <<>> \in Seq(HandlerEvents)
    /\ \A r : ~Holds(OutboundError(r), <<>>)
    /\ \A kind \in {"Request", "InboundError"}, n \in Nat :
         /\ <<<<kind, n>>>> \in Seq(HandlerEvents)
         /\ \A r : ~Holds(OutboundError(r), <<<<kind, n>>>>)
<1>1. <<>> \in Seq(Requests) /\ <<>> \in Seq(HandlerEvents)
  OBVIOUS
<1>2. \A r : ~Holds(OutboundError(r), <<>>)
  BY DEF Holds
<1>3. ASSUME NEW kind \in {"Request", "InboundError"}, NEW n \in Nat
      PROVE  /\ <<<<kind, n>>>> \in Seq(HandlerEvents)
             /\ \A r : ~Holds(OutboundError(r), <<<<kind, n>>>>)
  BY <1>1, OtherEvent
<1> QED BY <1>1, <1>2, <1>3

\* The queued requests become failures, each one of them once.
LEMMA UnsentErrorsHold ==
    ASSUME QueueTypes
    PROVE  /\ UnsentErrors \in Seq(HandlerEvents)
           /\ \A r : /\ Holds(OutboundError(r), UnsentErrors) <=> Queued(r)
                     /\ AtMostOnce(r, dial_queue) => AtMostOnce(OutboundError(r), UnsentErrors)
<1> DEFINE n == Len(dial_queue)
           u == [i \in 1 .. n |-> OutboundError(dial_queue[n + 1 - i])]
<1>1. n \in Nat /\ DOMAIN dial_queue = 1 .. n /\ \A i \in 1 .. n : dial_queue[i] \in Requests
  BY LenProperties, ElementOfSeq DEF QueueTypes
<1>2. UnsentErrors = u
  BY <1>1 DEF UnsentErrors
<1> HIDE DEF n
<1>3. \A i \in 1 .. n : n + 1 - i \in 1 .. n /\ n + 1 - (n + 1 - i) = i
  BY <1>1
<1>4. \A i \in 1 .. n : u[i] = OutboundError(dial_queue[n + 1 - i])
  OBVIOUS
<1>5. \A i \in 1 .. n : OutboundError(dial_queue[n + 1 - i]) \in HandlerEvents
  BY <1>1, <1>3, EventTypes
<1>6. u \in Seq(HandlerEvents)
  BY <1>1, <1>5, IsASeq
<1>7. DOMAIN u = 1 .. n
  OBVIOUS
<1> HIDE DEF u
<1>8. ASSUME NEW r PROVE Holds(OutboundError(r), u) <=> Queued(r)
  <2>1. ASSUME Queued(r) PROVE Holds(OutboundError(r), u)
    <3>1. PICK i \in 1 .. n : dial_queue[i] = r
      BY <1>1, <2>1 DEF Queued, Holds
    <3>2. u[n + 1 - i] = OutboundError(r)
      BY <1>3, <1>4, <3>1
    <3> QED BY <1>3, <1>7, <3>2 DEF Holds
  <2>2. ASSUME Holds(OutboundError(r), u) PROVE Queued(r)
    <3>1. PICK i \in 1 .. n : u[i] = OutboundError(r)
      BY <1>7, <2>2 DEF Holds
    <3>2. dial_queue[n + 1 - i] = r
      BY <1>4, <3>1, EventTypes
    <3> QED BY <1>1, <1>3, <3>2 DEF Queued, Holds
  <2> QED BY <2>1, <2>2
<1>9. ASSUME NEW r, AtMostOnce(r, dial_queue) PROVE AtMostOnce(OutboundError(r), u)
  <2> SUFFICES ASSUME NEW i \in 1 .. n, NEW j \in 1 .. n,
                      u[i] = OutboundError(r), u[j] = OutboundError(r)
               PROVE  i = j
    BY <1>7 DEF AtMostOnce
  <2>1. dial_queue[n + 1 - i] = r /\ dial_queue[n + 1 - j] = r
    BY <1>4, EventTypes
  <2>2. n + 1 - i = n + 1 - j
    BY <1>1, <1>3, <1>9, <2>1 DEF AtMostOnce
  <2> QED BY <1>1, <2>2
<1> QED BY <1>2, <1>6, <1>8, <1>9

\* The queues keep their types and what they hold of request q.
Kept(q) ==
    /\ Queued(q)' <=> Queued(q)
    /\ Failed(q)' <=> Failed(q)
    /\ AtMostOnce(q, dial_queue) => AtMostOnce(q, dial_queue)'
    /\ AtMostOnce(OutboundError(q), events_out) => AtMostOnce(OutboundError(q), events_out)'

\* Sending a request: to the queue, or to the failures after a shutdown.
LEMMA EnqueueEffect ==
    ASSUME QueueTypes, NEW r \in Requests, Enqueue(r)
    PROVE  /\ QueueTypes'
           /\ \A q : q # r => Kept(q)
           /\ state = "Active" => Queued(r)' /\ (Failed(r)' <=> Failed(r))
           /\ state # "Active" => Failed(r)' /\ (Queued(r)' <=> Queued(r))
           /\ ~Queued(r) /\ ~Failed(r) /\ AtMostOnce(r, dial_queue)
                /\ AtMostOnce(OutboundError(r), events_out)
              => AtMostOnce(r, dial_queue)' /\ AtMostOnce(OutboundError(r), events_out)'
<1>1. CASE state = "Active"
  <2>1. dial_queue' = Append(dial_queue, r) /\ events_out' = events_out
    BY <1>1 DEF Enqueue
  <2>2. \A q : /\ Append(dial_queue, r) \in Seq(Requests)
               /\ Holds(q, Append(dial_queue, r)) <=> Holds(q, dial_queue) \/ q = r
               /\ AtMostOnce(q, dial_queue) /\ ~(Holds(q, dial_queue) /\ q = r)
                    => AtMostOnce(q, Append(dial_queue, r))
    BY AppendHolds DEF QueueTypes
  <2> QED BY <1>1, <2>1, <2>2 DEF QueueTypes, Kept, Queued, Failed
<1>2. CASE state # "Active"
  <2>1. dial_queue' = dial_queue /\ events_out' = Append(events_out, OutboundError(r))
    BY <1>2 DEF Enqueue
  <2>2. OutboundError(r) \in HandlerEvents
    BY EventTypes
  <2>3. \A x : /\ Append(events_out, OutboundError(r)) \in Seq(HandlerEvents)
               /\ Holds(x, Append(events_out, OutboundError(r)))
                    <=> Holds(x, events_out) \/ x = OutboundError(r)
               /\ AtMostOnce(x, events_out) /\ ~(Holds(x, events_out) /\ x = OutboundError(r))
                    => AtMostOnce(x, Append(events_out, OutboundError(r)))
    BY <2>2, AppendHolds DEF QueueTypes
  <2>4. \A q : q # r => OutboundError(q) # OutboundError(r)
    BY EventTypes
  <2> QED BY <1>2, <2>1, <2>3, <2>4 DEF QueueTypes, Kept, Queued, Failed
<1> QED BY <1>1, <1>2

\* A request fails.
LEMMA FailEffect ==
    ASSUME QueueTypes, NEW r \in Requests,
           events_out' = Append(events_out, OutboundError(r)), dial_queue' = dial_queue
    PROVE  /\ QueueTypes'
           /\ \A q : q # r => Kept(q)
           /\ Failed(r)' /\ (Queued(r)' <=> Queued(r))
           /\ AtMostOnce(r, dial_queue) => AtMostOnce(r, dial_queue)'
           /\ ~Failed(r) /\ AtMostOnce(OutboundError(r), events_out)
                => AtMostOnce(OutboundError(r), events_out)'
<1>2. OutboundError(r) \in HandlerEvents
  BY EventTypes
<1>3. \A x : /\ Append(events_out, OutboundError(r)) \in Seq(HandlerEvents)
             /\ Holds(x, Append(events_out, OutboundError(r)))
                  <=> Holds(x, events_out) \/ x = OutboundError(r)
             /\ AtMostOnce(x, events_out) /\ ~(Holds(x, events_out) /\ x = OutboundError(r))
                  => AtMostOnce(x, Append(events_out, OutboundError(r)))
  BY <1>2, AppendHolds DEF QueueTypes
<1>4. \A q : q # r => OutboundError(q) # OutboundError(r)
  BY EventTypes
<1> QED BY <1>3, <1>4 DEF QueueTypes, Kept, Queued, Failed

\* A shutdown: the queued requests fail, and the queue holds the goodbye only.
LEMMA ShutdownEffect ==
    ASSUME QueueTypes, NEW goodbye \in Seq(Requests),
           NEW first \in Seq(HandlerEvents), NEW then \in Seq(HandlerEvents),
           \A r : ~Holds(OutboundError(r), first) /\ ~Holds(OutboundError(r), then),
           Shutdown(goodbye, first, then)
    PROVE  /\ QueueTypes'
           /\ state # "Active" => state' = state /\ \A q : Kept(q)
           /\ state = "Active" =>
                /\ state' = "ShuttingDown"
                /\ dial_queue' = goodbye
                /\ \A q : /\ Failed(q)' <=> Failed(q) \/ Queued(q)
                          /\ /\ AtMostOnce(q, dial_queue)
                             /\ AtMostOnce(OutboundError(q), events_out)
                             /\ ~(Queued(q) /\ Failed(q))
                             => AtMostOnce(OutboundError(q), events_out)'
<1>1. /\ UnsentErrors \in Seq(HandlerEvents)
      /\ \A r : /\ Holds(OutboundError(r), UnsentErrors) <=> Queued(r)
                /\ AtMostOnce(r, dial_queue) => AtMostOnce(OutboundError(r), UnsentErrors)
  BY UnsentErrorsHold
<1>2. \A r : AtMostOnce(OutboundError(r), first) /\ AtMostOnce(OutboundError(r), then)
  BY DEF Holds, AtMostOnce
<1>3. \A x : /\ events_out \o first \in Seq(HandlerEvents)
             /\ Holds(x, events_out \o first) <=> Holds(x, events_out) \/ Holds(x, first)
             /\ AtMostOnce(x, events_out) /\ AtMostOnce(x, first)
                  /\ ~(Holds(x, events_out) /\ Holds(x, first))
                => AtMostOnce(x, events_out \o first)
  BY ConcatHolds DEF QueueTypes
<1>4. CASE state = "Active"
  <2> DEFINE mid == (events_out \o first) \o UnsentErrors
  <2>1. /\ state' = "ShuttingDown" /\ dial_queue' = goodbye
        /\ events_out' = mid \o then
    BY <1>4 DEF Shutdown
  <2>2. \A x : /\ mid \in Seq(HandlerEvents)
               /\ Holds(x, mid) <=> Holds(x, events_out \o first) \/ Holds(x, UnsentErrors)
               /\ AtMostOnce(x, events_out \o first) /\ AtMostOnce(x, UnsentErrors)
                    /\ ~(Holds(x, events_out \o first) /\ Holds(x, UnsentErrors))
                  => AtMostOnce(x, mid)
    BY <1>1, <1>3, ConcatHolds
  <2> HIDE DEF mid
  <2>3. \A x : /\ mid \o then \in Seq(HandlerEvents)
               /\ Holds(x, mid \o then) <=> Holds(x, mid) \/ Holds(x, then)
               /\ AtMostOnce(x, mid) /\ AtMostOnce(x, then) /\ ~(Holds(x, mid) /\ Holds(x, then))
                  => AtMostOnce(x, mid \o then)
    BY <2>2, ConcatHolds
  <2> QED BY <1>1, <1>2, <1>3, <1>4, <2>1, <2>2, <2>3 DEF QueueTypes, Queued, Failed
<1>5. CASE state # "Active"
  <2> DEFINE mid == events_out \o first
  <2>1. state' = state /\ dial_queue' = dial_queue /\ events_out' = mid \o then
    BY <1>5 DEF Shutdown
  <2> HIDE DEF mid
  <2>3. \A x : /\ mid \o then \in Seq(HandlerEvents)
               /\ Holds(x, mid \o then) <=> Holds(x, mid) \/ Holds(x, then)
               /\ AtMostOnce(x, mid) /\ AtMostOnce(x, then) /\ ~(Holds(x, mid) /\ Holds(x, then))
                  => AtMostOnce(x, mid \o then)
    BY <1>3, ConcatHolds DEF mid
  <2> QED BY <1>2, <1>3, <1>5, <2>1, <2>3 DEF QueueTypes, Queued, Failed, Kept, mid
<1> QED BY <1>4, <1>5

-----------------------------------------------------------------------------
(* The books: types, timers and slots.                                     *)

\* What the assumptions say of the limits, and the upgrades in progress.
LEMMA Limits ==
    /\ max_dial_negotiated \in Nat \ {0} /\ IO_ERROR_RETRIES \in Nat \ {0}
    /\ MAX_INBOUND_SUBSTREAMS \in Nat \ {0} /\ MaxCount \in Nat \ {0}
    /\ MaxInboundRequests \in Nat /\ MaxPending \in Nat
    /\ InboundIds \subseteq Nat
    /\ IsFiniteSet(Requests)
<1>1. IsFiniteSet(SingleRequests \cup BlockRequests)
  BY RequestsAssumption, FS_Union
<1>2. IsFiniteSet({Goodbye})
  BY FS_Singleton
<1>3. IsFiniteSet(Requests)
  BY <1>1, <1>2, FS_Union DEF Requests
<1> QED BY <1>3, HandlerLimitsAssumption DEF InboundIds

\* An upgrade begins or ends.
LEMMA OpeningCount ==
    ASSUME NEW S \in SUBSET Requests, NEW r \in Requests
    PROVE  /\ Cardinality(S) \in Nat
           /\ r \in S => Cardinality(S \ {r}) = Cardinality(S) - 1 /\ Cardinality(S) >= 1
           /\ Cardinality(S \cup {r}) <= Cardinality(S) + 1
           /\ Cardinality(S \cup {r}) \in Nat
           /\ Cardinality(S \ {r}) \in Nat
<1>1. IsFiniteSet(S)
  BY Limits, FS_Subset
<1>2. Cardinality(S) \in Nat
  BY <1>1, FS_CardinalityType
<1>3. Cardinality(S \cup {r}) = IF r \in S THEN Cardinality(S) ELSE Cardinality(S) + 1
  BY <1>1, FS_AddElement
<1>4. Cardinality(S \ {r}) = IF r \in S THEN Cardinality(S) - 1 ELSE Cardinality(S)
  BY <1>1, FS_RemoveElement
<1>5. IsFiniteSet(S \ {r})
  BY <1>1, FS_Subset
<1>6. Cardinality(S \ {r}) \in Nat
  BY <1>5, FS_CardinalityType
<1> QED BY <1>2, <1>3, <1>4, <1>6

\* The initial state.
LEMMA InitBooks == HandlerInit => BooksBalance
<1> SUFFICES ASSUME HandlerInit PROVE BooksBalance
  OBVIOUS
<1>1. HandlerTypeOK
  <2>1. NoSubstream \in InboundInfos
    BY DEF NoSubstream, InboundInfos
  <2>2. inbound_substreams \in [InboundIds -> InboundInfos]
    BY <2>1 DEF HandlerInit
  <2>3. 0 \in 0 .. MaxCount /\ 0 \in 0 .. IO_ERROR_RETRIES - 1 /\ 0 \in 0 .. MaxInboundRequests
    BY Limits
  <2> QED BY <2>2, <2>3 DEF HandlerInit, HandlerTypeOK
<1>2. TimersMatch
  BY DEF HandlerInit, TimersMatch, Established, NoSubstream
<1>3. SlotsCoverDials
  BY Limits, FS_EmptySet DEF HandlerInit, SlotsCoverDials
<1> QED BY <1>1, <1>2, <1>3 DEF BooksBalance

\* The variables of the types other than the queues.
LEMMA TypesAreQueues == HandlerTypeOK => QueueTypes
BY DEF HandlerTypeOK, QueueTypes

\* A request from the application.
LEMMA SendRequestBooks ==
    ASSUME BooksBalance, NEW r \in Requests, SendRequest(r)
    PROVE  BooksBalance'
<1>1. QueueTypes'
  BY EnqueueEffect, TypesAreQueues DEF BooksBalance, SendRequest
<1>2. expected' \in [Requests -> 0 .. MaxCount]
  <2>1. ExpectedResponses(r) \subseteq 0 .. MaxCount
    BY Limits DEF ExpectedResponses
  <2> QED BY <2>1 DEF BooksBalance, HandlerTypeOK, SendRequest
<1>3. HandlerTypeOK'
  BY <1>1, <1>2 DEF BooksBalance, HandlerTypeOK, QueueTypes, SendRequest, inVars
<1>4. TimersMatch' /\ SlotsCoverDials'
  BY DEF BooksBalance, TimersMatch, SlotsCoverDials, Established, SendRequest, inVars
<1> QED BY <1>3, <1>4 DEF BooksBalance

\* The goodbye of a shutdown.
LEMMA SendGoodbyeBooks == ASSUME BooksBalance, SendGoodbye PROVE BooksBalance'
<1>1. /\ <<Goodbye>> \in Seq(Requests) /\ <<>> \in Seq(HandlerEvents)
      /\ \A r : ~Holds(OutboundError(r), <<>>)
  BY DEF Requests, Holds
<1>2. QueueTypes' /\ state' \in {state, "ShuttingDown"}
  BY <1>1, ShutdownEffect, TypesAreQueues DEF BooksBalance, SendGoodbye
<1>3. HandlerTypeOK'
  BY <1>2 DEF BooksBalance, HandlerTypeOK, QueueTypes, SendGoodbye, inVars, Requests
<1>4. TimersMatch' /\ SlotsCoverDials'
  BY DEF BooksBalance, TimersMatch, SlotsCoverDials, Established, SendGoodbye, inVars
<1> QED BY <1>3, <1>4 DEF BooksBalance

\* An upgrade succeeds.
LEMMA OutboundNegotiatedBooks ==
    ASSUME BooksBalance, NEW r \in Requests, OutboundNegotiated(r)
    PROVE  BooksBalance'
<1>1. /\ dial_negotiated' = dial_negotiated - 1
      /\ Cardinality(opening) \in Nat /\ Cardinality(opening) >= 1
      /\ Cardinality(opening') = Cardinality(opening) - 1
  BY OpeningCount DEF BooksBalance, HandlerTypeOK, OutboundNegotiated
<1>2. SlotsCoverDials' /\ dial_negotiated' \in Nat
  BY <1>1, Limits DEF BooksBalance, HandlerTypeOK, SlotsCoverDials, OutboundNegotiated
<1>3. HandlerTypeOK'
  <2>1. expected[r] \in Nat
    BY Limits DEF BooksBalance, HandlerTypeOK
  <2>2. /\ outbound_substreams' \in [Requests -> {"None", "RequestPendingResponse", "Closing"}]
        /\ outbound_remaining' \in [Requests -> Nat]
        /\ outbound_substreams_delay' \subseteq Requests
    BY <2>1 DEF BooksBalance, HandlerTypeOK, OutboundNegotiated
  <2> QED BY <1>2, <2>2 DEF BooksBalance, HandlerTypeOK, OutboundNegotiated, inVars, requestVars
<1>4. TimersMatch'
  BY DEF BooksBalance, HandlerTypeOK, TimersMatch, Established, OutboundNegotiated, inVars
<1> QED BY <1>2, <1>3, <1>4 DEF BooksBalance

\* An upgrade fails, and is retried or given up.
LEMMA DialUpgradeErrorBooks ==
    ASSUME BooksBalance, NEW r \in Requests, NEW io \in BOOLEAN, DialUpgradeError(r, io)
    PROVE  BooksBalance'
<1>1. /\ Cardinality(opening) \in Nat /\ Cardinality(opening) >= 1
      /\ Cardinality(opening') = Cardinality(opening) - 1
  BY OpeningCount DEF BooksBalance, HandlerTypeOK, DialUpgradeError
<1>2. QueueTypes'
  BY EnqueueEffect, FailEffect, TypesAreQueues DEF BooksBalance, DialUpgradeError
<1>3. /\ SlotsCoverDials' /\ dial_negotiated' \in Nat
      /\ outbound_io_error_retries' \in 0 .. IO_ERROR_RETRIES - 1
  <2>1. /\ outbound_io_error_retries \in 0 .. IO_ERROR_RETRIES - 1 /\ dial_negotiated \in Nat
        /\ Cardinality(opening) + outbound_io_error_retries <= dial_negotiated
        /\ dial_negotiated <= max_dial_negotiated
    BY DEF BooksBalance, HandlerTypeOK, SlotsCoverDials
  <2>2. CASE outbound_io_error_retries' = outbound_io_error_retries + 1
             /\ outbound_io_error_retries + 1 < IO_ERROR_RETRIES
             /\ dial_negotiated' = dial_negotiated
    BY <1>1, <2>1, <2>2, Limits DEF SlotsCoverDials
  <2>3. CASE outbound_io_error_retries' = 0 /\ dial_negotiated' = dial_negotiated - 1
    BY <1>1, <2>1, <2>3, Limits DEF SlotsCoverDials
  <2> QED BY <2>2, <2>3 DEF DialUpgradeError
<1>4. HandlerTypeOK'
  BY <1>2, <1>3 DEF BooksBalance, HandlerTypeOK, QueueTypes, DialUpgradeError, inVars, requestVars
<1>5. TimersMatch'
  BY DEF BooksBalance, HandlerTypeOK, TimersMatch, Established, DialUpgradeError, inVars
<1> QED BY <1>3, <1>4, <1>5 DEF BooksBalance

\* What an action on inbound substreams leaves alone.
LEMMA OutboundBooksKept ==
    ASSUME BooksBalance, UNCHANGED <<dial_negotiated, outbound_io_error_retries, opening,
                                     outbound_substreams, outbound_substreams_delay>>
    PROVE  /\ SlotsCoverDials'
           /\ outbound_substreams_delay' = {r \in Requests : outbound_substreams'[r] # "None"}
BY DEF BooksBalance, TimersMatch, SlotsCoverDials

\* A change of one inbound substream, and of its timer with it.
LEMMA InboundTimers ==
    ASSUME BooksBalance, NEW id \in InboundIds, NEW info \in InboundInfos,
           inbound_substreams' = [inbound_substreams EXCEPT ![id] = info],
           inbound_substreams_delay' =
               IF info.st # "None" /\ info.delay_key
               THEN inbound_substreams_delay \cup {id} ELSE inbound_substreams_delay \ {id}
    PROVE  /\ inbound_substreams' \in [InboundIds -> InboundInfos]
           /\ inbound_substreams_delay' \subseteq InboundIds
           /\ inbound_substreams_delay' =
                {i \in Established' : inbound_substreams'[i].delay_key}
BY DEF BooksBalance, HandlerTypeOK, TimersMatch, Established

\* A request of the peer.
LEMMA InboundNegotiatedBooks ==
    ASSUME BooksBalance, NEW n \in 0 .. MaxCount, InboundNegotiated(n)
    PROVE  BooksBalance'
<1> DEFINE id == current_inbound_substream_id
<1>1. id \in Nat /\ id \in 0 .. MaxInboundRequests /\ n \in Nat
  BY Limits DEF BooksBalance, HandlerTypeOK
<1>2. CASE /\ id < MaxInboundRequests
           /\ inbound_substreams' =
                  IF n = 0 THEN inbound_substreams
                  ELSE [inbound_substreams EXCEPT ![id] =
                           [NoSubstream EXCEPT !.st = "Idle", !.remaining_chunks = n,
                                               !.delay_key = TRUE]]
           /\ inbound_substreams_delay' =
                  IF n = 0 THEN inbound_substreams_delay ELSE inbound_substreams_delay \cup {id}
           /\ owed' = [owed EXCEPT ![id] = n]
           /\ events_out' = Append(events_out, <<"Request", id>>)
           /\ current_inbound_substream_id' = id + 1
           /\ UNCHANGED <<state, dial_queue>>
  <2> DEFINE info == [NoSubstream EXCEPT !.st = "Idle", !.remaining_chunks = n,
                                         !.delay_key = TRUE]
  <2>1. id \in InboundIds
    BY <1>1, <1>2, Limits DEF InboundIds
  <2>2. info \in InboundInfos /\ info.st = "Idle" /\ info.delay_key
    <3>1. NoSubstream \in InboundInfos
      BY DEF NoSubstream, InboundInfos
    <3> QED BY <1>1, <3>1 DEF InboundInfos
  <2> HIDE DEF info
  <2>3. /\ inbound_substreams' \in [InboundIds -> InboundInfos]
        /\ inbound_substreams_delay' \subseteq InboundIds
        /\ inbound_substreams_delay' = {i \in Established' : inbound_substreams'[i].delay_key}
    <3>1. CASE n = 0
      BY <1>2, <3>1 DEF BooksBalance, HandlerTypeOK, TimersMatch, Established
    <3>2. CASE n # 0
      <4>1. inbound_substreams' = [inbound_substreams EXCEPT ![id] = info]
            /\ inbound_substreams_delay' = inbound_substreams_delay \cup {id}
        BY <1>2, <3>2 DEF info
      <4> QED BY <2>1, <2>2, <4>1, InboundTimers
    <3> QED BY <3>1, <3>2
  <2>4. events_out' \in Seq(HandlerEvents)
    BY <1>1, <1>2, OtherEvent DEF BooksBalance, HandlerTypeOK
  <2>5. owed' \in [InboundIds -> Int] /\ current_inbound_substream_id' \in 0 .. MaxInboundRequests
    <3>1. owed \in [InboundIds -> Int] /\ n \in Int
      BY <1>1 DEF BooksBalance, HandlerTypeOK
    <3>2. owed' \in [InboundIds -> Int]
      BY <1>2, <2>1, <3>1
    <3>3. id + 1 \in 0 .. MaxInboundRequests
      BY <1>1, <1>2, Limits
    <3> QED BY <1>2, <3>2, <3>3
  <2>6. HandlerTypeOK'
    BY <1>2, <2>3, <2>4, <2>5
       DEF BooksBalance, HandlerTypeOK, InboundNegotiated, requestVars
  <2> QED BY <2>3, <2>6, OutboundBooksKept DEF BooksBalance, TimersMatch, InboundNegotiated
<1>3. CASE Shutdown(<<>>, <<<<"InboundError", id>>>>, <<>>) /\ UNCHANGED inVars
  <2>1. /\ <<>> \in Seq(Requests) /\ <<>> \in Seq(HandlerEvents)
        /\ <<<<"InboundError", id>>>> \in Seq(HandlerEvents)
        /\ \A r : ~Holds(OutboundError(r), <<>>)
        /\ \A r : ~Holds(OutboundError(r), <<<<"InboundError", id>>>>)
    BY <1>1, OneEvent
  <2>2. QueueTypes' /\ state' \in {state, "ShuttingDown"}
    BY <1>3, <2>1, ShutdownEffect, TypesAreQueues DEF BooksBalance
  <2>3. HandlerTypeOK'
    BY <1>3, <2>2 DEF BooksBalance, HandlerTypeOK, QueueTypes, InboundNegotiated, inVars, requestVars
  <2>4. TimersMatch' /\ SlotsCoverDials'
    BY <1>3 DEF BooksBalance, TimersMatch, SlotsCoverDials, Established, InboundNegotiated, inVars
  <2> QED BY <2>3, <2>4 DEF BooksBalance
<1> QED BY <1>2, <1>3 DEF InboundNegotiated

\* A goodbye of the peer.
LEMMA InboundGoodbyeBooks == ASSUME BooksBalance, InboundGoodbye PROVE BooksBalance'
<1> DEFINE id == current_inbound_substream_id
<1>1. id \in Nat /\ id + 1 \in 0 .. MaxInboundRequests
  BY Limits DEF BooksBalance, HandlerTypeOK, InboundGoodbye
<1>2. /\ <<>> \in Seq(Requests) /\ <<>> \in Seq(HandlerEvents)
      /\ <<<<"Request", id>>>> \in Seq(HandlerEvents)
      /\ \A r : ~Holds(OutboundError(r), <<>>)
      /\ \A r : ~Holds(OutboundError(r), <<<<"Request", id>>>>)
  BY <1>1, OneEvent
<1>3. QueueTypes' /\ state' \in {state, "ShuttingDown"}
  BY <1>2, ShutdownEffect, TypesAreQueues DEF BooksBalance, InboundGoodbye
<1>4. HandlerTypeOK'
  BY <1>1, <1>3 DEF BooksBalance, HandlerTypeOK, QueueTypes, InboundGoodbye, requestVars
<1>5. TimersMatch' /\ SlotsCoverDials'
  BY DEF BooksBalance, TimersMatch, SlotsCoverDials, Established, InboundGoodbye
<1> QED BY <1>4, <1>5 DEF BooksBalance

\* A response of the application.
LEMMA SendResponseBooks ==
    ASSUME BooksBalance, NEW id \in InboundIds, NEW response \in Responses,
           SendResponse(id, response)
    PROVE  BooksBalance'
<1>1. inbound_substreams[id] \in InboundInfos /\ id \in Nat
  BY Limits DEF BooksBalance, HandlerTypeOK
<1> DEFINE info == [inbound_substreams[id] EXCEPT !.pending_items = Append(@, response)]
<1>2. /\ info \in InboundInfos
      /\ info.st = inbound_substreams[id].st /\ info.delay_key = inbound_substreams[id].delay_key
  <2>1. Append(inbound_substreams[id].pending_items, response) \in Seq(Responses)
    BY <1>1 DEF InboundInfos
  <2> QED BY <1>1, <2>1 DEF InboundInfos
<1>3. inbound_substreams' = [inbound_substreams EXCEPT ![id] = info]
  BY DEF SendResponse, BooksBalance, HandlerTypeOK
<1> HIDE DEF info
<1>4. inbound_substreams_delay' =
          IF info.st # "None" /\ info.delay_key
          THEN inbound_substreams_delay \cup {id} ELSE inbound_substreams_delay \ {id}
  BY <1>2 DEF BooksBalance, TimersMatch, Established, SendResponse
<1>5. /\ inbound_substreams' \in [InboundIds -> InboundInfos]
      /\ inbound_substreams_delay' \subseteq InboundIds
      /\ inbound_substreams_delay' = {i \in Established' : inbound_substreams'[i].delay_key}
  BY <1>2, <1>3, <1>4, InboundTimers
<1>6. events_out' \in Seq(HandlerEvents)
  BY <1>1, OtherEvent DEF BooksBalance, HandlerTypeOK, SendResponse
<1>7. HandlerTypeOK'
  BY <1>5, <1>6 DEF BooksBalance, HandlerTypeOK, SendResponse, outVars, requestVars
<1> QED BY <1>5, <1>7, OutboundBooksKept DEF BooksBalance, TimersMatch, SendResponse, outVars

\* The timer of an inbound substream expires.
LEMMA ExpireInboundBooks ==
    ASSUME BooksBalance, NEW id \in InboundIds, ExpireInbound(id)
    PROVE  BooksBalance'
<1>1. inbound_substreams[id] \in InboundInfos /\ id \in Nat
  BY Limits DEF BooksBalance, HandlerTypeOK
<1> DEFINE info == Expired(inbound_substreams[id])
<1>2. info \in InboundInfos /\ info.delay_key = FALSE
  <2>1. Append(inbound_substreams[id].pending_items, "Error") \in Seq(Responses)
    BY <1>1 DEF InboundInfos, Responses
  <2> QED BY <1>1, <2>1 DEF InboundInfos, Expired
<1>3. inbound_substreams' = [inbound_substreams EXCEPT ![id] = info]
  BY DEF ExpireInbound, BooksBalance, HandlerTypeOK
<1> HIDE DEF info
<1>4. /\ inbound_substreams' \in [InboundIds -> InboundInfos]
      /\ inbound_substreams_delay' \subseteq InboundIds
      /\ inbound_substreams_delay' = {i \in Established' : inbound_substreams'[i].delay_key}
  BY <1>2, <1>3, InboundTimers DEF ExpireInbound
<1>5. events_out' \in Seq(HandlerEvents)
  BY <1>1, OtherEvent DEF BooksBalance, HandlerTypeOK, ExpireInbound
<1>6. HandlerTypeOK'
  BY <1>4, <1>5 DEF BooksBalance, HandlerTypeOK, ExpireInbound, outVars, requestVars
<1> QED BY <1>4, <1>6, OutboundBooksKept DEF BooksBalance, TimersMatch, ExpireInbound, outVars

\* A response starts to be sent.
LEMMA StartSendingBooks ==
    ASSUME BooksBalance, NEW id \in InboundIds, StartSending(id)
    PROVE  BooksBalance'
<1>1. inbound_substreams[id] \in InboundInfos
  BY DEF BooksBalance, HandlerTypeOK
<1> DEFINE info == Sending(inbound_substreams[id])
<1>2. /\ info \in InboundInfos /\ info.st = "Busy" /\ inbound_substreams[id].st # "None"
      /\ info.delay_key = inbound_substreams[id].delay_key
  <2>1. /\ inbound_substreams[id].pending_items \in Seq(Responses)
        /\ inbound_substreams[id].pending_items # <<>>
        /\ inbound_substreams[id].st = "Idle"
    BY <1>1 DEF InboundInfos, StartSending, HasWork
  <2>2. /\ Head(inbound_substreams[id].pending_items) \in Responses
        /\ Tail(inbound_substreams[id].pending_items) \in Seq(Responses)
    BY <2>1, HeadTailProperties
  <2>3. (inbound_substreams[id].remaining_chunks <= 1) \in BOOLEAN
    OBVIOUS
  <2> QED BY <1>1, <2>1, <2>2, <2>3 DEF InboundInfos, Sending
<1>3. inbound_substreams' = [inbound_substreams EXCEPT ![id] = info]
  BY DEF StartSending, BooksBalance, HandlerTypeOK
<1> HIDE DEF info
<1>4. inbound_substreams_delay' =
          IF info.st # "None" /\ info.delay_key
          THEN inbound_substreams_delay \cup {id} ELSE inbound_substreams_delay \ {id}
  BY <1>2 DEF BooksBalance, TimersMatch, Established, StartSending
<1>5. /\ inbound_substreams' \in [InboundIds -> InboundInfos]
      /\ inbound_substreams_delay' \subseteq InboundIds
      /\ inbound_substreams_delay' = {i \in Established' : inbound_substreams'[i].delay_key}
  BY <1>2, <1>3, <1>4, InboundTimers
<1>6. HandlerTypeOK'
  BY <1>5 DEF BooksBalance, HandlerTypeOK, StartSending, outVars, requestVars
<1> QED BY <1>5, <1>6, OutboundBooksKept DEF BooksBalance, TimersMatch, StartSending, outVars

\* What the peer is still owed remains an integer.
LEMMA OwedAfterType ==
    ASSUME BooksBalance, NEW id \in InboundIds
    PROVE  OwedAfter(id) \in [InboundIds -> Int]
BY DEF BooksBalance, HandlerTypeOK, OwedAfter

\* The substream is removed, with its timer if it has one.
LEMMA RemoveInboundBooks ==
    ASSUME BooksBalance, NEW id \in InboundIds,
           inbound_substreams' = [inbound_substreams EXCEPT ![id] = NoSubstream],
           inbound_substreams_delay' =
               IF inbound_substreams[id].delay_key THEN inbound_substreams_delay \ {id}
               ELSE inbound_substreams_delay
    PROVE  /\ inbound_substreams' \in [InboundIds -> InboundInfos]
           /\ inbound_substreams_delay' \subseteq InboundIds
           /\ inbound_substreams_delay' = {i \in Established' : inbound_substreams'[i].delay_key}
<1>1. NoSubstream \in InboundInfos /\ NoSubstream.st = "None"
  BY DEF NoSubstream, InboundInfos
<1>2. inbound_substreams_delay' = inbound_substreams_delay \ {id}
  BY DEF BooksBalance, TimersMatch, Established
<1> QED BY <1>1, <1>2, InboundTimers

\* A response is sent.
LEMMA SendingDoneBooks ==
    ASSUME BooksBalance, NEW id \in InboundIds, SendingDone(id)
    PROVE  BooksBalance'
<1> DEFINE old == inbound_substreams[id]
           info == [old EXCEPT !.st = "Idle", !.message = "None",
                               !.remaining_chunks = IF @ = 0 THEN 0 ELSE @ - 1]
<1>1. old \in InboundInfos /\ old.st = "Busy"
  BY DEF BooksBalance, HandlerTypeOK, SendingDone
<1>2. /\ inbound_substreams' \in [InboundIds -> InboundInfos]
      /\ inbound_substreams_delay' \subseteq InboundIds
      /\ inbound_substreams_delay' = {i \in Established' : inbound_substreams'[i].delay_key}
  <2>1. CASE /\ inbound_substreams' = [inbound_substreams EXCEPT ![id] = info]
             /\ UNCHANGED inbound_substreams_delay
    <3>1. info \in InboundInfos /\ info.st = "Idle" /\ info.delay_key = old.delay_key
      <4>1. (IF old.remaining_chunks = 0 THEN 0 ELSE old.remaining_chunks - 1) \in Nat
        BY <1>1 DEF InboundInfos
      <4> QED BY <1>1, <4>1 DEF InboundInfos
    <3>2. inbound_substreams_delay' =
              IF info.st # "None" /\ info.delay_key
              THEN inbound_substreams_delay \cup {id} ELSE inbound_substreams_delay \ {id}
      BY <1>1, <2>1, <3>1 DEF BooksBalance, TimersMatch, Established
    <3> HIDE DEF info
    <3> QED BY <2>1, <3>1, <3>2, InboundTimers
  <2>2. CASE /\ inbound_substreams' = [inbound_substreams EXCEPT ![id] = NoSubstream]
             /\ inbound_substreams_delay' =
                    IF old.delay_key THEN inbound_substreams_delay \ {id}
                    ELSE inbound_substreams_delay
    BY <2>2, RemoveInboundBooks
  <2> QED BY <2>1, <2>2 DEF SendingDone
<1>3. HandlerTypeOK'
  BY <1>2, OwedAfterType DEF BooksBalance, HandlerTypeOK, SendingDone, outVars, requestVars
<1> QED BY <1>2, <1>3, OutboundBooksKept DEF BooksBalance, TimersMatch, SendingDone, outVars

\* A response fails.
LEMMA SendingFailsBooks ==
    ASSUME BooksBalance, NEW id \in InboundIds, SendingFails(id)
    PROVE  BooksBalance'
<1>1. /\ inbound_substreams' \in [InboundIds -> InboundInfos]
      /\ inbound_substreams_delay' \subseteq InboundIds
      /\ inbound_substreams_delay' = {i \in Established' : inbound_substreams'[i].delay_key}
  BY RemoveInboundBooks DEF SendingFails
<1>2. events_out' \in Seq(HandlerEvents)
  BY Limits, OtherEvent DEF BooksBalance, HandlerTypeOK, SendingFails
<1>3. HandlerTypeOK'
  BY <1>1, <1>2, OwedAfterType DEF BooksBalance, HandlerTypeOK, SendingFails, outVars, requestVars
<1> QED BY <1>1, <1>3, OutboundBooksKept DEF BooksBalance, TimersMatch, SendingFails, outVars

\* A report to the application.
LEMMA ReportType ==
    ASSUME BooksBalance, NEW r \in Requests,
           NEW what \in {"Response", "Error", "EndOfStream"}, Report(r, what)
    PROVE  reports' \in [Requests -> Seq({"Response", "Error", "EndOfStream"})]
<1>1. Append(reports[r], what) \in Seq({"Response", "Error", "EndOfStream"})
  BY DEF BooksBalance, HandlerTypeOK
<1> QED BY <1>1 DEF BooksBalance, HandlerTypeOK, Report

\* The head of the events: the failure of a request, or no failure at all.
LEMMA HeadEvent ==
    ASSUME QueueTypes, events_out # <<>>
    PROVE  \/ /\ Head(events_out)[1] = "OutboundError"
              /\ Head(events_out)[2] \in Requests
              /\ Head(events_out) = OutboundError(Head(events_out)[2])
           \/ /\ Head(events_out)[1] # "OutboundError"
              /\ \A r : Head(events_out) # OutboundError(r)
<1>1. Head(events_out) \in HandlerEvents
  BY TailHolds DEF QueueTypes
<1> QED BY <1>1 DEF HandlerEvents, OutboundError

\* The first event is returned.
LEMMA PollEventsOutBooks == ASSUME BooksBalance, PollEventsOut PROVE BooksBalance'
<1>1. events_out' \in Seq(HandlerEvents)
  BY TailHolds DEF BooksBalance, HandlerTypeOK, PollEventsOut
<1>2. reports' \in [Requests -> Seq({"Response", "Error", "EndOfStream"})]
  <2>1. CASE Head(events_out)[1] = "OutboundError"
    BY <2>1, HeadEvent, TypesAreQueues, ReportType DEF BooksBalance, PollEventsOut
  <2>2. CASE Head(events_out)[1] # "OutboundError"
    BY <2>2 DEF BooksBalance, HandlerTypeOK, PollEventsOut
  <2> QED BY <2>1, <2>2
<1>3. HandlerTypeOK'
  BY <1>1, <1>2 DEF BooksBalance, HandlerTypeOK, PollEventsOut, outVars, inVars, requestVars
<1>4. TimersMatch' /\ SlotsCoverDials'
  BY DEF BooksBalance, TimersMatch, SlotsCoverDials, Established, PollEventsOut, outVars, inVars
<1> QED BY <1>3, <1>4 DEF BooksBalance

\* A substream ends, with a report or without.
LEMMA RemoveOutboundBooks ==
    ASSUME BooksBalance, NEW r \in Requests, RemoveOutbound(r),
           phase' \in {phase, "Waiting"},
           reports' \in [Requests -> Seq({"Response", "Error", "EndOfStream"})],
           UNCHANGED <<state, events_out, inVars, requestVars>>
    PROVE  BooksBalance'
<1>1. HandlerTypeOK'
  BY DEF BooksBalance, HandlerTypeOK, RemoveOutbound, inVars, requestVars
<1>2. TimersMatch'
  BY DEF BooksBalance, HandlerTypeOK, TimersMatch, Established, RemoveOutbound, inVars
<1>3. SlotsCoverDials'
  BY DEF BooksBalance, SlotsCoverDials, RemoveOutbound
<1> QED BY <1>1, <1>2, <1>3 DEF BooksBalance

\* Those actions.
LEMMA OutboundEndsBooks ==
    ASSUME BooksBalance, NEW r \in Requests,
           ExpireOutbound(r) \/ StreamEnds(r) \/ StreamFails(r) \/ SubstreamCloses(r)
    PROVE  BooksBalance'
<1>1. CASE ExpireOutbound(r)
  BY <1>1, ReportType, RemoveOutboundBooks DEF ExpireOutbound
<1>2. CASE StreamEnds(r)
  <2>1. (IF expected[r] > 1 THEN "EndOfStream" ELSE "Error") \in {"Response", "Error", "EndOfStream"}
    OBVIOUS
  <2> QED BY <1>2, <2>1, ReportType, RemoveOutboundBooks DEF StreamEnds
<1>3. CASE StreamFails(r)
  BY <1>3, ReportType, RemoveOutboundBooks DEF StreamFails
<1>4. CASE SubstreamCloses(r)
  <2>1. reports' \in [Requests -> Seq({"Response", "Error", "EndOfStream"})]
    BY <1>4, ReportType DEF SubstreamCloses, BooksBalance, HandlerTypeOK
  <2> QED BY <1>4, <2>1, RemoveOutboundBooks DEF SubstreamCloses
<1> QED BY <1>1, <1>2, <1>3, <1>4

\* A chunk arrives.
LEMMA ReceiveResponseBooks ==
    ASSUME BooksBalance, NEW r \in Requests, NEW what \in {"Response", "Error"},
           ReceiveResponse(r, what)
    PROVE  BooksBalance'
<1>1. reports' \in [Requests -> Seq({"Response", "Error", "EndOfStream"})]
  BY ReportType DEF ReceiveResponse
<1>2. /\ outbound_substreams' \in [Requests -> {"None", "RequestPendingResponse", "Closing"}]
      /\ {q \in Requests : outbound_substreams'[q] # "None"}
           = {q \in Requests : outbound_substreams[q] # "None"}
  BY DEF BooksBalance, HandlerTypeOK, ReceiveResponse
<1>3. outbound_remaining' \in [Requests -> Nat]
  <2>1. outbound_remaining[r] \in Nat /\ outbound_remaining \in [Requests -> Nat]
    BY DEF BooksBalance, HandlerTypeOK
  <2>2. (IF outbound_remaining[r] = 0 THEN 0 ELSE outbound_remaining[r] - 1) \in Nat
    BY <2>1
  <2> QED BY <2>1, <2>2 DEF ReceiveResponse
<1>4. HandlerTypeOK'
  BY <1>1, <1>2, <1>3 DEF BooksBalance, HandlerTypeOK, ReceiveResponse, inVars, requestVars
<1>5. TimersMatch'
  BY <1>2 DEF BooksBalance, TimersMatch, Established, ReceiveResponse, inVars
<1>6. SlotsCoverDials'
  BY DEF BooksBalance, SlotsCoverDials, ReceiveResponse
<1> QED BY <1>4, <1>5, <1>6 DEF BooksBalance

\* The next request is dialed.
LEMMA PollDialQueueBooks == ASSUME BooksBalance, PollDialQueue PROVE BooksBalance'
<1>1. /\ dial_queue \in Seq(Requests) /\ dial_queue # <<>>
      /\ opening \subseteq Requests /\ dial_negotiated \in Nat
      /\ dial_negotiated < max_dial_negotiated
  BY DEF BooksBalance, HandlerTypeOK, PollDialQueue, MayDial
<1>2. Head(dial_queue) \in Requests /\ Tail(dial_queue) \in Seq(Requests)
  BY <1>1, TailHolds
<1>3. /\ Cardinality(opening') \in Nat /\ Cardinality(opening) \in Nat
      /\ Cardinality(opening') <= Cardinality(opening) + 1
  BY <1>1, <1>2, OpeningCount DEF PollDialQueue
<1>4. SlotsCoverDials'
  BY <1>1, <1>3, Limits DEF BooksBalance, HandlerTypeOK, SlotsCoverDials, PollDialQueue
<1>5. HandlerTypeOK'
  <2>1. /\ opening' \subseteq Requests /\ dial_queue' \in Seq(Requests)
        /\ dial_negotiated' \in Nat /\ phase' = "Waiting"
        /\ UNCHANGED <<state, events_out, outbound_io_error_retries, outbound_substreams,
                       outbound_remaining, outbound_substreams_delay, inVars, requestVars, reports>>
    BY <1>1, <1>2 DEF PollDialQueue
  <2> QED BY <2>1 DEF BooksBalance, HandlerTypeOK, inVars, requestVars
<1>6. TimersMatch'
  BY DEF BooksBalance, TimersMatch, Established, PollDialQueue, inVars
<1> QED BY <1>4, <1>5, <1>6 DEF BooksBalance

\* The steps of poll that only move it, or end the handler.
PollMoves ==
    PollShutdownTimer \/ PollBegin \/ PollTimersDone \/ PollInboundDone \/ PollEnd

\* They change nothing else.
LEMMA PollMovesEffect ==
    ASSUME PollMoves
    PROVE  /\ UNCHANGED <<events_out, outVars, inVars, requestVars, reports>>
           /\ phase' \in {"Waiting", "Timers", "Inbound", "Outbound"} \cup {phase}
           /\ state' \in {state, "Deactivated", "Closed"}
BY DEF PollMoves, PollShutdownTimer, PollBegin, PollTimersDone, PollInboundDone, PollEnd

\* So the books stay as they are.
LEMMA PollMovesBooks == ASSUME BooksBalance, PollMoves PROVE BooksBalance'
<1>1. HandlerTypeOK'
  BY PollMovesEffect DEF BooksBalance, HandlerTypeOK, outVars, inVars, requestVars
<1>2. TimersMatch' /\ SlotsCoverDials'
  BY PollMovesEffect
     DEF BooksBalance, TimersMatch, SlotsCoverDials, Established, outVars, inVars
<1> QED BY <1>1, <1>2 DEF BooksBalance

\* Every step keeps the books.
LEMMA StepBooks == BooksBalance /\ [HandlerNext]_handlerVars => BooksBalance'
<1> SUFFICES ASSUME BooksBalance, [HandlerNext]_handlerVars PROVE BooksBalance'
  OBVIOUS
<1>1. ASSUME NEW r \in Requests, SendRequest(r) PROVE BooksBalance'
  BY <1>1, SendRequestBooks
<1>2. ASSUME NEW r \in Requests, OutboundNegotiated(r) PROVE BooksBalance'
  BY <1>2, OutboundNegotiatedBooks
<1>3. ASSUME NEW r \in Requests, NEW io \in BOOLEAN, DialUpgradeError(r, io) PROVE BooksBalance'
  BY <1>3, DialUpgradeErrorBooks
<1>4. ASSUME NEW r \in Requests,
             ExpireOutbound(r) \/ StreamEnds(r) \/ StreamFails(r) \/ SubstreamCloses(r)
      PROVE  BooksBalance'
  BY <1>4, OutboundEndsBooks
<1>5. ASSUME NEW r \in Requests, NEW what \in {"Response", "Error"}, ReceiveResponse(r, what)
      PROVE  BooksBalance'
  BY <1>5, ReceiveResponseBooks
<1>6. CASE SendGoodbye
  BY <1>6, SendGoodbyeBooks
<1>7. ASSUME NEW n \in 0 .. MaxCount, InboundNegotiated(n) PROVE BooksBalance'
  BY <1>7, InboundNegotiatedBooks
<1>8. CASE InboundGoodbye
  BY <1>8, InboundGoodbyeBooks
<1>9. ASSUME NEW id \in InboundIds, NEW response \in Responses, SendResponse(id, response)
      PROVE  BooksBalance'
  BY <1>9, SendResponseBooks
<1>10. ASSUME NEW id \in InboundIds, ExpireInbound(id) PROVE BooksBalance'
  BY <1>10, ExpireInboundBooks
<1>11. ASSUME NEW id \in InboundIds, StartSending(id) PROVE BooksBalance'
  BY <1>11, StartSendingBooks
<1>12. ASSUME NEW id \in InboundIds, SendingDone(id) PROVE BooksBalance'
  BY <1>12, SendingDoneBooks
<1>13. ASSUME NEW id \in InboundIds, SendingFails(id) PROVE BooksBalance'
  BY <1>13, SendingFailsBooks
<1>14. CASE PollEventsOut
  BY <1>14, PollEventsOutBooks
<1>15. CASE PollMoves
  BY <1>15, PollMovesBooks
<1>16. CASE PollDialQueue
  BY <1>16, PollDialQueueBooks
<1>17. CASE UNCHANGED handlerVars
  BY <1>17 DEF handlerVars, outVars, inVars, requestVars, BooksBalance, HandlerTypeOK,
               TimersMatch, SlotsCoverDials, Established
<1> QED BY <1>1, <1>2, <1>3, <1>4, <1>5, <1>6, <1>7, <1>8, <1>9, <1>10, <1>11, <1>12, <1>13,
           <1>14, <1>15, <1>16, <1>17 DEF HandlerNext, PollMoves

\* The types, the timers and the slots of the handler are right in every
\* reachable state, whatever the peer, the application and the timers do: no
\* counter of the handler wraps, no timer fires for a substream that is gone.
THEOREM BooksAlwaysBalance == HandlerSpec => []BooksBalance
BY InitBooks, StepBooks, PTL DEF HandlerSpec

-----------------------------------------------------------------------------
(* The requests to the peer.                                               *)

RequestOK(r) == OnePlace(r) /\ LeftReported(r) /\ ReportsByPlace(r)

\* A step that does not concern request q.
SameRequest(q) ==
    /\ Kept(q)
    /\ (q \in opening)' <=> q \in opening
    /\ (q \in sent)' <=> q \in sent
    /\ outbound_substreams'[q] = outbound_substreams[q]
    /\ outbound_remaining'[q] = outbound_remaining[q]
    /\ expected'[q] = expected[q]
    /\ reports'[q] = reports[q]

\* Such a step keeps its invariant.
LEMMA SameRequestOK == ASSUME NEW q, RequestOK(q), SameRequest(q) PROVE RequestOK(q)'
<1>1. OnePlace(q)'
  BY DEF RequestOK, SameRequest, Kept, OnePlace, Open
<1>2. LeftReported(q)'
  BY DEF RequestOK, SameRequest, Kept, LeftReported, Open
<1>3. ReportsByPlace(q)'
  BY DEF RequestOK, SameRequest, Kept, ReportsByPlace
<1> QED BY <1>1, <1>2, <1>3 DEF RequestOK

\* A step that leaves the two queues alone keeps what they hold.
LEMMA QueuesKept ==
    ASSUME UNCHANGED <<events_out, dial_queue>> PROVE \A q : Kept(q)
BY DEF Kept, Queued, Failed

\* An event that is no failure does too.
LEMMA OtherEventKept ==
    ASSUME QueueTypes, NEW kind \in {"Request", "InboundError"}, NEW n \in Nat,
           events_out' = Append(events_out, <<kind, n>>), dial_queue' = dial_queue
    PROVE  \A q : Kept(q)
BY OtherEvent DEF QueueTypes, Kept, Queued, Failed

\* The types of what belongs to one request.
LEMMA RequestTypes ==
    ASSUME BooksBalance, NEW r \in Requests
    PROVE  /\ outbound_substreams[r] \in {"None", "RequestPendingResponse", "Closing"}
           /\ outbound_remaining[r] \in Nat /\ expected[r] \in Nat
           /\ reports[r] \in Seq({"Response", "Error", "EndOfStream"})
           /\ Times("Response", reports[r]) \in Nat
<1>1. /\ outbound_substreams[r] \in {"None", "RequestPendingResponse", "Closing"}
      /\ outbound_remaining[r] \in Nat /\ expected[r] \in Nat
      /\ reports[r] \in Seq({"Response", "Error", "EndOfStream"})
  BY Limits DEF BooksBalance, HandlerTypeOK
<1>2. Times("Response", reports[r]) \in Nat
  BY <1>1, TimesAppend
<1> QED BY <1>1, <1>2

\* The initial state.
LEMMA InitRequests == HandlerInit => RequestInv
<1> SUFFICES ASSUME HandlerInit PROVE RequestInv
  OBVIOUS
<1>1. GoodbyeOnce
  BY DEF HandlerInit, GoodbyeOnce
<1>2. ASSUME NEW r \in Requests PROVE OnePlace(r) /\ LeftReported(r) /\ ReportsByPlace(r)
  <2>1. ~Queued(r) /\ ~Failed(r) /\ ~Open(r) /\ r \notin opening /\ r \notin sent
    BY <1>2 DEF HandlerInit, Queued, Failed, Open, Holds
  <2>2. AtMostOnce(r, dial_queue) /\ AtMostOnce(OutboundError(r), events_out)
    BY DEF HandlerInit, AtMostOnce
  <2>3. reports[r] = <<>> /\ expected[r] = 0 /\ outbound_substreams[r] = "None"
    BY <1>2 DEF HandlerInit
  <2>4. Times("Response", reports[r]) = 0 /\ Ordered(reports[r])
    BY <2>3, TimesEmpty DEF Ordered
  <2> QED BY <2>1, <2>2, <2>3, <2>4 DEF OnePlace, LeftReported, ReportsByPlace
<1> QED BY <1>1, <1>2 DEF RequestInv

\* An action on one request keeps the invariant of all if it keeps that one.
LEMMA OneRequestInv ==
    ASSUME RequestInv, NEW r, RequestOK(r)', GoodbyeOnce',
           \A q \in Requests : q # r => SameRequest(q)
    PROVE  RequestInv'
<1>1. \A q \in Requests : q # r => RequestOK(q)'
  BY SameRequestOK DEF RequestInv, RequestOK
<1> QED BY <1>1 DEF RequestInv, RequestOK

\* An action on no request keeps it.
LEMMA NoRequestInv ==
    ASSUME RequestInv, GoodbyeOnce', \A q \in Requests : SameRequest(q)
    PROVE  RequestInv'
<1>1. \A q \in Requests : RequestOK(q)'
  BY SameRequestOK DEF RequestInv, RequestOK
<1> QED BY <1>1 DEF RequestInv, RequestOK

\* The application sends a request.
LEMMA SendRequestRequests ==
    ASSUME BooksBalance, RequestInv, NEW r \in Requests, SendRequest(r)
    PROVE  RequestInv'
<1>1. QueueTypes /\ RequestOK(r) /\ r \notin sent /\ r # Goodbye /\ Enqueue(r)
  BY TypesAreQueues, RequestsAssumption DEF BooksBalance, RequestInv, RequestOK, SendRequest
<1>2. /\ \A q : q # r => Kept(q)
      /\ state = "Active" => Queued(r)' /\ (Failed(r)' <=> Failed(r))
      /\ state # "Active" => Failed(r)' /\ (Queued(r)' <=> Queued(r))
      /\ ~Queued(r) /\ ~Failed(r) /\ AtMostOnce(r, dial_queue)
           /\ AtMostOnce(OutboundError(r), events_out)
         => AtMostOnce(r, dial_queue)' /\ AtMostOnce(OutboundError(r), events_out)'
  BY <1>1, EnqueueEffect
<1>3. \A q \in Requests : q # r => SameRequest(q)
  BY <1>2 DEF SendRequest, SameRequest, BooksBalance, HandlerTypeOK
<1>4. GoodbyeOnce'
  BY <1>1 DEF RequestInv, GoodbyeOnce, SendRequest
<1>5. /\ ~Queued(r) /\ ~Failed(r) /\ ~Open(r) /\ r \notin opening
      /\ r \in sent' /\ ~Open(r)' /\ r \notin opening'
      /\ AtMostOnce(r, dial_queue)' /\ AtMostOnce(OutboundError(r), events_out)'
      /\ ~(Queued(r)' /\ Failed(r)') /\ (Queued(r)' \/ Failed(r)')
  BY <1>1, <1>2 DEF RequestOK, OnePlace, Open, SendRequest
<1>6. OnePlace(r)' /\ LeftReported(r)'
  BY <1>5 DEF OnePlace, LeftReported
<1>7. ReportsByPlace(r)'
  <2>1. reports'[r] = <<>> /\ outbound_substreams'[r] = "None"
    BY <1>1, <1>5 DEF RequestOK, ReportsByPlace, Open, SendRequest
  <2>2. Times("Response", reports'[r]) = 0 /\ Ordered(reports'[r])
    BY <2>1, TimesEmpty DEF Ordered
  <2>3. expected'[r] >= 0
    BY SendRequestBooks, Limits DEF BooksBalance, HandlerTypeOK
  <2> QED BY <2>1, <2>2, <2>3 DEF ReportsByPlace
<1> QED BY <1>3, <1>4, <1>6, <1>7, OneRequestInv DEF RequestOK

\* An upgrade succeeds.
LEMMA OutboundNegotiatedRequests ==
    ASSUME BooksBalance, RequestInv, NEW r \in Requests, OutboundNegotiated(r)
    PROVE  RequestInv'
<1>1. /\ RequestOK(r) /\ r \in opening /\ r \notin opening'
      /\ UNCHANGED <<events_out, dial_queue, sent, expected, reports, state>>
  BY DEF RequestInv, RequestOK, OutboundNegotiated, requestVars
<1>2. \A q : Kept(q)
  BY <1>1, QueuesKept
<1>3. \A q \in Requests : q # r => SameRequest(q)
  BY <1>1, <1>2 DEF OutboundNegotiated, SameRequest, BooksBalance, HandlerTypeOK
<1>4. GoodbyeOnce'
  BY <1>1 DEF RequestInv, GoodbyeOnce
<1>5. ~Queued(r) /\ ~Failed(r) /\ ~Open(r) /\ r \in sent /\ reports[r] = <<>>
  BY <1>1 DEF RequestOK, OnePlace, ReportsByPlace
<1>6. OnePlace(r)'
  BY <1>1, <1>2, <1>5 DEF RequestOK, OnePlace, Kept
<1>7. /\ Times("Response", reports'[r]) = 0 /\ Ordered(reports'[r])
      /\ \A i \in DOMAIN reports'[r] : reports'[r][i] = "Response"
  BY <1>1, <1>5, TimesEmpty DEF Ordered
<1>8. CASE expected[r] > 0
  <2>1. outbound_substreams'[r] = "RequestPendingResponse" /\ outbound_remaining'[r] = expected[r]
    BY <1>8 DEF OutboundNegotiated, BooksBalance, HandlerTypeOK
  <2>2. LeftReported(r)'
    BY <2>1 DEF LeftReported, Open
  <2>3. ReportsByPlace(r)'
    BY <1>1, <1>5, <1>7, <1>8, <2>1, RequestTypes DEF ReportsByPlace
  <2> QED BY <1>3, <1>4, <1>6, <2>2, <2>3, OneRequestInv DEF RequestOK
<1>9. CASE expected[r] = 0
  <2>1. outbound_substreams'[r] = "None"
    BY <1>5, <1>9 DEF OutboundNegotiated, Open
  <2>2. LeftReported(r)'
    BY <1>1, <1>9 DEF LeftReported
  <2>3. ReportsByPlace(r)'
    BY <1>1, <1>5, <1>7, <1>9, <2>1 DEF ReportsByPlace
  <2> QED BY <1>3, <1>4, <1>6, <2>2, <2>3, OneRequestInv DEF RequestOK
<1> QED BY <1>8, <1>9, RequestTypes

\* An upgrade fails.
LEMMA DialUpgradeErrorRequests ==
    ASSUME BooksBalance, RequestInv, NEW r \in Requests, NEW io \in BOOLEAN,
           DialUpgradeError(r, io)
    PROVE  RequestInv'
<1>1. /\ QueueTypes /\ RequestOK(r) /\ r \in opening /\ r \notin opening'
      /\ UNCHANGED <<sent, expected, reports, state, outbound_substreams, outbound_remaining>>
  BY TypesAreQueues DEF BooksBalance, RequestInv, RequestOK, DialUpgradeError, requestVars
<1>2. ~Queued(r) /\ ~Failed(r) /\ ~Open(r) /\ r \in sent /\ reports[r] = <<>>
      /\ AtMostOnce(r, dial_queue) /\ AtMostOnce(OutboundError(r), events_out)
  BY <1>1 DEF RequestOK, OnePlace, ReportsByPlace
<1>3. /\ \A q : q # r => Kept(q)
      /\ Queued(r)' \/ Failed(r)'
      /\ ~(Queued(r)' /\ Failed(r)')
      /\ AtMostOnce(r, dial_queue)' /\ AtMostOnce(OutboundError(r), events_out)'
  <2>1. CASE Enqueue(r)
    BY <1>1, <1>2, <2>1, EnqueueEffect
  <2>2. CASE events_out' = Append(events_out, OutboundError(r)) /\ dial_queue' = dial_queue
    BY <1>1, <1>2, <2>2, FailEffect
  <2> QED BY <2>1, <2>2 DEF DialUpgradeError
<1>4. \A q \in Requests : q # r => SameRequest(q)
  BY <1>1, <1>3 DEF DialUpgradeError, SameRequest
<1>5. GoodbyeOnce'
  BY <1>1 DEF RequestInv, GoodbyeOnce
<1>6. OnePlace(r)' /\ LeftReported(r)'
  BY <1>1, <1>2, <1>3 DEF OnePlace, LeftReported, Open
<1>7. ReportsByPlace(r)'
  BY <1>1, <1>2 DEF RequestOK, ReportsByPlace, Open
<1> QED BY <1>4, <1>5, <1>6, <1>7, OneRequestInv DEF RequestOK

\* A shutdown makes the queued request q fail, if it is queued.
FailsIfQueued(q) ==
    /\ Failed(q)' <=> Failed(q) \/ Queued(q)
    /\ ~Queued(q)'
    /\ AtMostOnce(q, dial_queue)'
    /\ /\ AtMostOnce(q, dial_queue) /\ AtMostOnce(OutboundError(q), events_out)
       /\ ~(Queued(q) /\ Failed(q))
       => AtMostOnce(OutboundError(q), events_out)'
    /\ (q \in sent)' <=> q \in sent

\* That keeps its invariant.
LEMMA ShutdownRequests ==
    ASSUME RequestInv, NEW q \in Requests, FailsIfQueued(q),
           UNCHANGED <<opening, outbound_substreams, outbound_remaining, expected, reports>>
    PROVE  RequestOK(q)'
<1>1. OnePlace(q) /\ LeftReported(q) /\ ReportsByPlace(q)
  BY DEF RequestInv
<1>2. OnePlace(q)'
  BY <1>1 DEF OnePlace, Open, FailsIfQueued
<1>3. LeftReported(q)'
  BY <1>1 DEF LeftReported, Open, FailsIfQueued
<1>4. ReportsByPlace(q)'
  BY <1>1 DEF ReportsByPlace, FailsIfQueued
<1> QED BY <1>2, <1>3, <1>4 DEF RequestOK

\* The application ends the connection with a goodbye.
LEMMA SendGoodbyeRequests == ASSUME BooksBalance, RequestInv, SendGoodbye PROVE RequestInv'
<1>1. /\ QueueTypes /\ Goodbye \in Requests
      /\ UNCHANGED <<opening, outbound_substreams, outbound_remaining, expected, reports>>
  BY TypesAreQueues DEF BooksBalance, SendGoodbye, Requests
<1>2. /\ <<Goodbye>> \in Seq(Requests) /\ <<>> \in Seq(HandlerEvents)
      /\ \A r : ~Holds(OutboundError(r), <<>>)
  BY <1>1, OneEvent
<1>3. CASE state # "Active"
  <2>1. state' = state /\ (\A q : Kept(q)) /\ sent' = sent
    BY <1>1, <1>2, <1>3, ShutdownEffect DEF SendGoodbye
  <2>2. GoodbyeOnce' /\ \A q \in Requests : SameRequest(q)
    BY <1>1, <2>1 DEF RequestInv, GoodbyeOnce, SameRequest
  <2> QED BY <2>2, NoRequestInv
<1>4. CASE state = "Active"
  <2>1. /\ state' = "ShuttingDown" /\ dial_queue' = <<Goodbye>> /\ sent' = sent \cup {Goodbye}
        /\ \A q : /\ Failed(q)' <=> Failed(q) \/ Queued(q)
                  /\ /\ AtMostOnce(q, dial_queue) /\ AtMostOnce(OutboundError(q), events_out)
                     /\ ~(Queued(q) /\ Failed(q))
                     => AtMostOnce(OutboundError(q), events_out)'
    BY <1>1, <1>2, <1>4, ShutdownEffect DEF SendGoodbye
  <2>2. \A q : (Queued(q)' <=> q = Goodbye) /\ AtMostOnce(q, dial_queue)'
    <3>1. \A q : (Holds(q, <<Goodbye>>) <=> q = Goodbye) /\ AtMostOnce(q, <<Goodbye>>)
      BY <1>1, ShortHolds
    <3> QED BY <2>1, <3>1 DEF Queued
  <2>3. GoodbyeOnce'
    BY <2>1 DEF GoodbyeOnce
  <2>4. ASSUME NEW q \in Requests, q # Goodbye PROVE RequestOK(q)'
    <3>1. FailsIfQueued(q)
      BY <2>1, <2>2, <2>4 DEF FailsIfQueued
    <3> QED BY <1>1, <3>1, ShutdownRequests
  <2>5. RequestOK(Goodbye)'
    <3>1. OnePlace(Goodbye) /\ ReportsByPlace(Goodbye) /\ Goodbye \notin sent
      BY <1>1, <1>4 DEF RequestInv, GoodbyeOnce
    <3>2. OnePlace(Goodbye)'
      BY <1>1, <2>1, <2>2, <3>1 DEF OnePlace, Open
    <3>3. LeftReported(Goodbye)'
      BY <2>2 DEF LeftReported
    <3>4. ReportsByPlace(Goodbye)'
      BY <1>1, <3>1 DEF ReportsByPlace
    <3> QED BY <3>2, <3>3, <3>4 DEF RequestOK
  <2> QED BY <2>3, <2>4, <2>5 DEF RequestInv, RequestOK
<1> QED BY <1>3, <1>4

\* A shutdown without a goodbye.
LEMMA SilentShutdownRequests ==
    ASSUME BooksBalance, RequestInv, state = "Active",
           NEW first \in Seq(HandlerEvents), NEW then \in Seq(HandlerEvents),
           \A r : ~Holds(OutboundError(r), first) /\ ~Holds(OutboundError(r), then),
           Shutdown(<<>>, first, then),
           UNCHANGED <<opening, outbound_substreams, outbound_remaining, requestVars, reports>>
    PROVE  RequestInv'
<1>1. QueueTypes /\ <<>> \in Seq(Requests)
  BY TypesAreQueues DEF BooksBalance
<1>2. /\ state' = "ShuttingDown" /\ dial_queue' = <<>>
      /\ \A q : /\ Failed(q)' <=> Failed(q) \/ Queued(q)
                /\ /\ AtMostOnce(q, dial_queue) /\ AtMostOnce(OutboundError(q), events_out)
                   /\ ~(Queued(q) /\ Failed(q))
                   => AtMostOnce(OutboundError(q), events_out)'
  BY <1>1, ShutdownEffect
<1>3. \A q : ~Queued(q)' /\ AtMostOnce(q, dial_queue)'
  BY <1>2 DEF Queued, Holds, AtMostOnce
<1>4. \A q \in Requests : FailsIfQueued(q)
  BY <1>2, <1>3 DEF FailsIfQueued, requestVars
<1>5. \A q \in Requests : RequestOK(q)'
  BY <1>4, ShutdownRequests DEF requestVars
<1> QED BY <1>2, <1>5 DEF RequestInv, RequestOK, GoodbyeOnce

\* The variables of the requests, without the queues.
aloneVars == <<opening, outbound_substreams, outbound_remaining, requestVars, reports>>

\* A step that leaves them and what the queues hold alone.
LEMMA AloneRequests ==
    ASSUME RequestInv, UNCHANGED aloneVars, \A q : Kept(q),
           state = "Active" \/ state' # "Active"
    PROVE  RequestInv'
<1>1. \A q \in Requests : SameRequest(q)
  BY DEF SameRequest, aloneVars, requestVars
<1>2. GoodbyeOnce'
  BY DEF RequestInv, GoodbyeOnce, aloneVars, requestVars
<1> QED BY <1>1, <1>2, NoRequestInv

\* Requests of the peer.
LEMMA InboundNegotiatedRequests ==
    ASSUME BooksBalance, RequestInv, NEW n \in 0 .. MaxCount, InboundNegotiated(n)
    PROVE  RequestInv'
<1> DEFINE id == current_inbound_substream_id
<1>1. QueueTypes /\ id \in Nat /\ state = "Active" /\ UNCHANGED aloneVars
  <2>1. QueueTypes
    BY TypesAreQueues DEF BooksBalance
  <2>2. id \in 0 .. MaxInboundRequests
    BY DEF BooksBalance, HandlerTypeOK
  <2>3. id \in Nat
    BY <2>2, Limits
  <2>4. state = "Active" /\ UNCHANGED aloneVars
    BY DEF InboundNegotiated, aloneVars
  <2> QED BY <2>1, <2>3, <2>4
<1>2. CASE events_out' = Append(events_out, <<"Request", id>>) /\ UNCHANGED <<state, dial_queue>>
  <2>1. \A q : Kept(q)
    BY <1>1, <1>2, OtherEventKept
  <2> QED BY <1>1, <2>1, AloneRequests
<1>3. CASE Shutdown(<<>>, <<<<"InboundError", id>>>>, <<>>)
  BY <1>1, <1>3, OneEvent, SilentShutdownRequests DEF aloneVars
<1> QED BY <1>2, <1>3 DEF InboundNegotiated

\* The goodbye of the peer.
LEMMA InboundGoodbyeRequests ==
    ASSUME BooksBalance, RequestInv, InboundGoodbye PROVE RequestInv'
<1> DEFINE id == current_inbound_substream_id
<1>1. id \in Nat /\ state = "Active" /\ UNCHANGED aloneVars
  BY Limits DEF BooksBalance, HandlerTypeOK, InboundGoodbye, aloneVars
<1>2. Shutdown(<<>>, <<>>, <<<<"Request", id>>>>)
  BY DEF InboundGoodbye
<1> QED BY <1>1, <1>2, OneEvent, SilentShutdownRequests DEF aloneVars

\* What happens on inbound substreams.
LEMMA InboundRequests ==
    ASSUME BooksBalance, RequestInv, NEW id \in InboundIds,
           \/ \E response \in Responses : SendResponse(id, response)
           \/ ExpireInbound(id) \/ StartSending(id) \/ SendingDone(id) \/ SendingFails(id)
    PROVE  RequestInv'
<1>1. QueueTypes /\ id \in Nat
  BY TypesAreQueues, Limits DEF BooksBalance
<1>2. UNCHANGED <<aloneVars, dial_queue, state>>
  BY DEF SendResponse, ExpireInbound, StartSending, SendingDone, SendingFails, aloneVars,
         outVars, requestVars
<1>3. events_out' = Append(events_out, <<"InboundError", id>>) \/ events_out' = events_out
  BY DEF SendResponse, ExpireInbound, StartSending, SendingDone, SendingFails
<1>4. \A q : Kept(q)
  BY <1>1, <1>2, <1>3, OtherEventKept, QueuesKept
<1> QED BY <1>2, <1>4, AloneRequests

\* The steps of poll that only move it.
LEMMA PollMovesRequests == ASSUME RequestInv, PollMoves PROVE RequestInv'
<1>1. UNCHANGED <<events_out, dial_queue, aloneVars>>
  BY PollMovesEffect DEF outVars, aloneVars
<1>2. state = "Active" \/ state' # "Active"
  BY PollMovesEffect
<1> QED BY <1>1, <1>2, QueuesKept, AloneRequests

\* The report that ends a request: nothing comes after it.
LEMMA LastReport ==
    ASSUME BooksBalance, NEW r \in Requests, RequestOK(r), Open(r) \/ Failed(r),
           NEW what \in {"Error", "EndOfStream"}, Report(r, what)
    PROVE  /\ reports'[r] # <<>>
           /\ Ordered(reports'[r])
           /\ Times("Response", reports'[r]) <= expected[r]
<1>1. /\ outbound_substreams[r] \in {"None", "RequestPendingResponse", "Closing"}
      /\ reports[r] \in Seq({"Response", "Error", "EndOfStream"})
      /\ reports'[r] = Append(reports[r], what)
  BY RequestTypes DEF BooksBalance, HandlerTypeOK, Report
<1>2. Ordered(reports[r]) /\ Times("Response", reports[r]) <= expected[r]
  BY DEF RequestOK, ReportsByPlace
<1>3. ~Holds("EndOfStream", reports[r])
  <2>1. CASE Failed(r)
    BY <2>1 DEF RequestOK, ReportsByPlace, Holds
  <2>2. CASE outbound_substreams[r] = "RequestPendingResponse"
    BY <2>2 DEF RequestOK, ReportsByPlace, Holds
  <2>3. CASE outbound_substreams[r] = "Closing"
    BY <2>3 DEF RequestOK, ReportsByPlace
  <2> QED BY <1>1, <2>1, <2>2, <2>3 DEF Open
<1>4. Ordered(Append(reports[r], what))
  BY <1>1, <1>2, <1>3, OrderedAppend
<1>5. Times("Response", Append(reports[r], what)) = Times("Response", reports[r]) + 0
  BY <1>1, TimesAppend
<1>6. Times("Response", Append(reports[r], what)) = Times("Response", reports[r])
  BY <1>5, RequestTypes
<1>7. Append(reports[r], what) # <<>>
  BY <1>1
<1> QED BY <1>1, <1>2, <1>4, <1>6, <1>7

\* The first event is returned.
LEMMA PollEventsOutRequests == ASSUME BooksBalance, RequestInv, PollEventsOut PROVE RequestInv'
<1>1. /\ QueueTypes /\ events_out # <<>> /\ events_out' = Tail(events_out)
      /\ UNCHANGED <<state, dial_queue, opening, outbound_substreams, outbound_remaining,
                     expected, sent>>
  BY TypesAreQueues DEF BooksBalance, PollEventsOut, outVars, requestVars
<1>2. \A x : /\ AtMostOnce(x, events_out) => AtMostOnce(x, Tail(events_out))
             /\ AtMostOnce(x, events_out)
                  => (Holds(x, Tail(events_out)) <=> Holds(x, events_out) /\ x # Head(events_out))
             /\ Holds(Head(events_out), events_out)
  BY <1>1, TailHolds DEF QueueTypes
<1>3. \A q \in Requests : AtMostOnce(OutboundError(q), events_out)
  BY DEF RequestInv, OnePlace
<1>4. \A q \in Requests : OutboundError(q) # Head(events_out) => Kept(q)
  BY <1>1, <1>2, <1>3 DEF Kept, Queued, Failed
<1>5. GoodbyeOnce'
  BY <1>1 DEF RequestInv, GoodbyeOnce
<1>6. CASE Head(events_out)[1] # "OutboundError"
  <2>1. \A q \in Requests : Kept(q)
    BY <1>1, <1>4, <1>6, HeadEvent
  <2>2. \A q \in Requests : SameRequest(q)
    BY <1>1, <1>6, <2>1 DEF SameRequest, PollEventsOut
  <2> QED BY <1>5, <2>2, NoRequestInv
<1>7. CASE Head(events_out)[1] = "OutboundError"
  <2>1. PICK r \in Requests : Head(events_out) = OutboundError(r) /\ Report(r, "Error")
    BY <1>1, <1>7, HeadEvent DEF PollEventsOut
  <2>2. Failed(r) /\ ~Failed(r)' /\ (Queued(r)' <=> Queued(r)) /\ RequestOK(r)
    BY <1>1, <1>2, <1>3, <2>1 DEF Failed, Queued, RequestInv, RequestOK
  <2>3. /\ reports'[r] # <<>> /\ Ordered(reports'[r])
        /\ Times("Response", reports'[r]) <= expected[r]
    BY <2>1, <2>2, LastReport
  <2>4. \A q \in Requests : q # r => SameRequest(q)
    BY <1>1, <1>4, <2>1, EventTypes DEF SameRequest, Report, BooksBalance, HandlerTypeOK
  <2>5. ~Queued(r) /\ r \notin opening /\ ~Open(r) /\ r \in sent
    BY <2>2 DEF RequestOK, OnePlace
  <2>6. OnePlace(r)'
    BY <1>1, <1>2, <2>2, <2>5 DEF RequestOK, OnePlace, Open
  <2>7. LeftReported(r)' /\ ReportsByPlace(r)'
    BY <1>1, <2>2, <2>3, <2>5 DEF LeftReported, ReportsByPlace, Open
  <2> QED BY <1>5, <2>4, <2>6, <2>7, OneRequestInv DEF RequestOK
<1> QED BY <1>6, <1>7

\* A substream ends with a report, or was closed after one.
LEMMA EndSubstreamRequests ==
    ASSUME BooksBalance, RequestInv, NEW r \in Requests, Open(r), RemoveOutbound(r),
           \/ \E what \in {"Error", "EndOfStream"} : Report(r, what)
           \/ outbound_substreams[r] = "Closing" /\ UNCHANGED reports,
           UNCHANGED <<state, events_out, requestVars>>
    PROVE  RequestInv'
<1>1. /\ UNCHANGED <<dial_queue, opening, outbound_remaining, expected, sent, state>>
      /\ outbound_substreams'[r] = "None"
      /\ \A q \in Requests : q # r => outbound_substreams'[q] = outbound_substreams[q]
  BY DEF RemoveOutbound, requestVars, BooksBalance, HandlerTypeOK
<1>2. \A q : Kept(q)
  BY <1>1, QueuesKept
<1>3. \A q \in Requests : q # r => reports'[q] = reports[q]
  BY DEF Report, BooksBalance, HandlerTypeOK
<1>4. \A q \in Requests : q # r => SameRequest(q)
  BY <1>1, <1>2, <1>3 DEF SameRequest
<1>5. GoodbyeOnce'
  BY <1>1 DEF RequestInv, GoodbyeOnce
<1>6. RequestOK(r)
  BY DEF RequestInv, RequestOK
<1>7. /\ reports'[r] # <<>> /\ Ordered(reports'[r])
      /\ Times("Response", reports'[r]) <= expected[r]
  <2>1. CASE \E what \in {"Error", "EndOfStream"} : Report(r, what)
    BY <1>6, <2>1, LastReport
  <2>2. CASE outbound_substreams[r] = "Closing" /\ UNCHANGED reports
    BY <1>6, <2>2 DEF RequestOK, ReportsByPlace
  <2> QED BY <2>1, <2>2
<1>8. ~Queued(r) /\ ~Failed(r) /\ r \notin opening /\ r \in sent
  BY <1>6 DEF RequestOK, OnePlace
<1>9. OnePlace(r)'
  BY <1>1, <1>2, <1>6 DEF RequestOK, OnePlace, Open, Kept
<1>10. LeftReported(r)' /\ ReportsByPlace(r)'
  BY <1>1, <1>2, <1>7, <1>8 DEF LeftReported, ReportsByPlace, Kept
<1> QED BY <1>4, <1>5, <1>9, <1>10, OneRequestInv DEF RequestOK

\* Those actions.
LEMMA OutboundEndsRequests ==
    ASSUME BooksBalance, RequestInv, NEW r \in Requests,
           ExpireOutbound(r) \/ StreamEnds(r) \/ StreamFails(r) \/ SubstreamCloses(r)
    PROVE  RequestInv'
<1>1. Open(r)
  BY DEF ExpireOutbound, StreamEnds, StreamFails, SubstreamCloses, Open, BooksBalance, TimersMatch
<1>2. /\ RemoveOutbound(r)
      /\ UNCHANGED <<state, events_out, requestVars>>
  BY DEF ExpireOutbound, StreamEnds, StreamFails, SubstreamCloses
<1>3. \/ \E what \in {"Error", "EndOfStream"} : Report(r, what)
      \/ outbound_substreams[r] = "Closing" /\ UNCHANGED reports
  BY DEF ExpireOutbound, StreamEnds, StreamFails, SubstreamCloses
<1> QED BY <1>1, <1>2, <1>3, EndSubstreamRequests

\* A chunk arrives.
LEMMA ReceiveResponseRequests ==
    ASSUME BooksBalance, RequestInv, NEW r \in Requests, NEW what \in {"Response", "Error"},
           ReceiveResponse(r, what)
    PROVE  RequestInv'
<1>1. /\ UNCHANGED <<events_out, dial_queue, opening, expected, sent, state>>
      /\ outbound_substreams[r] = "RequestPendingResponse"
      /\ \A q \in Requests : q # r => /\ outbound_substreams'[q] = outbound_substreams[q]
                                      /\ outbound_remaining'[q] = outbound_remaining[q]
                                      /\ reports'[q] = reports[q]
      /\ reports'[r] = Append(reports[r], what)
  BY DEF ReceiveResponse, Report, requestVars, BooksBalance, HandlerTypeOK
<1>2. \A q : Kept(q)
  BY <1>1, QueuesKept
<1>3. \A q \in Requests : q # r => SameRequest(q)
  BY <1>1, <1>2 DEF SameRequest
<1>4. GoodbyeOnce'
  BY <1>1 DEF RequestInv, GoodbyeOnce
<1>5. /\ RequestOK(r)
      /\ \A i \in DOMAIN reports[r] : reports[r][i] = "Response"
      /\ outbound_remaining[r] >= 1
      /\ Times("Response", reports[r]) + outbound_remaining[r] = expected[r]
      /\ Ordered(reports[r])
  BY <1>1 DEF RequestInv, RequestOK, ReportsByPlace
<1>6. /\ reports[r] \in Seq({"Response", "Error", "EndOfStream"})
      /\ Times("Response", reports[r]) \in Nat
      /\ outbound_remaining[r] \in Nat /\ expected[r] \in Nat
  BY RequestTypes
<1>7. Times("Response", reports'[r]) =
          Times("Response", reports[r]) + (IF "Response" = what THEN 1 ELSE 0)
  BY <1>1, <1>6, TimesAppend
<1>8. Ordered(reports'[r]) /\ ~Holds("EndOfStream", reports'[r]) /\ reports'[r] # <<>>
  <2>1. ~Holds("EndOfStream", reports[r])
    BY <1>5 DEF Holds
  <2>2. ~Holds("EndOfStream", Append(reports[r], what))
    BY <1>6, <2>1, AppendHolds
  <2>3. Ordered(Append(reports[r], what))
    BY <1>5, <1>6, <2>1, OrderedAppend
  <2> QED BY <1>1, <1>6, <2>2, <2>3
<1>9. ~Queued(r) /\ ~Failed(r) /\ r \notin opening /\ r \in sent
  BY <1>1, <1>5 DEF RequestOK, OnePlace, Open
<1>10. Times("Response", reports'[r]) <= expected[r]
  BY <1>5, <1>6, <1>7
<1>11. CASE /\ outbound_substreams' = [outbound_substreams EXCEPT ![r] = "Closing"]
  <2>1. outbound_substreams'[r] = "Closing"
    BY <1>11 DEF BooksBalance, HandlerTypeOK
  <2>2. OnePlace(r)' /\ LeftReported(r)'
    BY <1>1, <1>2, <1>5, <1>9, <2>1 DEF RequestOK, OnePlace, LeftReported, Open, Kept
  <2>3. ReportsByPlace(r)'
    BY <1>1, <1>2, <1>8, <1>9, <1>10, <2>1 DEF ReportsByPlace, Kept
  <2> QED BY <1>3, <1>4, <2>2, <2>3, OneRequestInv DEF RequestOK
<1>12. CASE /\ ~LastResponse(r, what)
            /\ outbound_remaining' =
                   [outbound_remaining EXCEPT ![r] = IF @ = 0 THEN 0 ELSE @ - 1]
            /\ UNCHANGED outbound_substreams
  <2>1. what = "Response" /\ outbound_remaining[r] > 1
    BY <1>6, <1>12 DEF LastResponse
  <2>2. outbound_remaining'[r] = outbound_remaining[r] - 1
    BY <1>6, <1>12, <2>1 DEF BooksBalance, HandlerTypeOK
  <2>3. OnePlace(r)' /\ LeftReported(r)'
    BY <1>1, <1>2, <1>5, <1>9, <1>12 DEF RequestOK, OnePlace, LeftReported, Open, Kept
  <2>4. \A i \in DOMAIN reports'[r] : reports'[r][i] = "Response"
    BY <1>1, <1>5, <1>6, <2>1, AppendProperties, LenProperties
  <2>5. Times("Response", reports'[r]) + outbound_remaining'[r] = expected[r]
        /\ outbound_remaining'[r] >= 1
    BY <1>5, <1>6, <1>7, <2>1, <2>2
  <2>6. ReportsByPlace(r)'
    BY <1>1, <1>2, <1>8, <1>9, <1>10, <1>12, <2>4, <2>5 DEF ReportsByPlace, Kept
  <2> QED BY <1>3, <1>4, <2>3, <2>6, OneRequestInv DEF RequestOK
<1> QED BY <1>11, <1>12 DEF ReceiveResponse

\* The next request is dialed.
LEMMA PollDialQueueRequests == ASSUME BooksBalance, RequestInv, PollDialQueue PROVE RequestInv'
<1>0. QueueTypes /\ dial_queue # <<>>
  BY TypesAreQueues DEF BooksBalance, PollDialQueue, MayDial
<1> PICK r \in Requests : r = Head(dial_queue)
  BY <1>0, TailHolds DEF QueueTypes
<1>1. /\ dial_queue' = Tail(dial_queue)
      /\ opening' = opening \cup {r}
      /\ UNCHANGED <<state, events_out, outbound_substreams, outbound_remaining,
                     expected, sent, reports>>
  BY DEF PollDialQueue, requestVars
<1>2. Queued(r)
      /\ \A x : /\ AtMostOnce(x, dial_queue) => AtMostOnce(x, Tail(dial_queue))
                /\ AtMostOnce(x, dial_queue)
                     => (Holds(x, Tail(dial_queue)) <=> Holds(x, dial_queue) /\ x # r)
  BY <1>0, TailHolds DEF QueueTypes, Queued
<1>3. \A q \in Requests : AtMostOnce(q, dial_queue)
  BY DEF RequestInv, OnePlace
<1>4. \A q \in Requests : q # r => Kept(q)
  BY <1>1, <1>2, <1>3 DEF Kept, Queued, Failed
<1>5. \A q \in Requests : q # r => SameRequest(q)
  BY <1>1, <1>4 DEF SameRequest
<1>6. GoodbyeOnce'
  BY <1>1 DEF RequestInv, GoodbyeOnce
<1>7. RequestOK(r)
  BY <1>2 DEF RequestInv, RequestOK
<1>8. ~Queued(r)' /\ (Failed(r)' <=> Failed(r)) /\ ~Failed(r) /\ r \notin opening /\ ~Open(r)
      /\ r \in sent /\ reports[r] = <<>>
  BY <1>1, <1>2, <1>3, <1>7 DEF RequestOK, OnePlace, ReportsByPlace, Queued, Failed
<1>9. OnePlace(r)' /\ LeftReported(r)'
  BY <1>1, <1>2, <1>7, <1>8 DEF RequestOK, OnePlace, LeftReported, Open
<1>10. ReportsByPlace(r)'
  BY <1>1, <1>7, <1>8 DEF RequestOK, ReportsByPlace, Open
<1> QED BY <1>5, <1>6, <1>9, <1>10, OneRequestInv DEF RequestOK

\* Every step keeps the invariant of the requests.
LEMMA StepRequests ==
    BooksBalance /\ RequestInv /\ [HandlerNext]_handlerVars => RequestInv'
<1> SUFFICES ASSUME BooksBalance, RequestInv, [HandlerNext]_handlerVars PROVE RequestInv'
  OBVIOUS
<1>1. ASSUME NEW r \in Requests, SendRequest(r) PROVE RequestInv'
  BY <1>1, SendRequestRequests
<1>2. ASSUME NEW r \in Requests, OutboundNegotiated(r) PROVE RequestInv'
  BY <1>2, OutboundNegotiatedRequests
<1>3. ASSUME NEW r \in Requests, NEW io \in BOOLEAN, DialUpgradeError(r, io) PROVE RequestInv'
  BY <1>3, DialUpgradeErrorRequests
<1>4. ASSUME NEW r \in Requests,
             ExpireOutbound(r) \/ StreamEnds(r) \/ StreamFails(r) \/ SubstreamCloses(r)
      PROVE  RequestInv'
  BY <1>4, OutboundEndsRequests
<1>5. ASSUME NEW r \in Requests, NEW what \in {"Response", "Error"}, ReceiveResponse(r, what)
      PROVE  RequestInv'
  BY <1>5, ReceiveResponseRequests
<1>6. CASE SendGoodbye
  BY <1>6, SendGoodbyeRequests
<1>7. ASSUME NEW n \in 0 .. MaxCount, InboundNegotiated(n) PROVE RequestInv'
  BY <1>7, InboundNegotiatedRequests
<1>8. CASE InboundGoodbye
  BY <1>8, InboundGoodbyeRequests
<1>9. ASSUME NEW id \in InboundIds,
             \/ \E response \in Responses : SendResponse(id, response)
             \/ ExpireInbound(id) \/ StartSending(id) \/ SendingDone(id) \/ SendingFails(id)
      PROVE  RequestInv'
  BY <1>9, InboundRequests
<1>10. CASE PollEventsOut
  BY <1>10, PollEventsOutRequests
<1>11. CASE PollMoves
  BY <1>11, PollMovesRequests
<1>12. CASE PollDialQueue
  BY <1>12, PollDialQueueRequests
<1>13. CASE UNCHANGED handlerVars
  <2>1. UNCHANGED <<events_out, dial_queue, aloneVars, state>>
    BY <1>13 DEF handlerVars, outVars, aloneVars
  <2>2. \A q : Kept(q)
    BY <2>1, QueuesKept
  <2> QED BY <2>1, <2>2, AloneRequests
<1> QED BY <1>1, <1>2, <1>3, <1>4, <1>5, <1>6, <1>7, <1>8, <1>9, <1>10, <1>11, <1>12, <1>13
        DEF HandlerNext, PollMoves

\* The initial state.
LEMMA InitAsked == HandlerInit => AskedInv
BY DEF HandlerInit, AskedInv, AskedOK

\* Only a request that is sent changes what is asked for.
LEMMA StepAsked == BooksBalance /\ AskedInv /\ [HandlerNext]_handlerVars => AskedInv'
<1> SUFFICES ASSUME BooksBalance, AskedInv, [HandlerNext]_handlerVars, NEW q \in Requests
             PROVE  AskedOK(q)'
  BY DEF AskedInv
<1>1. AskedOK(q) /\ expected \in [Requests -> 0 .. MaxCount]
  BY DEF AskedInv, BooksBalance, HandlerTypeOK
<1>2. CASE UNCHANGED requestVars
  BY <1>1, <1>2 DEF AskedOK, requestVars
<1>3. ASSUME NEW r \in Requests, SendRequest(r) PROVE AskedOK(q)'
  <2>1. PICK n \in ExpectedResponses(r) : expected' = [expected EXCEPT ![r] = n]
    BY <1>3 DEF SendRequest
  <2>2. r # Goodbye /\ sent' = sent \cup {r} /\ (n > 1 => r \in BlockRequests)
    BY <1>3, RequestsAssumption DEF SendRequest, ExpectedResponses
  <2>3. expected'[q] = IF q = r THEN n ELSE expected[q]
    BY <1>1, <2>1
  <2> QED BY <1>1, <2>2, <2>3 DEF AskedOK
<1>4. CASE SendGoodbye
  <2>1. expected' = expected /\ (q \notin sent' => q \notin sent)
    BY <1>4 DEF SendGoodbye
  <2> QED BY <1>1, <2>1 DEF AskedOK
<1>5. HandlerNext => \/ UNCHANGED requestVars \/ SendGoodbye
                     \/ \E r \in Requests : SendRequest(r)
  BY DEF HandlerNext, OutboundNegotiated, DialUpgradeError, ExpireOutbound, ReceiveResponse,
         StreamEnds, StreamFails, SubstreamCloses, InboundNegotiated, InboundGoodbye,
         SendResponse, ExpireInbound, StartSending, SendingDone, SendingFails, PollEventsOut,
         PollShutdownTimer, PollBegin, PollTimersDone, PollInboundDone, PollDialQueue, PollEnd
<1> QED BY <1>2, <1>3, <1>4, <1>5 DEF handlerVars

-----------------------------------------------------------------------------
(* The requests of the peer.                                               *)

\* The initial state.
LEMMA InitInbound == HandlerInit => InboundInv
BY DEF HandlerInit, InboundInv, InboundOK, NoSubstream

\* An action on one inbound substream keeps the invariant of all if it keeps
\* that one, and opens none beyond the counter.
LEMMA OneInboundInv ==
    ASSUME BooksBalance, InboundInv, NEW id \in InboundIds, NEW info, NEW owes,
           inbound_substreams' = [inbound_substreams EXCEPT ![id] = info],
           owed' = [owed EXCEPT ![id] = owes] \/ (owed' = owed /\ owes = owed[id]),
           InboundOK(info, owes),
           info.st = "None" \/ inbound_substreams[id].st # "None",
           UNCHANGED current_inbound_substream_id
    PROVE  InboundInv'
<1>1. /\ inbound_substreams \in [InboundIds -> InboundInfos] /\ owed \in [InboundIds -> Int]
      /\ current_inbound_substream_id \in Nat
  BY Limits DEF BooksBalance, HandlerTypeOK
<1>2. SUFFICES ASSUME NEW i \in InboundIds
               PROVE  /\ InboundOK(inbound_substreams'[i], owed'[i])
                      /\ i >= current_inbound_substream_id => inbound_substreams'[i].st = "None"
  BY DEF InboundInv
<1>3. CASE i = id
  <2>1. inbound_substreams'[i] = info /\ owed'[i] = owes
    BY <1>1, <1>3
  <2> QED BY <1>3, <2>1 DEF InboundInv
<1>4. CASE i # id
  <2>1. inbound_substreams'[i] = inbound_substreams[i] /\ owed'[i] = owed[i]
    BY <1>1, <1>2, <1>4
  <2> QED BY <2>1 DEF InboundInv
<1> QED BY <1>3, <1>4

\* A request of the peer is accepted: it is owed what it asked for.
LEMMA InboundNegotiatedInbound ==
    ASSUME BooksBalance, InboundInv, NEW n \in 0 .. MaxCount, InboundNegotiated(n)
    PROVE  InboundInv'
<1> DEFINE id == current_inbound_substream_id
<1>1. /\ inbound_substreams \in [InboundIds -> InboundInfos] /\ owed \in [InboundIds -> Int]
      /\ id \in Nat /\ n \in Nat /\ InboundIds \subseteq Nat
  BY Limits DEF BooksBalance, HandlerTypeOK
<1>2. CASE UNCHANGED inVars
  BY <1>2 DEF InboundInv, inVars
<1>3. CASE /\ id < MaxInboundRequests
           /\ inbound_substreams' =
                  IF n = 0 THEN inbound_substreams
                  ELSE [inbound_substreams EXCEPT ![id] =
                           [NoSubstream EXCEPT !.st = "Idle", !.remaining_chunks = n,
                                               !.delay_key = TRUE]]
           /\ owed' = [owed EXCEPT ![id] = n]
           /\ current_inbound_substream_id' = id + 1
  <2> DEFINE info == [NoSubstream EXCEPT !.st = "Idle", !.remaining_chunks = n,
                                         !.delay_key = TRUE]
  <2>1. info.st = "Idle" /\ info.remaining_chunks = n
    BY DEF NoSubstream
  <2>2. SUFFICES ASSUME NEW i \in InboundIds
                 PROVE  /\ InboundOK(inbound_substreams'[i], owed'[i])
                        /\ i >= id + 1 => inbound_substreams'[i].st = "None"
    BY <1>3 DEF InboundInv
  <2> HIDE DEF info
  <2>3. CASE i # id
    <3>1. inbound_substreams'[i] = inbound_substreams[i] /\ owed'[i] = owed[i]
      BY <1>1, <1>3, <2>3
    <3> QED BY <1>1, <2>3, <3>1 DEF InboundInv
  <2>4. CASE i = id /\ n = 0
    <3>1. inbound_substreams'[i] = inbound_substreams[i] /\ owed'[i] = 0
      BY <1>1, <1>3, <2>4
    <3>2. inbound_substreams[i].st = "None"
      BY <1>1, <2>4 DEF InboundInv
    <3> QED BY <1>1, <2>4, <3>1, <3>2 DEF InboundOK
  <2>5. CASE i = id /\ n # 0
    <3>1. inbound_substreams'[i] = info /\ owed'[i] = n
      BY <1>1, <1>3, <2>5 DEF info
    <3> QED BY <1>1, <2>1, <2>5, <3>1 DEF InboundOK
  <2> QED BY <2>3, <2>4, <2>5
<1> QED BY <1>2, <1>3 DEF InboundNegotiated

\* The goodbye of the peer uses up a number and opens nothing.
LEMMA InboundGoodbyeInbound ==
    ASSUME BooksBalance, InboundInv, InboundGoodbye PROVE InboundInv'
<1>1. /\ current_inbound_substream_id \in Nat /\ InboundIds \subseteq Nat
      /\ current_inbound_substream_id' = current_inbound_substream_id + 1
      /\ UNCHANGED <<inbound_substreams, owed>>
  BY Limits DEF BooksBalance, HandlerTypeOK, InboundGoodbye
<1> QED BY <1>1 DEF InboundInv

\* The substream's own record.
LEMMA InboundTypes ==
    ASSUME BooksBalance, InboundInv, NEW id \in InboundIds
    PROVE  /\ inbound_substreams[id] \in InboundInfos
           /\ inbound_substreams[id].remaining_chunks \in Nat
           /\ owed[id] \in Int
           /\ InboundOK(inbound_substreams[id], owed[id])
BY DEF BooksBalance, HandlerTypeOK, InboundInfos, InboundInv

\* Responses are queued and started.
LEMMA QueueingInbound ==
    ASSUME BooksBalance, InboundInv, NEW id \in InboundIds,
           \/ \E response \in Responses : SendResponse(id, response)
           \/ ExpireInbound(id) \/ StartSending(id)
    PROVE  InboundInv'
<1> DEFINE old == inbound_substreams[id]
<1>1. /\ old \in InboundInfos /\ old.remaining_chunks \in Nat /\ owed[id] \in Int
      /\ InboundOK(old, owed[id])
  BY InboundTypes
<1>2. owed' = owed /\ UNCHANGED current_inbound_substream_id
  BY DEF SendResponse, ExpireInbound, StartSending
<1>3. inbound_substreams \in [InboundIds -> InboundInfos]
  BY DEF BooksBalance, HandlerTypeOK
<1>4. ASSUME NEW response \in Responses, SendResponse(id, response) PROVE InboundInv'
  <2> DEFINE info == [old EXCEPT !.pending_items = Append(@, response)]
  <2>1. inbound_substreams' = [inbound_substreams EXCEPT ![id] = info]
    BY <1>3, <1>4 DEF SendResponse
  <2>2. /\ info.st = old.st /\ info.remaining_chunks = old.remaining_chunks
        /\ info.last_chunk = old.last_chunk
    BY <1>1 DEF InboundInfos
  <2> HIDE DEF info
  <2>3. InboundOK(info, owed[id]) /\ (info.st = "None" \/ old.st # "None")
    BY <1>1, <2>2 DEF InboundOK
  <2> QED BY <1>2, <2>1, <2>3, OneInboundInv
<1>5. CASE ExpireInbound(id)
  <2> DEFINE info == Expired(old)
  <2>1. inbound_substreams' = [inbound_substreams EXCEPT ![id] = info]
    BY <1>3, <1>5 DEF ExpireInbound
  <2>2. /\ info.st = old.st /\ info.remaining_chunks = old.remaining_chunks
        /\ info.last_chunk = old.last_chunk
    BY <1>1 DEF InboundInfos, Expired
  <2> HIDE DEF info
  <2>3. InboundOK(info, owed[id]) /\ (info.st = "None" \/ old.st # "None")
    BY <1>1, <2>2 DEF InboundOK
  <2> QED BY <1>2, <2>1, <2>3, OneInboundInv
<1>6. CASE StartSending(id)
  <2> DEFINE info == Sending(old)
  <2>1. inbound_substreams' = [inbound_substreams EXCEPT ![id] = info] /\ old.st = "Idle"
    BY <1>3, <1>6 DEF StartSending, HasWork
  <2>2. /\ info.st = "Busy" /\ info.remaining_chunks = old.remaining_chunks
        /\ info.last_chunk = (old.remaining_chunks <= 1)
    BY <1>1 DEF InboundInfos, Sending
  <2> HIDE DEF info
  <2>3. InboundOK(info, owed[id]) /\ (info.st = "None" \/ old.st # "None")
    BY <1>1, <2>1, <2>2 DEF InboundOK
  <2> QED BY <1>2, <2>1, <2>3, OneInboundInv
<1> QED BY <1>4, <1>5, <1>6

\* A response is written, or fails.
LEMMA WritingInbound ==
    ASSUME BooksBalance, InboundInv, NEW id \in InboundIds, SendingDone(id) \/ SendingFails(id)
    PROVE  InboundInv'
<1> DEFINE old == inbound_substreams[id]
           owes == IF old.message = "Success" THEN owed[id] - 1 ELSE owed[id]
           info == [old EXCEPT !.st = "Idle", !.message = "None",
                               !.remaining_chunks = IF @ = 0 THEN 0 ELSE @ - 1]
<1>1. /\ old \in InboundInfos /\ old.remaining_chunks \in Nat /\ owed[id] \in Int
      /\ InboundOK(old, owed[id]) /\ old.st = "Busy"
      /\ UNCHANGED current_inbound_substream_id
      /\ owed' = OwedAfter(id)
  BY InboundTypes DEF SendingDone, SendingFails
<1>2. /\ old.remaining_chunks >= 1 /\ owed[id] = old.remaining_chunks
      /\ old.last_chunk <=> old.remaining_chunks <= 1
  BY <1>1 DEF InboundOK
<1>3. owed' = [owed EXCEPT ![id] = owes] \/ (owed' = owed /\ owes = owed[id])
  BY <1>1 DEF OwedAfter
<1>4. owes \in Int /\ owes >= 0
  BY <1>1, <1>2
<1>5. CASE inbound_substreams' = [inbound_substreams EXCEPT ![id] = NoSubstream]
  <2>1. InboundOK(NoSubstream, owes) /\ NoSubstream.st = "None"
    BY <1>4 DEF InboundOK, NoSubstream
  <2> HIDE DEF owes
  <2> QED BY <1>1, <1>3, <1>5, <2>1, OneInboundInv
<1>6. CASE /\ ~(old.last_chunk \/ old.message # "Success")
           /\ inbound_substreams' = [inbound_substreams EXCEPT ![id] = info]
  <2>1. owes = old.remaining_chunks - 1 /\ old.remaining_chunks > 1
    BY <1>1, <1>2, <1>6
  <2>2. info.st = "Idle" /\ info.remaining_chunks = old.remaining_chunks - 1
    BY <1>1, <2>1 DEF InboundInfos
  <2> HIDE DEF info, owes
  <2>3. InboundOK(info, owes)
    BY <1>1, <2>1, <2>2 DEF InboundOK
  <2> QED BY <1>1, <1>3, <1>6, <2>3, OneInboundInv
<1> QED BY <1>5, <1>6 DEF SendingDone, SendingFails

\* Every step keeps what the peer is owed in step with the substreams.
LEMMA StepInbound == BooksBalance /\ InboundInv /\ [HandlerNext]_handlerVars => InboundInv'
<1> SUFFICES ASSUME BooksBalance, InboundInv, [HandlerNext]_handlerVars PROVE InboundInv'
  OBVIOUS
<1>1. ASSUME NEW n \in 0 .. MaxCount, InboundNegotiated(n) PROVE InboundInv'
  BY <1>1, InboundNegotiatedInbound
<1>2. CASE InboundGoodbye
  BY <1>2, InboundGoodbyeInbound
<1>3. ASSUME NEW id \in InboundIds,
             \/ \E response \in Responses : SendResponse(id, response)
             \/ ExpireInbound(id) \/ StartSending(id)
      PROVE  InboundInv'
  BY <1>3, QueueingInbound
<1>4. ASSUME NEW id \in InboundIds, SendingDone(id) \/ SendingFails(id) PROVE InboundInv'
  BY <1>4, WritingInbound
<1>5. CASE UNCHANGED inVars
  BY <1>5 DEF InboundInv, inVars
<1>6. ASSUME NEW r \in Requests,
             \/ SendRequest(r) \/ OutboundNegotiated(r)
             \/ \E io \in BOOLEAN : DialUpgradeError(r, io)
             \/ ExpireOutbound(r)
             \/ \E what \in {"Response", "Error"} : ReceiveResponse(r, what)
             \/ StreamEnds(r) \/ StreamFails(r) \/ SubstreamCloses(r)
      PROVE  UNCHANGED inVars
  BY <1>6 DEF SendRequest, OutboundNegotiated, DialUpgradeError, ExpireOutbound,
              ReceiveResponse, StreamEnds, StreamFails, SubstreamCloses
<1>7. ASSUME SendGoodbye \/ PollEventsOut \/ PollMoves \/ PollDialQueue \/ UNCHANGED handlerVars
      PROVE  UNCHANGED inVars
  BY <1>7, PollMovesEffect DEF SendGoodbye, PollEventsOut, PollDialQueue, handlerVars
<1> QED BY <1>1, <1>2, <1>3, <1>4, <1>5, <1>6, <1>7 DEF HandlerNext, PollMoves

-----------------------------------------------------------------------------
(* The end of the handler.                                                 *)

\* Every action needs a handler that runs, or one that is inside poll.
LEMMA NextRuns == ASSUME EndedWaits, HandlerNext PROVE Running
BY DEF EndedWaits, HandlerNext, MayInject, SendRequest, OutboundNegotiated, DialUpgradeError,
       ExpireOutbound, ReceiveResponse, StreamEnds, StreamFails, SubstreamCloses, SendGoodbye,
       InboundNegotiated, InboundGoodbye, SendResponse, ExpireInbound, StartSending,
       SendingDone, SendingFails, PollEventsOut, PollShutdownTimer, PollBegin, PollTimersDone,
       PollInboundDone, PollDialQueue, PollEnd

\* Only the two ends of poll stop a handler that runs.
LEMMA StillRuns ==
    ASSUME BooksBalance, EndedWaits, HandlerNext, ~PollShutdownTimer, ~PollEnd
    PROVE  Running'
<1>1. Running
  BY NextRuns
<1>2. ASSUME NEW goodbye, NEW first, NEW then, Shutdown(goodbye, first, then)
      PROVE  Running'
  BY <1>1, <1>2 DEF Shutdown, Running
<1>3. ASSUME UNCHANGED state PROVE Running'
  BY <1>1, <1>3 DEF Running
<1>4. ASSUME NEW r \in Requests,
             \/ SendRequest(r) \/ OutboundNegotiated(r)
             \/ \E io \in BOOLEAN : DialUpgradeError(r, io)
             \/ ExpireOutbound(r)
             \/ \E what \in {"Response", "Error"} : ReceiveResponse(r, what)
             \/ StreamEnds(r) \/ StreamFails(r) \/ SubstreamCloses(r)
      PROVE  UNCHANGED state
  BY <1>4 DEF SendRequest, OutboundNegotiated, DialUpgradeError, ExpireOutbound,
              ReceiveResponse, StreamEnds, StreamFails, SubstreamCloses
<1>5. ASSUME NEW id \in InboundIds,
             \/ \E response \in Responses : SendResponse(id, response)
             \/ ExpireInbound(id) \/ StartSending(id) \/ SendingDone(id) \/ SendingFails(id)
      PROVE  UNCHANGED state
  BY <1>5 DEF SendResponse, ExpireInbound, StartSending, SendingDone, SendingFails
<1>6. ASSUME PollEventsOut \/ PollBegin \/ PollTimersDone \/ PollInboundDone \/ PollDialQueue
      PROVE  UNCHANGED state
  BY <1>6 DEF PollEventsOut, PollBegin, PollTimersDone, PollInboundDone, PollDialQueue
<1>7. CASE SendGoodbye \/ InboundGoodbye
  BY <1>2, <1>7 DEF SendGoodbye, InboundGoodbye
<1>8. ASSUME NEW n \in 0 .. MaxCount, InboundNegotiated(n) PROVE Running'
  BY <1>2, <1>3, <1>8 DEF InboundNegotiated
<1> QED BY <1>3, <1>4, <1>5, <1>6, <1>7, <1>8 DEF HandlerNext

\* What ends the handler, ends poll too.
LEMMA StepEnded == BooksBalance /\ EndedWaits /\ [HandlerNext]_handlerVars => EndedWaits'
<1> SUFFICES ASSUME BooksBalance, EndedWaits, [HandlerNext]_handlerVars PROVE EndedWaits'
  OBVIOUS
<1>1. CASE UNCHANGED handlerVars
  BY <1>1 DEF EndedWaits, Running, handlerVars
<1>2. CASE HandlerNext /\ ~PollShutdownTimer /\ ~PollEnd
  BY <1>2, StillRuns DEF EndedWaits
<1>3. CASE PollShutdownTimer \/ PollEnd
  BY <1>3 DEF EndedWaits, PollShutdownTimer, PollEnd, MayInject
<1> QED BY <1>1, <1>2, <1>3

\* A handler with no slot taken opens no substream.
LEMMA NoSlotNoDial == ASSUME BooksBalance, dial_negotiated = 0 PROVE opening = {}
<1>1. opening \subseteq Requests /\ outbound_io_error_retries \in Nat
      /\ Cardinality(opening) + outbound_io_error_retries <= 0
  BY Limits DEF BooksBalance, HandlerTypeOK, SlotsCoverDials
<1>2. IsFiniteSet(opening)
  BY <1>1, Limits, FS_Subset
<1>3. Cardinality(opening) \in Nat
  BY <1>2, FS_CardinalityType
<1>4. Cardinality(opening) = 0
  BY <1>1, <1>3
<1> QED BY <1>2, <1>4, FS_EmptySet

\* Closing leaves nothing behind.
LEMMA StepClean ==
    BooksBalance /\ RequestInv /\ EndedWaits /\ CleanClose /\ [HandlerNext]_handlerVars
        => CleanClose'
<1> SUFFICES ASSUME BooksBalance, RequestInv, EndedWaits, CleanClose, [HandlerNext]_handlerVars
             PROVE  CleanClose'
  OBVIOUS
<1>1. CASE UNCHANGED handlerVars
  BY <1>1 DEF CleanClose, handlerVars, outVars, requestVars
<1>2. CASE HandlerNext /\ ~PollShutdownTimer /\ ~PollEnd
  BY <1>2, StillRuns DEF CleanClose, Running
<1>3. CASE PollShutdownTimer
  BY <1>3 DEF PollShutdownTimer, CleanClose
<1>4. CASE PollEnd
  <2>1. CASE ShutdownComplete
    <3>1. /\ UNCHANGED <<opening, sent, expected, reports>>
          /\ dial_queue = <<>> /\ events_out = <<>>
          /\ \A r \in Requests : outbound_substreams[r] = "None"
      BY <1>4, <2>1 DEF PollEnd, ShutdownComplete, outVars, requestVars
    <3>2. opening = {}
      BY <2>1, NoSlotNoDial DEF ShutdownComplete
    <3>3. \A r \in Requests : ~Queued(r) /\ ~Failed(r) /\ r \notin opening /\ ~Open(r)
      BY <3>1, <3>2 DEF Queued, Failed, Open, Holds
    <3>4. \A r \in sent : r \in Requests /\ (expected[r] > 0 => reports[r] # <<>>)
      BY <3>3 DEF RequestInv, LeftReported, BooksBalance, HandlerTypeOK
    <3> QED BY <3>1, <3>2, <3>4 DEF CleanClose
  <2>2. CASE ~ShutdownComplete
    <3>1. Running
      BY <1>4, NextRuns DEF HandlerNext
    <3> QED BY <1>4, <2>2, <3>1 DEF PollEnd, CleanClose, Running
  <2> QED BY <2>1, <2>2
<1> QED BY <1>1, <1>2, <1>3, <1>4

-----------------------------------------------------------------------------
(* The theorems.                                                           *)

\* The inductive invariant holds.
LEMMA HInvHolds == HandlerSpec => []HInv
<1>1. HandlerInit => HInv
  <2>1. HandlerInit => EndedWaits /\ CleanClose
    BY DEF HandlerInit, EndedWaits, CleanClose
  <2> QED BY <2>1, InitBooks, InitRequests, InitAsked, InitInbound DEF HInv
<1>2. HInv /\ [HandlerNext]_handlerVars => HInv'
  BY StepBooks, StepRequests, StepAsked, StepInbound, StepEnded, StepClean DEF HInv
<1> QED BY <1>1, <1>2, PTL DEF HandlerSpec

\* The four places of a request, counted.
LEMMA PlacesCounted ==
    ASSUME BooksBalance, NEW r \in Requests, OnePlace(r)
    PROVE  /\ Places(r) \in {0, 1}
           /\ Places(r) = 0 <=> ~Queued(r) /\ ~Failed(r) /\ r \notin opening /\ ~Open(r)
<1>1. dial_queue \in Seq(Requests) /\ events_out \in Seq(HandlerEvents)
  BY DEF BooksBalance, HandlerTypeOK
<1>2. /\ Times(r, dial_queue) = IF Queued(r) THEN 1 ELSE 0
      /\ Times(OutboundError(r), events_out) = IF Failed(r) THEN 1 ELSE 0
  BY <1>1, TimesOnce DEF OnePlace, Queued, Failed
<1>3. Cardinality({r} \cap opening) = IF r \in opening THEN 1 ELSE 0
  <2>1. {r} \cap opening = IF r \in opening THEN {r} ELSE {}
    OBVIOUS
  <2> QED BY <2>1, FS_Singleton, FS_EmptySet
<1>4. Cardinality({q \in {r} : outbound_substreams[q] # "None"}) = IF Open(r) THEN 1 ELSE 0
  <2>1. {q \in {r} : outbound_substreams[q] # "None"} = IF Open(r) THEN {r} ELSE {}
    BY DEF Open
  <2> QED BY <2>1, FS_Singleton, FS_EmptySet
<1> QED BY <1>2, <1>3, <1>4 DEF Places, OnePlace

\* Through retries, failed upgrades, expired timers and a shutdown with any number
\* of requests queued, no request is lost or duplicated.
THEOREM NothingEverLost == HandlerSpec => []NothingLost
<1>1. HInv => NothingLost
  <2> SUFFICES ASSUME HInv, NEW r \in Requests
               PROVE  /\ Places(r) <= 1
                      /\ Running /\ r \in sent /\ expected[r] > 0 /\ reports[r] = <<>>
                           => Places(r) = 1
    BY DEF NothingLost
  <2>1. BooksBalance /\ OnePlace(r) /\ LeftReported(r)
    BY DEF HInv, RequestInv
  <2>2. /\ Places(r) \in {0, 1}
        /\ Places(r) = 0 <=> ~Queued(r) /\ ~Failed(r) /\ r \notin opening /\ ~Open(r)
    BY <2>1, PlacesCounted
  <2> QED BY <2>1, <2>2 DEF LeftReported
<1> QED BY <1>1, HInvHolds, PTL

\* The application is told of no more responses than it asked for, of none after
\* an error, and of nothing after the end of the stream.
THEOREM ReportsAlwaysOrdered == HandlerSpec => []ReportsOrdered
<1>1. HInv => ReportsOrdered
  BY DEF HInv, RequestInv, ReportsByPlace, Ordered, ReportsOrdered
<1> QED BY <1>1, HInvHolds, PTL

\* No request of the peer is sent more chunks than it asked for.
THEOREM NeverExcessChunk == HandlerSpec => []NoExcessChunk
<1>1. HInv => NoExcessChunk
  BY DEF HInv, InboundInv, InboundOK, NoExcessChunk
<1> QED BY <1>1, HInvHolds, PTL

\* A handler that closes the connection by itself has no upgrade in progress and
\* has reported every request that expects a response.
THEOREM ClosesClean == HandlerSpec => []CleanClose
<1>1. HInv => CleanClose
  BY DEF HInv
<1> QED BY <1>1, HInvHolds, PTL

-----------------------------------------------------------------------------
(* The life of a request.                                                  *)

InPlace(r) == Queued(r) \/ Failed(r) \/ r \in opening \/ Open(r)

\* The places of Pending are those of the invariants.
LEMMA PendingIs ==
    \A r : /\ Pending(r) <=> InPlace(r)
           /\ Pending(r)' <=> InPlace(r)'
BY DEF Pending, InPlace, Queued, Failed, Open, Holds

\* After the step request q is at the same stage, though perhaps in another place.
SameStage(q) ==
    /\ (q \in sent)' <=> q \in sent
    /\ (outbound_substreams[q] = "Closing")' <=> outbound_substreams[q] = "Closing"
    /\ InPlace(q)' <=> InPlace(q)

\* A step that does not concern it is one.
LEMMA SameRequestStage == ASSUME NEW q, SameRequest(q) PROVE SameStage(q)
BY DEF SameRequest, SameStage, Kept, InPlace, Open

\* A step that keeps the stage of all requests but one.
LEMMA OneStage ==
    ASSUME NEW r \in Requests, \A q \in Requests : q # r => SameStage(q)
    PROVE  Stages' = [Stages EXCEPT ![r] = Stage(r)']
<1>1. \A q \in Requests : q # r => Stage(q)' = Stage(q)
  BY PendingIs DEF SameStage, Stage
<1> QED BY <1>1 DEF Stages

\* A step that keeps the stage of all requests and tells nothing is a stutter.
LEMMA NoStage ==
    ASSUME \A q \in Requests : SameStage(q), UNCHANGED <<expected, reports>>
    PROVE  UNCHANGED Life!lifeVars
<1>1. \A q \in Requests : Stage(q)' = Stage(q)
  BY PendingIs DEF SameStage, Stage
<1> QED BY <1>1 DEF Stages, Life!lifeVars

LifeStep == [Life!LifeNext]_(Life!lifeVars)

\* Each action of the abstract specification changes what is known of its request.
LEMMA StepsOfLife ==
    ASSUME HInv, NEW r \in Requests,
           \/ Life!Ask(r) \/ Life!Respond(r) \/ Life!Refuse(r) \/ Life!Sent(r)
           \/ Life!Fail(r) \/ Life!EndEarly(r) \/ Life!End(r)
    PROVE  LifeStep
<1>1. DOMAIN Stages = Requests /\ DOMAIN reports = Requests
  BY DEF Stages, HInv, BooksBalance, HandlerTypeOK
<1>2. CASE Life!Respond(r)
  <2>1. reports' = [reports EXCEPT ![r] = Append(@, "Response")]
    BY <1>2 DEF Life!Respond, Life!Tell
  <2>2. reports'[r] = Append(reports[r], "Response")
    BY <1>1, <2>1
  <2>3. reports'[r] # reports[r]
    <3>1. reports[r] \in Seq({"Response", "Error", "EndOfStream"})
      BY DEF HInv, BooksBalance, HandlerTypeOK
    <3>2. Len(Append(reports[r], "Response")) = Len(reports[r]) + 1 /\ Len(reports[r]) \in Nat
      BY <3>1, AppendProperties, LenProperties
    <3> QED BY <2>2, <3>2
  <2>4. Life!Changes(r)
    BY <2>3 DEF Life!Changes
  <2> QED BY <1>2, <2>4 DEF LifeStep, Life!LifeNext
<1>3. CASE ~Life!Respond(r)
  <2>1. Stages'[r] # Stages[r]
    BY <1>1, <1>3 DEF Life!Ask, Life!Refuse, Life!Sent, Life!Fail, Life!EndEarly, Life!End,
                      Life!Becomes
  <2>2. Life!Changes(r)
    BY <2>1 DEF Life!Changes
  <2> QED BY <2>2 DEF LifeStep, Life!LifeNext
<1> QED BY <1>2, <1>3

\* The application makes a request.
LEMMA SendRequestLife ==
    ASSUME HInv, NEW r \in Requests, SendRequest(r)
    PROVE  LifeStep
<1>1. QueueTypes /\ r \notin sent /\ Enqueue(r) /\ OnePlace(r)
  BY TypesAreQueues DEF HInv, BooksBalance, RequestInv, SendRequest
<1>2. /\ \A q : q # r => Kept(q)
      /\ Queued(r)' \/ Failed(r)'
  BY <1>1, EnqueueEffect
<1>3. \A q \in Requests : q # r => SameStage(q)
  <2>1. \A q \in Requests : q # r => SameRequest(q)
    BY <1>2 DEF SendRequest, SameRequest, HInv, BooksBalance, HandlerTypeOK
  <2> QED BY <2>1, SameRequestStage
<1>4. Stage(r) = "New" /\ Stage(r)' = "Open"
  <2>1. outbound_substreams'[r] = "None" /\ r \in sent'
    BY <1>1 DEF OnePlace, Open, SendRequest
  <2> QED BY <1>1, <1>2, <2>1, PendingIs DEF Stage, InPlace
<1>5. Life!Ask(r)
  <2>1. Stages[r] = "New" /\ Stages' = [Stages EXCEPT ![r] = "Open"]
    BY <1>3, <1>4, OneStage DEF Stages
  <2>2. PICK n \in ExpectedResponses(r) : expected' = [expected EXCEPT ![r] = n]
    BY DEF SendRequest
  <2>3. n \in 0 .. MaxCount /\ (n > 1 => r \in BlockRequests)
    BY Limits DEF ExpectedResponses
  <2> QED BY <2>1, <2>2, <2>3 DEF Life!Ask, Life!Becomes, SendRequest
<1> QED BY <1>5, StepsOfLife

\* The application says goodbye, once: the queued requests wait to fail.
LEMMA SendGoodbyeLife == ASSUME HInv, SendGoodbye PROVE LifeStep
<1>1. /\ QueueTypes /\ Goodbye \in Requests
      /\ UNCHANGED <<opening, outbound_substreams, outbound_remaining, expected, reports>>
  BY TypesAreQueues DEF HInv, BooksBalance, SendGoodbye, Requests
<1>2. /\ <<Goodbye>> \in Seq(Requests) /\ <<>> \in Seq(HandlerEvents)
      /\ \A r : ~Holds(OutboundError(r), <<>>)
  BY <1>1, OneEvent
<1>3. CASE state # "Active"
  <2>1. (\A q : Kept(q)) /\ sent' = sent
    BY <1>1, <1>2, <1>3, ShutdownEffect DEF SendGoodbye
  <2>2. \A q \in Requests : SameStage(q)
    BY <1>1, <2>1 DEF SameStage, Kept, InPlace, Open
  <2> QED BY <1>1, <2>2, NoStage DEF LifeStep
<1>4. CASE state = "Active"
  <2>1. /\ dial_queue' = <<Goodbye>> /\ sent' = sent \cup {Goodbye}
        /\ \A q : Failed(q)' <=> Failed(q) \/ Queued(q)
    BY <1>1, <1>2, <1>4, ShutdownEffect DEF SendGoodbye
  <2>2. \A q : Queued(q)' <=> q = Goodbye
    <3>1. \A q : Holds(q, <<Goodbye>>) <=> q = Goodbye
      BY <1>1, ShortHolds
    <3> QED BY <2>1, <3>1 DEF Queued
  <2>3. \A q \in Requests : q # Goodbye => SameStage(q)
    BY <1>1, <2>1, <2>2 DEF SameStage, InPlace, Open
  <2>4. Goodbye \notin sent /\ OnePlace(Goodbye) /\ expected[Goodbye] = 0
    BY <1>1, <1>4 DEF HInv, RequestInv, GoodbyeOnce, AskedInv, AskedOK
  <2>5. Stage(Goodbye) = "New" /\ Stage(Goodbye)' = "Open"
    <3>1. outbound_substreams'[Goodbye] = "None" /\ Goodbye \in sent'
      BY <1>1, <2>1, <2>4 DEF OnePlace, Open
    <3> QED BY <2>2, <2>4, <3>1, PendingIs DEF Stage, InPlace
  <2>6. Stages[Goodbye] = "New" /\ Stages' = [Stages EXCEPT ![Goodbye] = "Open"]
    BY <1>1, <2>3, <2>5, OneStage DEF Stages
  <2>7. expected' = [expected EXCEPT ![Goodbye] = 0] /\ 0 \in 0 .. MaxCount
    BY <1>1, <2>4, Limits DEF HInv, BooksBalance, HandlerTypeOK
  <2>8. \E n \in 0 .. MaxCount :
          /\ n > 1 => Goodbye \in BlockRequests
          /\ expected' = [expected EXCEPT ![Goodbye] = n]
    <3>1. ~(0 > 1)
      OBVIOUS
    <3>2. 0 \in 0 .. MaxCount
      BY <2>7
    <3> WITNESS 0 \in 0 .. MaxCount
    <3> QED BY <2>7, <3>1
  <2>9. Life!Ask(Goodbye)
    BY <1>1, <2>6, <2>8 DEF Life!Ask, Life!Becomes
  <2> QED BY <1>1, <2>9, StepsOfLife
<1> QED BY <1>3, <1>4

\* An upgrade succeeds; a request without responses is over.
LEMMA OutboundNegotiatedLife ==
    ASSUME HInv, NEW r \in Requests, OutboundNegotiated(r)
    PROVE  LifeStep
<1>1. /\ r \in opening /\ r \notin opening' /\ OnePlace(r)
      /\ UNCHANGED <<events_out, dial_queue, sent, expected, reports>>
  BY DEF HInv, RequestInv, OutboundNegotiated, requestVars
<1>2. \A q : Kept(q)
  BY <1>1, QueuesKept
<1>3. \A q \in Requests : q # r => SameStage(q)
  <2>1. \A q \in Requests : q # r => SameRequest(q)
    BY <1>1, <1>2 DEF OutboundNegotiated, SameRequest, HInv, BooksBalance, HandlerTypeOK
  <2> QED BY <2>1, SameRequestStage
<1>4. ~Queued(r)' /\ ~Failed(r)' /\ outbound_substreams[r] = "None" /\ r \in sent
  BY <1>1, <1>2 DEF OnePlace, Open, Kept
<1>5. CASE expected[r] > 0
  <2>1. outbound_substreams'[r] = "RequestPendingResponse"
    BY <1>5 DEF OutboundNegotiated, HInv, BooksBalance, HandlerTypeOK
  <2>2. SameStage(r)
    BY <1>1, <1>4, <2>1 DEF SameStage, InPlace, Open
  <2> QED BY <1>1, <1>3, <2>2, NoStage DEF LifeStep
<1>6. CASE expected[r] = 0
  <2>1. outbound_substreams'[r] = "None"
    BY <1>4, <1>6 DEF OutboundNegotiated
  <2>2. Stage(r) = "Open" /\ Stage(r)' = "Over"
    BY <1>1, <1>4, <2>1, PendingIs DEF Stage, InPlace, Open
  <2>3. Stages[r] = "Open" /\ Stages' = [Stages EXCEPT ![r] = "Over"]
    BY <1>3, <2>2, OneStage DEF Stages
  <2>4. Life!Sent(r)
    BY <1>1, <1>6, <2>3 DEF Life!Sent, Life!Becomes
  <2> QED BY <2>4, StepsOfLife
<1> QED BY <1>5, <1>6, RequestTypes DEF HInv

\* An upgrade fails: the request waits to be tried again or to be reported.
LEMMA DialUpgradeErrorLife ==
    ASSUME HInv, NEW r \in Requests, NEW io \in BOOLEAN, DialUpgradeError(r, io)
    PROVE  LifeStep
<1>1. /\ QueueTypes /\ r \in opening
      /\ UNCHANGED <<sent, expected, reports, outbound_substreams, outbound_remaining>>
  BY TypesAreQueues DEF HInv, BooksBalance, DialUpgradeError, requestVars
<1>2. /\ \A q : q # r => Kept(q)
      /\ Queued(r)' \/ Failed(r)'
  <2>1. CASE Enqueue(r)
    BY <1>1, <2>1, EnqueueEffect
  <2>2. CASE events_out' = Append(events_out, OutboundError(r)) /\ dial_queue' = dial_queue
    BY <1>1, <2>2, FailEffect
  <2> QED BY <2>1, <2>2 DEF DialUpgradeError
<1>3. \A q \in Requests : q # r => SameStage(q)
  <2>1. \A q \in Requests : q # r => SameRequest(q)
    BY <1>1, <1>2 DEF DialUpgradeError, SameRequest
  <2> QED BY <2>1, SameRequestStage
<1>4. SameStage(r)
  BY <1>1, <1>2 DEF SameStage, InPlace
<1> QED BY <1>1, <1>3, <1>4, NoStage DEF LifeStep

\* A step that leaves the requests and what the queues hold alone.
LEMMA AloneLife == ASSUME UNCHANGED aloneVars, \A q : Kept(q) PROVE LifeStep
<1>1. \A q \in Requests : SameStage(q)
  BY DEF SameStage, Kept, InPlace, Open, aloneVars, requestVars
<1> QED BY <1>1, NoStage DEF LifeStep, aloneVars, requestVars

\* A shutdown without a goodbye: the queued requests wait to fail.
LEMMA SilentShutdownLife ==
    ASSUME HInv, state = "Active",
           NEW first \in Seq(HandlerEvents), NEW then \in Seq(HandlerEvents),
           \A r : ~Holds(OutboundError(r), first) /\ ~Holds(OutboundError(r), then),
           Shutdown(<<>>, first, then), UNCHANGED aloneVars
    PROVE  LifeStep
<1>1. QueueTypes /\ <<>> \in Seq(Requests)
  BY TypesAreQueues DEF HInv, BooksBalance
<1>2. dial_queue' = <<>> /\ \A q : Failed(q)' <=> Failed(q) \/ Queued(q)
  BY <1>1, ShutdownEffect
<1>3. \A q : ~Queued(q)'
  BY <1>2 DEF Queued, Holds
<1>4. \A q \in Requests : SameStage(q)
  BY <1>2, <1>3 DEF SameStage, InPlace, Open, aloneVars, requestVars
<1> QED BY <1>4, NoStage DEF LifeStep, aloneVars, requestVars

\* The peer's requests say nothing of ours, though they may shut the handler down.
LEMMA InboundRequestLife ==
    ASSUME HInv, (\E n \in 0 .. MaxCount : InboundNegotiated(n)) \/ InboundGoodbye
    PROVE  LifeStep
<1> DEFINE id == current_inbound_substream_id
<1>1. QueueTypes /\ id \in Nat /\ state = "Active" /\ UNCHANGED aloneVars
  <2>1. QueueTypes
    BY TypesAreQueues DEF HInv, BooksBalance
  <2>2. id \in 0 .. MaxInboundRequests
    BY DEF HInv, BooksBalance, HandlerTypeOK
  <2>3. id \in Nat
    BY <2>2, Limits
  <2>4. state = "Active" /\ UNCHANGED aloneVars
    BY DEF InboundNegotiated, InboundGoodbye, aloneVars
  <2> QED BY <2>1, <2>3, <2>4
<1>2. CASE events_out' = Append(events_out, <<"Request", id>>) /\ UNCHANGED <<state, dial_queue>>
  <2>1. \A q : Kept(q)
    BY <1>1, <1>2, OtherEventKept
  <2> QED BY <1>1, <2>1, AloneLife
<1>3. CASE Shutdown(<<>>, <<<<"InboundError", id>>>>, <<>>)
  BY <1>1, <1>3, OneEvent, SilentShutdownLife
<1>4. CASE Shutdown(<<>>, <<>>, <<<<"Request", id>>>>)
  BY <1>1, <1>4, OneEvent, SilentShutdownLife
<1> QED BY <1>2, <1>3, <1>4 DEF InboundNegotiated, InboundGoodbye

\* Neither does what happens on inbound substreams.
LEMMA InboundLife ==
    ASSUME HInv, NEW id \in InboundIds,
           \/ \E response \in Responses : SendResponse(id, response)
           \/ ExpireInbound(id) \/ StartSending(id) \/ SendingDone(id) \/ SendingFails(id)
    PROVE  LifeStep
<1>1. QueueTypes /\ id \in Nat
  BY TypesAreQueues, Limits DEF HInv, BooksBalance
<1>2. UNCHANGED <<aloneVars, dial_queue>>
  BY DEF SendResponse, ExpireInbound, StartSending, SendingDone, SendingFails, aloneVars,
         outVars, requestVars
<1>3. events_out' = Append(events_out, <<"InboundError", id>>) \/ events_out' = events_out
  BY DEF SendResponse, ExpireInbound, StartSending, SendingDone, SendingFails
<1>4. \A q : Kept(q)
  BY <1>1, <1>2, <1>3, OtherEventKept, QueuesKept
<1> QED BY <1>2, <1>4, AloneLife

\* The failure that is first in the queue is reported, and its request is over.
LEMMA PollEventsOutLife == ASSUME HInv, PollEventsOut PROVE LifeStep
<1>1. /\ QueueTypes /\ events_out # <<>> /\ events_out' = Tail(events_out)
      /\ UNCHANGED <<dial_queue, opening, outbound_substreams, outbound_remaining,
                     expected, sent>>
  BY TypesAreQueues DEF HInv, BooksBalance, PollEventsOut, outVars, requestVars
<1>2. \A x : /\ AtMostOnce(x, events_out) => AtMostOnce(x, Tail(events_out))
             /\ AtMostOnce(x, events_out)
                  => (Holds(x, Tail(events_out)) <=> Holds(x, events_out) /\ x # Head(events_out))
             /\ Holds(Head(events_out), events_out)
  BY <1>1, TailHolds DEF QueueTypes
<1>3. \A q \in Requests : AtMostOnce(OutboundError(q), events_out)
  BY DEF HInv, RequestInv, OnePlace
<1>4. \A q \in Requests : OutboundError(q) # Head(events_out) => SameStage(q)
  BY <1>1, <1>2, <1>3 DEF SameStage, InPlace, Open, Queued, Failed
<1>5. CASE Head(events_out)[1] # "OutboundError"
  <2>1. \A q \in Requests : SameStage(q)
    BY <1>1, <1>4, <1>5, HeadEvent
  <2>2. UNCHANGED <<expected, reports>>
    BY <1>1, <1>5 DEF PollEventsOut
  <2> QED BY <2>1, <2>2, NoStage DEF LifeStep
<1>6. CASE Head(events_out)[1] = "OutboundError"
  <2>1. PICK r \in Requests : Head(events_out) = OutboundError(r) /\ Report(r, "Error")
    BY <1>1, <1>6, HeadEvent DEF PollEventsOut
  <2>2. Failed(r) /\ ~Failed(r)' /\ (Queued(r)' <=> Queued(r)) /\ OnePlace(r)
    BY <1>1, <1>2, <1>3, <2>1 DEF Failed, Queued, HInv, RequestInv
  <2>3. outbound_substreams[r] = "None" /\ r \in sent /\ ~InPlace(r)'
    BY <1>1, <2>2 DEF OnePlace, Open, InPlace
  <2>4. Stage(r) = "Open" /\ Stage(r)' = "Over"
    BY <1>1, <2>2, <2>3, PendingIs DEF Stage, InPlace
  <2>5. Stages[r] = "Open" /\ Stages' = [Stages EXCEPT ![r] = "Over"]
    BY <1>4, <2>1, <2>4, EventTypes, OneStage DEF Stages
  <2>6. Life!Fail(r)
    BY <1>1, <2>1, <2>5 DEF Life!Fail, Life!Becomes, Life!Tell, Report
  <2> QED BY <2>6, StepsOfLife
<1> QED BY <1>5, <1>6

\* A substream is gone: its request is over.
LEMMA RemovedStage ==
    ASSUME HInv, NEW r \in Requests, Open(r), RemoveOutbound(r),
           UNCHANGED <<events_out, requestVars>>
    PROVE  /\ Stages[r] = IF outbound_substreams[r] = "Closing" THEN "Ending" ELSE "Open"
           /\ Stages' = [Stages EXCEPT ![r] = "Over"]
           /\ UNCHANGED expected
<1>1. /\ UNCHANGED <<dial_queue, opening, outbound_remaining, expected, sent>>
      /\ outbound_substreams'[r] = "None"
      /\ \A q \in Requests : q # r => outbound_substreams'[q] = outbound_substreams[q]
  BY DEF RemoveOutbound, requestVars, HInv, BooksBalance, HandlerTypeOK
<1>2. \A q : Kept(q)
  BY <1>1, QueuesKept
<1>3. \A q \in Requests : q # r => SameStage(q)
  BY <1>1, <1>2 DEF SameStage, Kept, InPlace, Open
<1>4. OnePlace(r)
  BY DEF HInv, RequestInv
<1>5. r \in sent /\ ~InPlace(r)'
  BY <1>1, <1>2, <1>4 DEF OnePlace, InPlace, Open, Kept
<1>6. Stage(r)' = "Over"
  BY <1>1, <1>5, PendingIs DEF Stage
<1>7. Stage(r) = IF outbound_substreams[r] = "Closing" THEN "Ending" ELSE "Open"
  BY <1>5, PendingIs DEF Stage, InPlace
<1> QED BY <1>1, <1>3, <1>6, <1>7, OneStage DEF Stages

\* A request ends: by its timer, by the peer, by a failure or in good order.
LEMMA OutboundEndsLife ==
    ASSUME HInv, NEW r \in Requests,
           ExpireOutbound(r) \/ StreamEnds(r) \/ StreamFails(r) \/ SubstreamCloses(r)
    PROVE  LifeStep
<1>1. /\ Open(r) /\ RemoveOutbound(r)
      /\ UNCHANGED <<events_out, requestVars>>
  BY DEF ExpireOutbound, StreamEnds, StreamFails, SubstreamCloses, Open, HInv, BooksBalance,
         TimersMatch
<1>2. /\ Stages[r] = IF outbound_substreams[r] = "Closing" THEN "Ending" ELSE "Open"
      /\ Stages' = [Stages EXCEPT ![r] = "Over"]
      /\ UNCHANGED expected
  BY <1>1, RemovedStage
<1>3. CASE Report(r, "Error")
  <2>1. Life!Fail(r)
    BY <1>2, <1>3 DEF Life!Fail, Life!Becomes, Life!Tell, Report
  <2> QED BY <2>1, StepsOfLife
<1>4. CASE StreamEnds(r) /\ expected[r] > 1
  <2>1. outbound_substreams[r] = "RequestPendingResponse" /\ Report(r, "EndOfStream")
    BY <1>4 DEF StreamEnds
  <2>2. Life!EndEarly(r)
    BY <1>2, <1>4, <2>1 DEF Life!EndEarly, Life!Becomes, Life!Tell, Report
  <2> QED BY <2>2, StepsOfLife
<1>5. CASE SubstreamCloses(r)
  <2>1. /\ outbound_substreams[r] = "Closing"
        /\ IF r \in BlockRequests THEN Report(r, "EndOfStream") ELSE UNCHANGED reports
    BY <1>5 DEF SubstreamCloses
  <2>2. Life!End(r)
    BY <1>2, <2>1 DEF Life!End, Life!Becomes, Life!Tell, Report
  <2> QED BY <2>2, StepsOfLife
<1> QED BY <1>3, <1>4, <1>5 DEF ExpireOutbound, StreamEnds, StreamFails

\* A sequence of responses only has as many as it is long.
LEMMA TimesAll ==
    ASSUME NEW S, NEW s \in Seq(S), NEW x, \A i \in DOMAIN s : s[i] = x
    PROVE  Times(x, s) = Len(s)
<1>1. {i \in DOMAIN s : s[i] = x} = 1 .. Len(s) /\ Len(s) \in Nat
  BY LenProperties
<1>2. Cardinality(1 .. Len(s)) = Len(s)
  <2>1. PICK n \in Nat : n = Len(s)
    BY <1>1
  <2>2. Cardinality(1 .. n) = IF 1 > n THEN 0 ELSE n - 1 + 1
    BY FS_Interval
  <2> QED BY <2>1, <2>2
<1> QED BY <1>1, <1>2 DEF Times

\* A response is the next one; the last one that was asked for closes the substream,
\* and so does an error.
LEMMA ReceiveResponseLife ==
    ASSUME HInv, NEW r \in Requests, NEW what \in {"Response", "Error"},
           ReceiveResponse(r, what)
    PROVE  LifeStep
<1>1. /\ UNCHANGED <<events_out, dial_queue, opening, expected, sent>>
      /\ outbound_substreams[r] = "RequestPendingResponse"
      /\ \A q \in Requests : q # r => outbound_substreams'[q] = outbound_substreams[q]
      /\ reports' = [reports EXCEPT ![r] = Append(@, what)]
  BY DEF ReceiveResponse, Report, requestVars, HInv, BooksBalance, HandlerTypeOK
<1>2. \A q : Kept(q)
  BY <1>1, QueuesKept
<1>3. \A q \in Requests : q # r => SameStage(q)
  BY <1>1, <1>2 DEF SameStage, Kept, InPlace, Open
<1>4. OnePlace(r) /\ ReportsByPlace(r)
  BY DEF HInv, RequestInv
<1>5. r \in sent /\ Stage(r) = "Open" /\ Stages[r] = "Open"
  BY <1>1, <1>4, PendingIs DEF OnePlace, Open, Stage, Stages, InPlace
<1>6. /\ Len(reports[r]) \in Nat /\ outbound_remaining[r] \in Nat /\ expected[r] \in Nat
      /\ outbound_remaining[r] >= 1
      /\ Len(reports[r]) + outbound_remaining[r] = expected[r]
  <2>1. /\ reports[r] \in Seq({"Response", "Error", "EndOfStream"})
        /\ outbound_remaining[r] \in Nat /\ expected[r] \in Nat
    BY RequestTypes DEF HInv
  <2>2. /\ \A i \in DOMAIN reports[r] : reports[r][i] = "Response"
        /\ outbound_remaining[r] >= 1
        /\ Times("Response", reports[r]) + outbound_remaining[r] = expected[r]
    BY <1>1, <1>4 DEF ReportsByPlace
  <2>3. Times("Response", reports[r]) = Len(reports[r])
    BY <2>1, <2>2, TimesAll
  <2> QED BY <2>1, <2>2, <2>3, LenProperties
<1>7. CASE LastResponse(r, what)
  <2>1. outbound_substreams'[r] = "Closing"
    BY <1>7 DEF ReceiveResponse, HInv, BooksBalance, HandlerTypeOK
  <2>2. Stage(r)' = "Ending"
    BY <1>1, <1>5, <2>1 DEF Stage
  <2>3. Stages' = [Stages EXCEPT ![r] = "Ending"]
    BY <1>3, <2>2, OneStage
  <2>4. CASE what = "Error"
    <3>1. expected[r] > 0
      BY <1>6
    <3>2. Life!Refuse(r)
      BY <1>1, <1>5, <2>3, <2>4, <3>1 DEF Life!Refuse, Life!Becomes, Life!Tell
    <3> QED BY <3>2, StepsOfLife
  <2>5. CASE what = "Response"
    <3>1. Len(reports[r]) < expected[r] /\ Len(reports[r]) + 1 = expected[r]
      BY <1>6, <1>7, <2>5 DEF LastResponse
    <3>2. Life!Respond(r)
      BY <1>1, <1>5, <2>3, <2>5, <3>1 DEF Life!Respond, Life!Becomes, Life!Tell
    <3> QED BY <3>2, StepsOfLife
  <2> QED BY <2>4, <2>5
<1>8. CASE ~LastResponse(r, what)
  <2>1. what = "Response" /\ outbound_remaining[r] > 1
    BY <1>6, <1>8 DEF LastResponse
  <2>2. Len(reports[r]) < expected[r] /\ Len(reports[r]) + 1 # expected[r]
    BY <1>6, <2>1
  <2>3. outbound_substreams' = outbound_substreams
    BY <1>8 DEF ReceiveResponse
  <2>4. Stage(r)' = "Open"
    BY <1>1, <1>5, <2>3, PendingIs DEF Stage, InPlace, Open
  <2>5. Stages' = [Stages EXCEPT ![r] = "Open"]
    BY <1>3, <2>4, OneStage
  <2>6. Life!Respond(r)
    BY <1>1, <1>5, <2>1, <2>2, <2>5 DEF Life!Respond, Life!Becomes, Life!Tell
  <2> QED BY <2>6, StepsOfLife
<1> QED BY <1>7, <1>8

\* The next request is dialed.
LEMMA PollDialQueueLife == ASSUME HInv, PollDialQueue PROVE LifeStep
<1>0. QueueTypes /\ dial_queue # <<>>
  BY TypesAreQueues DEF HInv, BooksBalance, PollDialQueue, MayDial
<1> PICK r \in Requests : r = Head(dial_queue)
  BY <1>0, TailHolds DEF QueueTypes
<1>1. /\ dial_queue' = Tail(dial_queue)
      /\ opening' = opening \cup {r}
      /\ UNCHANGED <<events_out, outbound_substreams, expected, sent, reports>>
  BY DEF PollDialQueue, requestVars
<1>2. Queued(r) /\ \A q \in Requests : Holds(q, Tail(dial_queue)) <=> Holds(q, dial_queue) /\ q # r
  <2>1. \A q \in Requests : AtMostOnce(q, dial_queue)
    BY DEF HInv, RequestInv, OnePlace
  <2> QED BY <1>0, <2>1, TailHolds DEF QueueTypes, Queued
<1>3. \A q \in Requests : SameStage(q)
  BY <1>1, <1>2 DEF SameStage, InPlace, Open, Queued, Failed
<1> QED BY <1>1, <1>3, NoStage DEF LifeStep

\* Every step is one of the abstract specification or a stutter.
LEMMA StepLife == HInv /\ [HandlerNext]_handlerVars => LifeStep
<1> SUFFICES ASSUME HInv, [HandlerNext]_handlerVars PROVE LifeStep
  OBVIOUS
<1>1. ASSUME NEW r \in Requests, SendRequest(r) PROVE LifeStep
  BY <1>1, SendRequestLife
<1>2. ASSUME NEW r \in Requests, OutboundNegotiated(r) PROVE LifeStep
  BY <1>2, OutboundNegotiatedLife
<1>3. ASSUME NEW r \in Requests, NEW io \in BOOLEAN, DialUpgradeError(r, io) PROVE LifeStep
  BY <1>3, DialUpgradeErrorLife
<1>4. ASSUME NEW r \in Requests,
             ExpireOutbound(r) \/ StreamEnds(r) \/ StreamFails(r) \/ SubstreamCloses(r)
      PROVE  LifeStep
  BY <1>4, OutboundEndsLife
<1>5. ASSUME NEW r \in Requests, NEW what \in {"Response", "Error"}, ReceiveResponse(r, what)
      PROVE  LifeStep
  BY <1>5, ReceiveResponseLife
<1>6. CASE SendGoodbye
  BY <1>6, SendGoodbyeLife
<1>7. CASE (\E n \in 0 .. MaxCount : InboundNegotiated(n)) \/ InboundGoodbye
  BY <1>7, InboundRequestLife
<1>8. ASSUME NEW id \in InboundIds,
             \/ \E response \in Responses : SendResponse(id, response)
             \/ ExpireInbound(id) \/ StartSending(id) \/ SendingDone(id) \/ SendingFails(id)
      PROVE  LifeStep
  BY <1>8, InboundLife
<1>9. CASE PollEventsOut
  BY <1>9, PollEventsOutLife
<1>10. CASE PollMoves
  <2>1. UNCHANGED <<events_out, dial_queue, aloneVars>>
    BY <1>10, PollMovesEffect DEF outVars, aloneVars
  <2> QED BY <2>1, QueuesKept, AloneLife
<1>11. CASE PollDialQueue
  BY <1>11, PollDialQueueLife
<1>12. CASE UNCHANGED handlerVars
  <2>1. UNCHANGED <<events_out, dial_queue, aloneVars>>
    BY <1>12 DEF handlerVars, outVars, aloneVars
  <2> QED BY <2>1, QueuesKept, AloneLife
<1> QED BY <1>1, <1>2, <1>3, <1>4, <1>5, <1>6, <1>7, <1>8, <1>9, <1>10, <1>11, <1>12
        DEF HandlerNext, PollMoves

\* The handler with its queues, slots, retries, timers and shutdown implements the
\* life of a request: the application sees what RequestLife promises.
THEOREM HandlerImplementsLife == HandlerSpec => ImplementsRequestLife
<1>1. HandlerInit => Life!LifeInit
  BY DEF HandlerInit, Life!LifeInit, Stages, Stage
<1>2. HInv /\ [HandlerNext]_handlerVars => [Life!LifeNext]_(Life!lifeVars)
  BY StepLife DEF LifeStep
<1> QED BY <1>1, <1>2, HInvHolds, PTL DEF HandlerSpec, ImplementsRequestLife, Life!LifeSpec

\* A stream that is over has been told to be: its last report is no response.
StreamEnded(r) ==
    r \in BlockRequests /\ Stages[r] = "Over" /\ expected[r] > 0 =>
        reports[r] # <<>> /\ reports[r][Len(reports[r])] # "Response"

\* A report that is appended is the last one.
LEMMA LastAppended ==
    ASSUME HInv, NEW r \in Requests, NEW what \in {"Response", "Error", "EndOfStream"},
           reports' = [reports EXCEPT ![r] = Append(@, what)]
    PROVE  reports'[r] # <<>> /\ reports'[r][Len(reports'[r])] = what
<1>1. PICK s \in Seq({"Response", "Error", "EndOfStream"}) : s = reports[r]
  BY RequestTypes DEF HInv
<1>2. reports'[r] = Append(s, what)
  BY <1>1 DEF HInv, BooksBalance, HandlerTypeOK
<1>3. /\ Len(Append(s, what)) = Len(s) + 1 /\ Append(s, what)[Len(s) + 1] = what
      /\ Append(s, what) # <<>>
  BY AppendProperties
<1> QED BY <1>2, <1>3

\* The steps of the abstract specification keep it.
LEMMA StepEndedStreams ==
    ASSUME HInv, \A r \in Requests : StreamEnded(r), LifeStep
    PROVE  \A r \in Requests : StreamEnded(r)'
<1> SUFFICES ASSUME NEW r \in Requests PROVE StreamEnded(r)'
  OBVIOUS
<1>1. /\ StreamEnded(r) /\ DOMAIN Stages = Requests
      /\ DOMAIN reports = Requests /\ DOMAIN expected = Requests
  BY DEF Stages, HInv, BooksBalance, HandlerTypeOK
<1>2. CASE UNCHANGED Life!lifeVars
  BY <1>1, <1>2 DEF StreamEnded, Life!lifeVars
<1>3. ASSUME NEW q \in Requests, NEW stage, Life!Becomes(q, stage), r # q,
             \/ UNCHANGED reports
             \/ \E what \in {"Response", "Error", "EndOfStream"} : Life!Tell(q, what),
             \/ UNCHANGED expected
             \/ \E n \in 0 .. MaxCount : expected' = [expected EXCEPT ![q] = n]
      PROVE  StreamEnded(r)'
  <2>1. Stages'[r] = Stages[r] /\ reports'[r] = reports[r] /\ expected'[r] = expected[r]
    BY <1>1, <1>3 DEF Life!Becomes, Life!Tell
  <2> QED BY <1>1, <2>1 DEF StreamEnded
<1>4. ASSUME NEW stage \in {"Open", "Ending"}, Life!Becomes(r, stage) PROVE StreamEnded(r)'
  BY <1>1, <1>4 DEF Life!Becomes, StreamEnded
<1>5. ASSUME NEW what \in {"Error", "EndOfStream"}, Life!Tell(r, what) PROVE StreamEnded(r)'
  BY <1>5, LastAppended DEF Life!Tell, StreamEnded
<1>6. ASSUME NEW q \in Requests, Life!Ask(q) PROVE StreamEnded(r)'
  BY <1>3, <1>4, <1>6 DEF Life!Ask
<1>7. ASSUME NEW q \in Requests, Life!Respond(q) PROVE StreamEnded(r)'
  BY <1>3, <1>4, <1>7 DEF Life!Respond
<1>8. ASSUME NEW q \in Requests, Life!Refuse(q) PROVE StreamEnded(r)'
  BY <1>3, <1>4, <1>8 DEF Life!Refuse
<1>9. ASSUME NEW q \in Requests, Life!Sent(q) PROVE StreamEnded(r)'
  <2>1. CASE r = q
    <3>1. ~(expected'[r] > 0)
      BY <1>9, <2>1 DEF Life!Sent
    <3> QED BY <3>1 DEF StreamEnded
  <2> QED BY <1>3, <1>9, <2>1 DEF Life!Sent
<1>10. ASSUME NEW q \in Requests, Life!Fail(q) PROVE StreamEnded(r)'
  BY <1>3, <1>5, <1>10 DEF Life!Fail
<1>11. ASSUME NEW q \in Requests, Life!EndEarly(q) PROVE StreamEnded(r)'
  BY <1>3, <1>5, <1>11 DEF Life!EndEarly
<1>12. ASSUME NEW q \in Requests, Life!End(q) PROVE StreamEnded(r)'
  <2>1. CASE r = q
    <3>1. r \in BlockRequests => Life!Tell(r, "EndOfStream")
      BY <1>12, <2>1 DEF Life!End
    <3> QED BY <1>5, <3>1 DEF StreamEnded
  <2> QED BY <1>3, <1>12, <2>1 DEF Life!End
<1> QED BY <1>2, <1>6, <1>7, <1>8, <1>9, <1>10, <1>11, <1>12 DEF LifeStep, Life!LifeNext

\* Whatever became of a request for blocks, the application that waits for its end
\* is told: the last report of it is an error or the end of the stream.
THEOREM StreamsAlwaysEnded == HandlerSpec => [](\A r \in Requests : StreamEnded(r))
<1>1. HandlerInit => \A r \in Requests : StreamEnded(r)
  BY DEF HandlerInit, StreamEnded
<1>2. /\ HInv /\ (\A r \in Requests : StreamEnded(r)) /\ [HandlerNext]_handlerVars
      => (\A r \in Requests : StreamEnded(r))'
  BY StepLife, StepEndedStreams
<1> QED BY <1>1, <1>2, HInvHolds, PTL DEF HandlerSpec
=============================================================================
