----------------------------- MODULE RpcHandler -----------------------------
(***************************************************************************)
(* The RPC handler of one connection (rpc/handler.rs): outbound requests    *)
(* from the application to the peer and back, inbound requests of the peer, *)
(* timeouts, retries and shutdown.                                          *)
(*                                                                          *)
(* The task of the connection either injects something into the handler or  *)
(* polls it.  poll is one sequential function that visits its phases in a   *)
(* fixed order and returns at the first event it produces; `phase` is where *)
(* it is, and nothing is injected before it returns to "Waiting".           *)
(*                                                                          *)
(* A substream is named by its request: a request opens at most one.  The   *)
(* swarm drops the handler when poll returns Close, so the code's branches  *)
(* for a deactivated handler are never reached.                             *)
(***************************************************************************)
EXTENDS Integers, Sequences, FiniteSets

CONSTANTS
    SingleRequests,         \* requests with one response (Status, Ping, MetaData)
    BlockRequests,          \* BlocksByRange and BlocksByRoot
    Goodbye,                \* the request that shutdown sends
    max_dial_negotiated,
    IO_ERROR_RETRIES,
    MAX_INBOUND_SUBSTREAMS,
    MaxCount,               \* bound on the blocks a request asks for
    MaxInboundRequests,     \* bound on the peer's requests that are accepted
    MaxPending              \* bound on the responses queued on a substream

Requests == SingleRequests \cup BlockRequests \cup {Goodbye}

InboundIds == 0 .. MaxInboundRequests - 1

ASSUME RequestsAssumption ==
    /\ IsFiniteSet(SingleRequests) /\ IsFiniteSet(BlockRequests)
    /\ SingleRequests \cap BlockRequests = {}
    /\ Goodbye \notin SingleRequests \cup BlockRequests

ASSUME HandlerLimitsAssumption ==
    /\ {max_dial_negotiated, IO_ERROR_RETRIES, MAX_INBOUND_SUBSTREAMS, MaxCount}
          \subseteq Nat \ {0}
    /\ {MaxInboundRequests, MaxPending} \subseteq Nat

VARIABLES
    phase,              \* where poll is
    state,              \* HandlerState
    events_out,
    dial_queue,
    dial_negotiated,
    outbound_io_error_retries,
    opening,            \* the upgrades in progress in the swarm
    outbound_substreams,        \* the state of each request's substream
    outbound_remaining,         \* OutboundInfo::remaining_chunks
    outbound_substreams_delay,
    inbound_substreams,
    inbound_substreams_delay,
    current_inbound_substream_id,
    expected,           \* expected_responses of each request that was sent
    sent,               \* the requests given to the handler
    reports,            \* what the application was told of each request
    owed                \* the chunks an inbound request may still be sent

outVars == <<dial_queue, dial_negotiated, outbound_io_error_retries, opening,
             outbound_substreams, outbound_remaining, outbound_substreams_delay>>
inVars == <<inbound_substreams, inbound_substreams_delay, current_inbound_substream_id, owed>>
requestVars == <<expected, sent>>
handlerVars == <<phase, state, events_out, outVars, inVars, requestVars, reports>>

Responses == {"Success", "Error", "StreamTermination"}

HandlerEvents ==
    ({"Request", "InboundError"} \X Nat) \cup ({"OutboundError"} \X Requests)

OutboundError(r) == <<"OutboundError", r>>

InboundInfos ==
    [st : {"None", "Idle", "Busy"},
     pending_items : Seq(Responses),
     remaining_chunks : Nat,
     delay_key : BOOLEAN,                 \* is it Some?
     message : Responses \cup {"None"},   \* what a busy substream sends
     last_chunk : BOOLEAN]

NoSubstream ==
    [st |-> "None", pending_items |-> <<>>, remaining_chunks |-> 0, delay_key |-> FALSE,
     message |-> "None", last_chunk |-> FALSE]

\* Every variable keeps its type; in particular dial_negotiated, an unsigned
\* counter with unchecked subtractions, never goes below zero.
HandlerTypeOK ==
    /\ phase \in {"Waiting", "Timers", "Inbound", "Outbound"}
    /\ state \in {"Active", "ShuttingDown", "Deactivated", "Closed"}
    /\ events_out \in Seq(HandlerEvents)
    /\ dial_queue \in Seq(Requests)
    /\ dial_negotiated \in Nat
    /\ outbound_io_error_retries \in 0 .. IO_ERROR_RETRIES - 1
    /\ opening \subseteq Requests
    /\ outbound_substreams \in [Requests -> {"None", "RequestPendingResponse", "Closing"}]
    /\ outbound_remaining \in [Requests -> Nat]
    /\ outbound_substreams_delay \subseteq Requests
    /\ inbound_substreams \in [InboundIds -> InboundInfos]
    /\ inbound_substreams_delay \subseteq InboundIds
    /\ current_inbound_substream_id \in 0 .. MaxInboundRequests
    /\ expected \in [Requests -> 0 .. MaxCount]
    /\ sent \subseteq Requests
    /\ reports \in [Requests -> Seq({"Response", "Error", "EndOfStream"})]
    /\ owed \in [InboundIds -> Int]

HandlerInit ==
    /\ phase = "Waiting"
    /\ state = "Active"
    /\ events_out = <<>>
    /\ dial_queue = <<>>
    /\ dial_negotiated = 0
    /\ outbound_io_error_retries = 0
    /\ opening = {}
    /\ outbound_substreams = [r \in Requests |-> "None"]
    /\ outbound_remaining = [r \in Requests |-> 0]
    /\ outbound_substreams_delay = {}
    /\ inbound_substreams = [id \in InboundIds |-> NoSubstream]
    /\ inbound_substreams_delay = {}
    /\ current_inbound_substream_id = 0
    /\ expected = [r \in Requests |-> 0]
    /\ sent = {}
    /\ reports = [r \in Requests |-> <<>>]
    /\ owed = [id \in InboundIds |-> 0]

Running == state \in {"Active", "ShuttingDown"}

\* Something can be injected: the task is not inside poll.
MayInject == phase = "Waiting" /\ Running

Established == {id \in InboundIds : inbound_substreams[id].st # "None"}

-----------------------------------------------------------------------------
(* Requests to the peer.                                                    *)

\* send_request.
Enqueue(r) ==
    \/ /\ state = "Active"
       /\ dial_queue' = Append(dial_queue, r)
       /\ UNCHANGED events_out
    \/ /\ state # "Active"
       /\ events_out' = Append(events_out, OutboundError(r))
       /\ UNCHANGED dial_queue

\* expected_responses: the number of blocks asked for, possibly none.
ExpectedResponses(r) == IF r \in BlockRequests THEN 0 .. MaxCount ELSE {1}

SendRequest(r) ==
    /\ MayInject
    /\ r \in (SingleRequests \cup BlockRequests) \ sent
    /\ sent' = sent \cup {r}
    /\ \E n \in ExpectedResponses(r) : expected' = [expected EXCEPT ![r] = n]
    /\ Enqueue(r)
    /\ UNCHANGED <<phase, state, dial_negotiated, outbound_io_error_retries, opening,
                   outbound_substreams, outbound_remaining, outbound_substreams_delay,
                   inVars, reports>>

\* Mutant: the requests that were never dialed are dropped.
UnsentErrors_Missing == <<>>

\* The queued requests fail, the last one first.
UnsentErrors ==
    [i \in DOMAIN dial_queue |-> OutboundError(dial_queue[Len(dial_queue) + 1 - i])]

\* shutdown, with the goodbye to queue and the events of the caller around it.
Shutdown(goodbye, first, then) ==
    \/ /\ state = "Active"
       /\ state' = "ShuttingDown"
       /\ events_out' = events_out \o first \o UnsentErrors \o then
       /\ dial_queue' = goodbye
    \/ /\ state # "Active"
       /\ events_out' = events_out \o first \o then
       /\ UNCHANGED <<state, dial_queue>>

\* RPCSend::Shutdown.
SendGoodbye ==
    /\ MayInject
    /\ sent' = IF state = "Active" THEN sent \cup {Goodbye} ELSE sent
    /\ Shutdown(<<Goodbye>>, <<>>, <<>>)
    /\ UNCHANGED <<phase, dial_negotiated, outbound_io_error_retries, opening,
                   outbound_substreams, outbound_remaining, outbound_substreams_delay,
                   inVars, expected, reports>>

\* inject_fully_negotiated_outbound.
OutboundNegotiated(r) ==
    /\ MayInject
    /\ r \in opening
    /\ opening' = opening \ {r}
    /\ dial_negotiated' = dial_negotiated - 1
    /\ \/ /\ expected[r] > 0
          /\ outbound_substreams' = [outbound_substreams EXCEPT ![r] = "RequestPendingResponse"]
          /\ outbound_remaining' = [outbound_remaining EXCEPT ![r] = expected[r]]
          /\ outbound_substreams_delay' = outbound_substreams_delay \cup {r}
       \/ /\ expected[r] = 0
          /\ UNCHANGED <<outbound_substreams, outbound_remaining, outbound_substreams_delay>>
    /\ UNCHANGED <<phase, state, events_out, dial_queue, outbound_io_error_retries,
                   inVars, requestVars, reports>>

\* inject_dial_upgrade_error; `io` for an IO error, which is retried.  The count
\* of retries is shared by all requests.
DialUpgradeError(r, io) ==
    /\ MayInject
    /\ r \in opening
    /\ opening' = opening \ {r}
    /\ \/ /\ io /\ outbound_io_error_retries + 1 < IO_ERROR_RETRIES
          /\ outbound_io_error_retries' = outbound_io_error_retries + 1
          /\ Enqueue(r)
          /\ UNCHANGED dial_negotiated
       \/ /\ io => outbound_io_error_retries + 1 >= IO_ERROR_RETRIES
          /\ outbound_io_error_retries' = 0
          /\ dial_negotiated' = dial_negotiated - 1
          /\ events_out' = Append(events_out, OutboundError(r))
          /\ UNCHANGED dial_queue
    /\ UNCHANGED <<phase, state, outbound_substreams, outbound_remaining,
                   outbound_substreams_delay, inVars, requestVars, reports>>

-----------------------------------------------------------------------------
(* Requests of the peer.                                                    *)

\* inject_fully_negotiated_inbound, for a request that expects n responses.
InboundNegotiated(n) ==
    LET id == current_inbound_substream_id
    IN  /\ MayInject
        /\ state = "Active"
        /\ UNCHANGED <<phase, dial_negotiated, outbound_io_error_retries, opening,
                       outbound_substreams, outbound_remaining, outbound_substreams_delay,
                       requestVars, reports>>
        /\ \/ /\ n = 0 \/ Cardinality(Established) < MAX_INBOUND_SUBSTREAMS
              /\ id < MaxInboundRequests
              /\ inbound_substreams' =
                     IF n = 0 THEN inbound_substreams
                     ELSE [inbound_substreams EXCEPT ![id] =
                              [NoSubstream EXCEPT !.st = "Idle", !.remaining_chunks = n,
                                                  !.delay_key = TRUE]]
              /\ inbound_substreams_delay' =
                     IF n = 0 THEN inbound_substreams_delay ELSE inbound_substreams_delay \cup {id}
              /\ owed' = [owed EXCEPT ![id] = n]
              /\ events_out' = Append(events_out, <<"Request", id>>)
              /\ current_inbound_substream_id' = id + 1
              /\ UNCHANGED <<state, dial_queue>>
           \/ /\ n > 0 /\ Cardinality(Established) >= MAX_INBOUND_SUBSTREAMS
              /\ Shutdown(<<>>, <<<<"InboundError", id>>>>, <<>>)
              /\ UNCHANGED inVars

\* The same, for a goodbye.
InboundGoodbye ==
    LET id == current_inbound_substream_id
    IN  /\ MayInject
        /\ state = "Active"
        /\ id < MaxInboundRequests
        /\ Shutdown(<<>>, <<>>, <<<<"Request", id>>>>)
        /\ current_inbound_substream_id' = id + 1
        /\ UNCHANGED <<phase, dial_negotiated, outbound_io_error_retries, opening,
                       outbound_substreams, outbound_remaining, outbound_substreams_delay,
                       inbound_substreams, inbound_substreams_delay, owed, requestVars, reports>>

\* send_response, to a request that the application was told of.  A response
\* to a substream that is gone is dropped.
SendResponse(id, response) ==
    /\ MayInject
    /\ id < current_inbound_substream_id
    /\ \A i \in DOMAIN events_out : events_out[i] # <<"Request", id>>
    /\ id \in Established
    /\ Len(inbound_substreams[id].pending_items) < MaxPending
    /\ inbound_substreams' =
           [inbound_substreams EXCEPT ![id].pending_items = Append(@, response)]
    /\ events_out' = IF response = "Error"
                     THEN Append(events_out, <<"InboundError", id>>) ELSE events_out
    /\ UNCHANGED <<phase, state, outVars, inbound_substreams_delay,
                   current_inbound_substream_id, owed, requestVars, reports>>

-----------------------------------------------------------------------------
(* poll.                                                                    *)

Report(r, what) == reports' = [reports EXCEPT ![r] = Append(@, what)]

\* The first queued event is returned.
PollEventsOut ==
    /\ MayInject
    /\ events_out # <<>>
    /\ events_out' = Tail(events_out)
    /\ IF Head(events_out)[1] = "OutboundError"
       THEN Report(Head(events_out)[2], "Error") ELSE UNCHANGED reports
    /\ UNCHANGED <<phase, state, outVars, inVars, requestVars>>

\* Mutant: the timer waits for the upgrades in progress.
PollShutdownTimer_WhenIdle ==
    /\ MayInject
    /\ events_out = <<>>
    /\ state = "ShuttingDown"
    /\ dial_negotiated = 0
    /\ state' = "Deactivated"
    /\ UNCHANGED <<phase, events_out, outVars, inVars, requestVars, reports>>

\* The shutdown timer ran out.
PollShutdownTimer ==
    /\ MayInject
    /\ events_out = <<>>
    /\ state = "ShuttingDown"
    /\ state' = "Deactivated"
    /\ UNCHANGED <<phase, events_out, outVars, inVars, requestVars, reports>>

PollBegin ==
    /\ MayInject
    /\ events_out = <<>>
    /\ phase' = "Timers"
    /\ UNCHANGED <<state, events_out, outVars, inVars, requestVars, reports>>

\* Does the last queued response close the stream?  Not if there is none.
EndsOpen(pending) == pending # <<>> /\ pending[Len(pending)] = "Success"

\* Mutant: the key of the expired timer is kept.
Expired_KeyKept(info) ==
    [info EXCEPT !.pending_items = IF EndsOpen(@) THEN Append(@, "Error") ELSE @]

\* What a timeout does to an inbound substream.
Expired(info) ==
    [info EXCEPT !.delay_key = FALSE,
                 !.pending_items = IF EndsOpen(@) THEN Append(@, "Error") ELSE @]

ExpireInbound(id) ==
    /\ phase = "Timers"
    /\ id \in inbound_substreams_delay
    /\ inbound_substreams_delay' = inbound_substreams_delay \ {id}
    /\ inbound_substreams' = [inbound_substreams EXCEPT ![id] = Expired(@)]
    /\ events_out' = Append(events_out, <<"InboundError", id>>)
    /\ UNCHANGED <<phase, state, outVars, current_inbound_substream_id, owed,
                   requestVars, reports>>

RemoveOutbound(r) ==
    /\ outbound_substreams' = [outbound_substreams EXCEPT ![r] = "None"]
    /\ outbound_substreams_delay' = outbound_substreams_delay \ {r}
    /\ UNCHANGED <<dial_queue, dial_negotiated, outbound_io_error_retries, opening,
                   outbound_remaining>>

\* Mutant: once the response is there the timer does nothing.
ExpireOutbound_WhenPending(r) ==
    /\ phase = "Timers"
    /\ r \in outbound_substreams_delay
    /\ outbound_substreams[r] = "RequestPendingResponse"
    /\ RemoveOutbound(r)
    /\ Report(r, "Error")
    /\ phase' = "Waiting"
    /\ UNCHANGED <<state, events_out, inVars, requestVars>>

ExpireOutbound(r) ==
    /\ phase = "Timers"
    /\ r \in outbound_substreams_delay
    /\ RemoveOutbound(r)
    /\ Report(r, "Error")
    /\ phase' = "Waiting"
    /\ UNCHANGED <<state, events_out, inVars, requestVars>>

PollTimersDone ==
    /\ phase = "Timers"
    /\ phase' = "Inbound"
    /\ UNCHANGED <<state, events_out, outVars, inVars, requestVars, reports>>

\* Mutant: one chunk more than the peer asked for.
Sending_OneMore(info) ==
    [info EXCEPT !.st = "Busy", !.message = Head(info.pending_items),
                 !.last_chunk = info.remaining_chunks < 1,
                 !.pending_items = Tail(@)]

\* An idle substream starts to send its next response.
Sending(info) ==
    [info EXCEPT !.st = "Busy", !.message = Head(info.pending_items),
                 !.last_chunk = info.remaining_chunks <= 1,
                 !.pending_items = Tail(@)]

HasWork(info) == info.st = "Idle" /\ info.pending_items # <<>>

StartSending(id) ==
    /\ phase = "Inbound"
    /\ HasWork(inbound_substreams[id])
    /\ inbound_substreams' = [inbound_substreams EXCEPT ![id] = Sending(@)]
    /\ UNCHANGED <<phase, state, events_out, outVars, inbound_substreams_delay,
                   current_inbound_substream_id, owed, requestVars, reports>>

\* What is left to send once the message of the busy substream is written.
OwedAfter(id) ==
    IF inbound_substreams[id].message = "Success" THEN [owed EXCEPT ![id] = @ - 1] ELSE owed

\* The future of send_message_to_inbound_substream completes.
SendingDone(id) ==
    LET info == inbound_substreams[id]
        closed == info.last_chunk \/ info.message # "Success"
    IN  /\ phase = "Inbound"
        /\ info.st = "Busy"
        /\ owed' = OwedAfter(id)
        /\ \/ /\ ~closed
              /\ inbound_substreams' =
                     [inbound_substreams EXCEPT
                         ![id] = [info EXCEPT !.st = "Idle", !.message = "None",
                                              !.remaining_chunks = IF @ = 0 THEN 0 ELSE @ - 1]]
              /\ UNCHANGED inbound_substreams_delay
           \/ /\ closed
              /\ inbound_substreams' = [inbound_substreams EXCEPT ![id] = NoSubstream]
              /\ inbound_substreams_delay' =
                     IF info.delay_key THEN inbound_substreams_delay \ {id}
                     ELSE inbound_substreams_delay
        /\ UNCHANGED <<phase, state, events_out, outVars, current_inbound_substream_id,
                       requestVars, reports>>

\* It fails, possibly when the message is out and only the close fails.
SendingFails(id) ==
    LET info == inbound_substreams[id]
    IN  /\ phase = "Inbound"
        /\ info.st = "Busy"
        /\ inbound_substreams' = [inbound_substreams EXCEPT ![id] = NoSubstream]
        /\ inbound_substreams_delay' =
               IF info.delay_key THEN inbound_substreams_delay \ {id}
               ELSE inbound_substreams_delay
        /\ events_out' = Append(events_out, <<"InboundError", id>>)
        /\ owed' = OwedAfter(id)
        /\ UNCHANGED <<phase, state, outVars, current_inbound_substream_id,
                       requestVars, reports>>

PollInboundDone ==
    /\ phase = "Inbound"
    /\ \A id \in InboundIds : ~HasWork(inbound_substreams[id])
    /\ phase' = "Outbound"
    /\ UNCHANGED <<state, events_out, outVars, inVars, requestVars, reports>>

\* Mutant: the count of the chunks is not used.
LastResponse_Unlimited(r, what) == expected[r] <= 1 \/ what = "Error"

\* Is the stream closed after this chunk?
LastResponse(r, what) ==
    expected[r] <= 1 \/ what = "Error" \/ outbound_remaining[r] <= 1

\* A chunk arrives.
ReceiveResponse(r, what) ==
    /\ phase = "Outbound"
    /\ outbound_substreams[r] = "RequestPendingResponse"
    /\ \/ /\ LastResponse(r, what)
          /\ outbound_substreams' = [outbound_substreams EXCEPT ![r] = "Closing"]
          /\ UNCHANGED outbound_remaining
       \/ /\ ~LastResponse(r, what)
          /\ outbound_remaining' =
                 [outbound_remaining EXCEPT ![r] = IF @ = 0 THEN 0 ELSE @ - 1]
          /\ UNCHANGED outbound_substreams
    /\ Report(r, what)
    /\ phase' = "Waiting"
    /\ UNCHANGED <<state, events_out, dial_queue, dial_negotiated, outbound_io_error_retries,
                   opening, outbound_substreams_delay, inVars, requestVars>>

\* The peer closes the stream.
StreamEnds(r) ==
    /\ phase = "Outbound"
    /\ outbound_substreams[r] = "RequestPendingResponse"
    /\ RemoveOutbound(r)
    /\ Report(r, IF expected[r] > 1 THEN "EndOfStream" ELSE "Error")
    /\ phase' = "Waiting"
    /\ UNCHANGED <<state, events_out, inVars, requestVars>>

StreamFails(r) ==
    /\ phase = "Outbound"
    /\ outbound_substreams[r] = "RequestPendingResponse"
    /\ RemoveOutbound(r)
    /\ Report(r, "Error")
    /\ phase' = "Waiting"
    /\ UNCHANGED <<state, events_out, inVars, requestVars>>

\* A substream is closed; the end of a stream of blocks is reported.
SubstreamCloses(r) ==
    /\ phase = "Outbound"
    /\ outbound_substreams[r] = "Closing"
    /\ RemoveOutbound(r)
    /\ \/ /\ r \in BlockRequests
          /\ Report(r, "EndOfStream")
          /\ phase' = "Waiting"
       \/ /\ r \notin BlockRequests
          /\ UNCHANGED <<reports, phase>>
    /\ UNCHANGED <<state, events_out, inVars, requestVars>>

MayDial == dial_queue # <<>> /\ dial_negotiated < max_dial_negotiated

\* The next request gets its substream opened.
PollDialQueue ==
    /\ phase = "Outbound"
    /\ MayDial
    /\ opening' = opening \cup {Head(dial_queue)}
    /\ dial_negotiated' = dial_negotiated + 1
    /\ dial_queue' = Tail(dial_queue)
    /\ phase' = "Waiting"
    /\ UNCHANGED <<state, events_out, outbound_io_error_retries, outbound_substreams,
                   outbound_remaining, outbound_substreams_delay, inVars, requestVars, reports>>

\* Mutant: upgrades in progress do not hold up the shutdown.
ShutdownComplete_DialsIgnored ==
    /\ state = "ShuttingDown"
    /\ dial_queue = <<>>
    /\ \A r \in Requests : outbound_substreams[r] = "None"
    /\ Established = {}
    /\ events_out = <<>>

\* The condition of poll and of connection_keep_alive.
ShutdownComplete ==
    /\ state = "ShuttingDown"
    /\ dial_queue = <<>>
    /\ \A r \in Requests : outbound_substreams[r] = "None"
    /\ Established = {}
    /\ events_out = <<>>
    /\ dial_negotiated = 0

PollEnd ==
    /\ phase = "Outbound"
    /\ ~MayDial
    /\ phase' = "Waiting"
    /\ state' = IF ShutdownComplete THEN "Closed" ELSE state
    /\ UNCHANGED <<events_out, outVars, inVars, requestVars, reports>>

-----------------------------------------------------------------------------

HandlerNext ==
    \/ \E r \in Requests :
         \/ SendRequest(r)
         \/ OutboundNegotiated(r)
         \/ \E io \in BOOLEAN : DialUpgradeError(r, io)
         \/ ExpireOutbound(r)
         \/ \E what \in {"Response", "Error"} : ReceiveResponse(r, what)
         \/ StreamEnds(r)
         \/ StreamFails(r)
         \/ SubstreamCloses(r)
    \/ SendGoodbye
    \/ \E n \in 0 .. MaxCount : InboundNegotiated(n)
    \/ InboundGoodbye
    \/ \E id \in InboundIds :
         \/ \E response \in Responses : SendResponse(id, response)
         \/ ExpireInbound(id)
         \/ StartSending(id)
         \/ SendingDone(id)
         \/ SendingFails(id)
    \/ PollEventsOut
    \/ PollShutdownTimer
    \/ PollBegin
    \/ PollTimersDone
    \/ PollInboundDone
    \/ PollDialQueue
    \/ PollEnd

HandlerSpec == HandlerInit /\ [][HandlerNext]_handlerVars

Poll ==
    \/ PollEventsOut \/ PollShutdownTimer \/ PollBegin \/ PollTimersDone
    \/ \E id \in InboundIds : StartSending(id)
    \/ PollInboundDone \/ PollDialQueue \/ PollEnd

\* The task of the connection goes on polling.  A timer that has expired stays
\* expired until poll reaches it, hence the strong fairness.  Nothing is assumed
\* of the peer or of the application.
HandlerFairness ==
    /\ WF_handlerVars(Poll)
    /\ SF_handlerVars(PollShutdownTimer)
    /\ \A r \in Requests : SF_handlerVars(ExpireOutbound(r))

HandlerFairSpec == HandlerSpec /\ HandlerFairness

-----------------------------------------------------------------------------
(* Safety.                                                                  *)

Times(r, seq) == Cardinality({i \in DOMAIN seq : seq[i] = r})

\* How many places hold request r: the dial queue, the upgrades in progress, the
\* substreams, the errors to be reported.
Places(r) ==
    Times(r, dial_queue) + Cardinality({r} \cap opening)
        + Cardinality({q \in {r} : outbound_substreams[q] # "None"})
        + Times(OutboundError(r), events_out)

\* Through retries, failures and shutdown no request is duplicated or lost: it
\* is in one place until the application is told of it, unless it expects no
\* response at all.
NothingLost ==
    \A r \in Requests :
        /\ Places(r) <= 1
        /\ Running /\ r \in sent /\ expected[r] > 0 /\ reports[r] = <<>> => Places(r) = 1

\* The application sees at most the responses it asked for, all of them before
\* an error or the end of the stream, and nothing after the end.
ReportsOrdered ==
    \A r \in Requests :
        /\ Times("Response", reports[r]) <= expected[r]
        /\ \A i, j \in DOMAIN reports[r] :
             i < j => /\ reports[r][j] = "Response" => reports[r][i] = "Response"
                      /\ reports[r][i] # "EndOfStream"

\* Timers and substreams agree: poll finds a substream for every outbound timer
\* ("timed out substream not in the books" is never logged), and the keys kept
\* with inbound substreams are keys of the delay queue, which panics otherwise.
TimersMatch ==
    /\ outbound_substreams_delay = {r \in Requests : outbound_substreams[r] # "None"}
    /\ inbound_substreams_delay = {id \in Established : inbound_substreams[id].delay_key}

\* The slots taken are enough for the upgrades in progress, so that giving one
\* back does not underflow, and for every counted retry, which keeps the slot of the
\* upgrade that failed; and they are never more than the limit.
SlotsCoverDials ==
    /\ Cardinality(opening) + outbound_io_error_retries <= dial_negotiated
    /\ dial_negotiated <= max_dial_negotiated

\* The handler's books balance through every timeout, retry and failure: its types,
\* its timers and its slots.
BooksBalance == HandlerTypeOK /\ TimersMatch /\ SlotsCoverDials

\* A peer is never sent more chunks than it asked for, however many responses the
\* application queues and whenever the timer expires.
NoExcessChunk == \A id \in InboundIds : owed[id] >= 0

\* A handler that closes the connection before its time is up leaves nothing
\* behind: every request was reported, the goodbye included if it failed.
CleanClose ==
    state = "Closed" =>
        /\ opening = {}
        /\ \A r \in sent : expected[r] > 0 => reports[r] # <<>>

-----------------------------------------------------------------------------
(* What the application sees of a request.                                  *)

\* Request r is upgrading, established, queued, or failed and not yet reported.
Pending(r) ==
    \/ r \in opening
    \/ outbound_substreams[r] # "None"
    \/ \E i \in DOMAIN dial_queue : dial_queue[i] = r
    \/ \E i \in DOMAIN events_out : events_out[i] = OutboundError(r)

\* The stage of a request's life that its place amounts to.
Stage(r) ==
    IF r \notin sent THEN "New"
    ELSE IF outbound_substreams[r] = "Closing" THEN "Ending"
    ELSE IF Pending(r) THEN "Open" ELSE "Over"

Stages == [r \in Requests |-> Stage(r)]

Life == INSTANCE RequestLife WITH
    Streams <- BlockRequests, life <- Stages, limit <- expected, told <- reports

\* Wherever a request is queued, retried, timed out or dropped by a shutdown, the
\* application sees one life of it: the responses it asked for, one at a time, at
\* most two reports that end it, and nothing once it is over.
ImplementsRequestLife == Life!LifeSpec

-----------------------------------------------------------------------------
(* Liveness.                                                                *)

\* A substream does not stay: neither a peer that never answers nor one that
\* never lets it close can keep it.
SubstreamsEnd ==
    \A r \in Requests :
        outbound_substreams[r] # "None" ~> (outbound_substreams[r] = "None" \/ ~Running)

\* A shutdown ends, whatever is still open.
ShutdownEnds == state = "ShuttingDown" ~> ~Running
=============================================================================
