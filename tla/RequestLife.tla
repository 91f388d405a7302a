----------------------------- MODULE RequestLife -----------------------------
(***************************************************************************)
(* What the RPC handler promises the application about its requests to the  *)
(* peer (the comments on HandlerEvent and OutboundInfo in rpc/handler.rs    *)
(* and on RPCReceived in rpc/mod.rs): a request is answered by the          *)
(* responses it asked for, one after the other, and ended once.  There are  *)
(* no queues, no upgrades, no slots, no timers and no shutdown.             *)
(***************************************************************************)
EXTENDS Integers, Sequences

CONSTANTS
    Requests,
    Streams,        \* the requests whose last response is followed by an end of the stream
    MaxCount        \* bound on the responses a request asks for

VARIABLES
    life,       \* per request, "New" | "Open" | "Ending" | "Over"
    limit,      \* how many responses it asked for
    told        \* what the application was told of it

lifeVars == <<life, limit, told>>

LifeInit ==
    /\ life = [r \in Requests |-> "New"]
    /\ limit = [r \in Requests |-> 0]
    /\ told = [r \in Requests |-> <<>>]

Becomes(r, stage) == life' = [life EXCEPT ![r] = stage]
Tell(r, what) == told' = [told EXCEPT ![r] = Append(@, what)]

\* A request is made, once; only streams have more than one response.
Ask(r) ==
    /\ life[r] = "New"
    /\ Becomes(r, "Open")
    /\ \E n \in 0 .. MaxCount :
         /\ n > 1 => r \in Streams
         /\ limit' = [limit EXCEPT ![r] = n]
    /\ UNCHANGED told

\* The next response.  The last one that was asked for is followed by the end.
Respond(r) ==
    /\ life[r] = "Open"
    /\ Len(told[r]) < limit[r]
    /\ Tell(r, "Response")
    /\ Becomes(r, IF Len(told[r]) + 1 = limit[r] THEN "Ending" ELSE "Open")
    /\ UNCHANGED limit

\* The peer answers with an error, and no response comes any more.
Refuse(r) ==
    /\ life[r] = "Open"
    /\ limit[r] > 0
    /\ Tell(r, "Error")
    /\ Becomes(r, "Ending")
    /\ UNCHANGED limit

\* A request that asked for nothing is over when it has been sent.
Sent(r) ==
    /\ life[r] = "Open"
    /\ limit[r] = 0
    /\ Becomes(r, "Over")
    /\ UNCHANGED <<limit, told>>

\* Something goes wrong, on the way to the peer or back.
Fail(r) ==
    /\ life[r] \in {"Open", "Ending"}
    /\ Tell(r, "Error")
    /\ Becomes(r, "Over")
    /\ UNCHANGED limit

\* The peer ends a stream before all that was asked for has come.
EndEarly(r) ==
    /\ life[r] = "Open"
    /\ limit[r] > 1
    /\ Tell(r, "EndOfStream")
    /\ Becomes(r, "Over")
    /\ UNCHANGED limit

\* The end, which the application is told of if it is that of a stream.
End(r) ==
    /\ life[r] = "Ending"
    /\ IF r \in Streams THEN Tell(r, "EndOfStream") ELSE UNCHANGED told
    /\ Becomes(r, "Over")
    /\ UNCHANGED limit

\* A step is one in the life of some request, in which something of it changes.
Changes(r) == <<life[r], told[r]>>' # <<life[r], told[r]>>

LifeNext ==
    \E r \in Requests :
        /\ Changes(r)
        /\ \/ Ask(r) \/ Respond(r) \/ Refuse(r) \/ Sent(r) \/ Fail(r) \/ EndEarly(r) \/ End(r)

LifeSpec == LifeInit /\ [][LifeNext]_lifeVars
=============================================================================
