--------------------------- MODULE GatewaySession ---------------------------
(***************************************************************************)
(* One daemon session, from its registration until Connect returns: the    *)
(* goroutine of Connect (internal/grpc/gateway/service.go), the callers of *)
(* the Request* methods, the goroutine of pub/sub that calls Enqueue and   *)
(* the worker that empties the outbound queue                              *)
(* (internal/grpc/session/session.go).                                     *)
(*                                                                         *)
(* Stream.Send takes time: a step takes sendMu and enters it, another      *)
(* leaves it. Only the ack of Connect is written past sendMu. The senders  *)
(* that expect no answer (SendTask, RequestArchiveCancel, broadcasts) take *)
(* the same path as a request up to the end of its Send.                   *)
(***************************************************************************)
EXTENDS Naturals, Sequences

CONSTANTS
    Requests,   \* calls of the Request* methods, each with its own id
    Pushes,     \* messages that pub/sub hands to Enqueue
    Nobody,     \* no goroutine, no message
    Worker,     \* the goroutine of dispatchLoop as a sender
    QueueSize   \* outboundBufferSize

ASSUME SessionAssumption ==
    /\ QueueSize \in Nat \ {0}
    /\ Requests \cap {Nobody, Worker} = {}
    /\ Nobody \notin Pushes \cup {Worker}

VARIABLES
    conn,       \* how far Connect is
    listed,     \* the registry still has the session
    broken,     \* the daemon is gone
    closed,     \* Session.closed
    done,       \* Session.done is closed
    sendMu,     \* the holder of sendMu, inside Stream.Send
    received,   \* requests the daemon has received
    req,        \* how far every request is
    pending,    \* the keys of pendingReqs
    chan,       \* the response channel of every request
    closes,     \* history: how often it was closed
    resolving,  \* the request ResolvePendingRequest has taken out and not yet closed
    late,       \* history: requests registered after failPendingRequests
    push,       \* how far every push is
    outbound,   \* the queue
    worker      \* dispatchLoop: where it is and the message it holds

connVars == <<conn, listed, broken, closed, done>>
sendVars == <<sendMu, received>>
reqVars  == <<req, pending, chan, closes, resolving, late>>
pushVars == <<push, outbound, worker>>
sessionVars == <<connVars, sendVars, reqVars, pushVars>>

SessionInit ==
    /\ conn = "registered"
    /\ listed = TRUE
    /\ broken = FALSE /\ closed = FALSE /\ done = FALSE
    /\ sendMu = Nobody /\ received = {}
    /\ req = [r \in Requests |-> "idle"]
    /\ pending = {}
    /\ chan = [r \in Requests |-> "none"]
    /\ closes = [r \in Requests |-> 0]
    /\ resolving = Nobody
    /\ late = {}
    /\ push = [m \in Pushes |-> "idle"]
    /\ outbound = <<>>
    /\ worker = [pc |-> "none", msg |-> Nobody]
----------------------------------------------------------------------------
(* Stream.Send *)

\* A Send fails once the handler has returned, and may fail when the daemon is
\* gone.
SendMayFail == broken \/ conn = "returned"
SendMayWork == conn # "returned"

\* Session.Send takes the mutex and enters Stream.Send ...
Enter(g) ==
    /\ sendMu = Nobody
    /\ sendMu' = g

\* ... and gives the mutex up.
Leave(g) ==
    /\ sendMu = g
    /\ sendMu' = Nobody
----------------------------------------------------------------------------
(* Connect *)

\* The ack is written to the stream itself, not through Session.Send: Connect
\* waits for no other sender, and no other sender for Connect.
AckBegin ==
    /\ conn = "registered"
    /\ conn' = "acking"
    /\ UNCHANGED <<listed, broken, closed, done, sendVars, reqVars, pushVars>>

AckEnd ==
    /\ conn = "acking"
    /\ \/ conn' = "serving"
       \/ broken /\ conn' = "leaving"
    /\ UNCHANGED <<listed, broken, closed, done, sendVars, reqVars, pushVars>>

\* buildRegisterAck fails; or handleMessages returns: the stream is broken, or a
\* newer session of the node or the shutdown has cancelled this one.
ConnectEnds ==
    /\ conn \in {"registered", "serving"}
    /\ resolving = Nobody
    /\ conn' = "leaving"
    /\ UNCHANGED <<listed, broken, closed, done, sendVars, reqVars, pushVars>>

\* A newer session of the node takes the place of this one.
Superseded ==
    /\ listed
    /\ listed' = FALSE
    /\ UNCHANGED <<conn, broken, closed, done, sendVars, reqVars, pushVars>>

\* The deferred UnregisterSession.
LeaveRegistry ==
    /\ conn = "leaving"
    /\ conn' = "unlisted"
    /\ listed' = FALSE
    /\ UNCHANGED <<broken, closed, done, sendVars, reqVars, pushVars>>

\* Close: the flag, the done channel, the waiters.
CloseFlag ==
    /\ conn = "unlisted"
    /\ conn' = "flagged"
    /\ closed' = TRUE
    /\ UNCHANGED <<listed, broken, done, sendVars, reqVars, pushVars>>


CloseDone ==
    /\ conn = "flagged"
    /\ conn' = "stopped"
    /\ done' = TRUE
    /\ UNCHANGED <<listed, broken, closed, sendVars, reqVars, pushVars>>

\* Mutant: the waiters are forgotten.
FailPending_Forgotten ==
    /\ conn = "stopped"
    /\ conn' = "failed"
    /\ UNCHANGED <<listed, broken, closed, done, sendVars, reqVars, pushVars>>

\* failPendingRequests
FailPending ==
    /\ conn = "stopped"
    /\ conn' = "failed"
    /\ pending' = {}
    /\ chan' = [r \in Requests |-> IF r \in pending THEN "closed" ELSE chan[r]]
    /\ closes' = [r \in Requests |-> IF r \in pending THEN closes[r] + 1 ELSE closes[r]]
    /\ UNCHANGED <<listed, broken, closed, done, sendVars, req, resolving, late, pushVars>>

ConnectReturns ==
    /\ conn = "failed"
    /\ conn' = "returned"
    /\ UNCHANGED <<listed, broken, closed, done, sendVars, reqVars, pushVars>>

\* external: the daemon goes away.
Break ==
    /\ ~broken
    /\ broken' = TRUE
    /\ UNCHANGED <<conn, listed, closed, done, sendVars, reqVars, pushVars>>
----------------------------------------------------------------------------
(* Requests *)

\* GetSession: without a session the call ends at once.
GetSession(r) ==
    /\ req[r] = "idle"
    /\ listed
    /\ req' = [req EXCEPT ![r] = "found"]
    /\ UNCHANGED <<connVars, sendVars, pending, chan, closes, resolving, late, pushVars>>

RegisterPendingRequest(r) ==
    /\ req[r] = "found"
    /\ req' = [req EXCEPT ![r] = "unsent"]
    /\ pending' = pending \cup {r}
    /\ chan' = [chan EXCEPT ![r] = "open"]
    /\ late' = IF conn \in {"failed", "returned"} THEN late \cup {r} ELSE late
    /\ UNCHANGED <<connVars, sendVars, closes, resolving, pushVars>>

RequestSend(r) ==
    /\ req[r] = "unsent"
    /\ Enter(r)
    /\ req' = [req EXCEPT ![r] = "sending"]
    /\ UNCHANGED <<connVars, received, pending, chan, closes, resolving, late, pushVars>>

\* The request is on its way, or the call ends with an error.
RequestSent(r) ==
    /\ req[r] = "sending"
    /\ Leave(r)
    /\ \/ /\ SendMayWork
          /\ req' = [req EXCEPT ![r] = "waiting"]
          /\ received' = IF broken THEN received ELSE received \cup {r}
       \/ /\ SendMayFail
          /\ req' = [req EXCEPT ![r] = "ending"]
          /\ UNCHANGED received
    /\ UNCHANGED <<connVars, pending, chan, closes, resolving, late, pushVars>>

\* The select of the call: an answer or a closed channel, or its context is done.
RequestWakes(r) ==
    /\ req[r] = "waiting"
    /\ chan[r] # "open"
    /\ req' = [req EXCEPT ![r] = "ending"]
    /\ UNCHANGED <<connVars, sendVars, pending, chan, closes, resolving, late, pushVars>>

RequestGivesUp(r) ==
    /\ req[r] = "waiting"
    /\ req' = [req EXCEPT ![r] = "ending"]
    /\ UNCHANGED <<connVars, sendVars, pending, chan, closes, resolving, late, pushVars>>

\* The deferred CancelPendingRequest.
CancelPendingRequest(r) ==
    /\ req[r] = "ending"
    /\ req' = [req EXCEPT ![r] = "ended"]
    /\ pending' = pending \ {r}
    /\ chan' = [chan EXCEPT ![r] = IF r \in pending THEN "closed" ELSE @]
    /\ closes' = [closes EXCEPT ![r] = IF r \in pending THEN @ + 1 ELSE @]
    /\ UNCHANGED <<connVars, sendVars, resolving, late, pushVars>>

\* Mutant: the entry stays in the map until the channel is closed.
Take_Leaves(r) ==
    /\ conn = "serving" /\ resolving = Nobody
    /\ r \in received /\ r \in pending
    /\ resolving' = r
    /\ UNCHANGED <<connVars, sendVars, req, pending, chan, closes, late, pushVars>>

\* ResolvePendingRequest, called by handleMessages for an answer of the daemon,
\* takes the channel out of the map (answers nobody waits for are dropped) ...
Take(r) ==
    /\ conn = "serving" /\ resolving = Nobody
    /\ r \in received /\ r \in pending
    /\ resolving' = r
    /\ pending' = pending \ {r}
    /\ UNCHANGED <<connVars, sendVars, req, chan, closes, late, pushVars>>

\* ... and hands the answer over.
Resolve ==
    /\ resolving # Nobody
    /\ resolving' = Nobody
    /\ chan' = [chan EXCEPT ![resolving] = "closed"]
    /\ closes' = [closes EXCEPT ![resolving] = @ + 1]
    /\ UNCHANGED <<connVars, sendVars, req, pending, late, pushVars>>
----------------------------------------------------------------------------
(* The outbound queue *)

\* Enqueue looks at the flag and starts the worker ...
EnqueueCheck(m) ==
    /\ push[m] = "idle"
    /\ listed
    /\ IF closed
       THEN /\ push' = [push EXCEPT ![m] = "refused"]
            /\ UNCHANGED worker
       ELSE /\ push' = [push EXCEPT ![m] = "checked"]
            /\ worker' = IF worker.pc = "none" THEN [pc |-> "idle", msg |-> Nobody]
                         ELSE worker
    /\ UNCHANGED <<connVars, sendVars, reqVars, outbound>>

\* ... and puts the message into the queue, unless the queue is full.
EnqueuePut(m) ==
    /\ push[m] = "checked"
    /\ \/ /\ Len(outbound) < QueueSize
          /\ outbound' = Append(outbound, m)
          /\ push' = [push EXCEPT ![m] = "queued"]
       \/ /\ done \/ Len(outbound) >= QueueSize
          /\ push' = [push EXCEPT ![m] = "refused"]
          /\ UNCHANGED outbound
    /\ UNCHANGED <<connVars, sendVars, reqVars, worker>>

WorkerTakes ==
    /\ worker.pc = "idle"
    /\ outbound # <<>>
    /\ worker' = [pc |-> "holding", msg |-> Head(outbound)]
    /\ outbound' = Tail(outbound)
    /\ UNCHANGED <<connVars, sendVars, reqVars, push>>

WorkerSend ==
    /\ worker.pc = "holding"
    /\ Enter(Worker)
    /\ worker' = [worker EXCEPT !.pc = "sending"]
    /\ UNCHANGED <<connVars, received, reqVars, push, outbound>>

\* Mutant: the worker gives up at the first message it cannot send.
WorkerSent_GivesUp ==
    /\ worker.pc = "sending"
    /\ Leave(Worker)
    /\ push' = [push EXCEPT ![worker.msg] = "sent"]
    /\ worker' = [pc |-> IF SendMayFail THEN "gone" ELSE "idle", msg |-> Nobody]
    /\ UNCHANGED <<connVars, received, reqVars, outbound>>

\* A message that cannot be sent is only logged.
WorkerSent ==
    /\ worker.pc = "sending"
    /\ Leave(Worker)
    /\ push' = [push EXCEPT ![worker.msg] = "sent"]
    /\ worker' = [pc |-> "idle", msg |-> Nobody]
    /\ UNCHANGED <<connVars, received, reqVars, outbound>>

WorkerStops ==
    /\ worker.pc = "idle"
    /\ done
    /\ worker' = [pc |-> "gone", msg |-> Nobody]
    /\ UNCHANGED <<connVars, sendVars, reqVars, push, outbound>>
----------------------------------------------------------------------------
Connect ==
    \/ AckBegin \/ AckEnd \/ ConnectEnds \/ Superseded \/ LeaveRegistry
    \/ CloseFlag \/ CloseDone \/ FailPending \/ ConnectReturns

Request(r) ==
    \/ GetSession(r) \/ RegisterPendingRequest(r) \/ RequestSend(r) \/ RequestSent(r)
    \/ RequestWakes(r) \/ RequestGivesUp(r) \/ CancelPendingRequest(r) \/ Take(r)

DispatchLoop == WorkerTakes \/ WorkerSend \/ WorkerSent \/ WorkerStops

SessionNext ==
    \/ Connect \/ Break \/ Resolve \/ DispatchLoop
    \/ \E r \in Requests : Request(r)
    \/ \E m \in Pushes : EnqueueCheck(m) \/ EnqueuePut(m)

SessionSpec == SessionInit /\ [][SessionNext]_sessionVars

\* Goroutines that can go on do, a Stream.Send returns, and sendMu is given to
\* everyone who waits for it. Nothing is assumed of the daemon, of the deadlines
\* of requests or of the end of the connection.
Fairness ==
    /\ WF_sessionVars(AckEnd) /\ WF_sessionVars(LeaveRegistry) /\ WF_sessionVars(CloseFlag)
    /\ WF_sessionVars(CloseDone) /\ WF_sessionVars(FailPending) /\ WF_sessionVars(ConnectReturns)
    /\ WF_sessionVars(WorkerTakes) /\ SF_sessionVars(WorkerSend) /\ WF_sessionVars(WorkerSent)
    /\ WF_sessionVars(WorkerStops)
    /\ \A r \in Requests : SF_sessionVars(RequestSend(r)) /\ WF_sessionVars(RequestSent(r))
    /\ \A m \in Pushes : WF_sessionVars(EnqueuePut(m))

FairSpec == SessionSpec /\ Fairness
----------------------------------------------------------------------------
(* Properties *)

SessionTypeOK ==
    /\ conn \in {"registered", "acking", "serving", "leaving", "unlisted",
                 "flagged", "stopped", "failed", "returned"}
    /\ listed \in BOOLEAN /\ broken \in BOOLEAN
    /\ closed \in BOOLEAN /\ done \in BOOLEAN
    /\ sendMu \in Requests \cup {Worker, Nobody}
    /\ received \subseteq Requests
    /\ req \in [Requests -> {"idle", "found", "unsent", "sending", "waiting",
                             "ending", "ended"}]
    /\ pending \subseteq Requests
    /\ chan \in [Requests -> {"none", "open", "closed"}]
    /\ closes \in [Requests -> Nat]
    /\ resolving \in Requests \cup {Nobody}
    /\ late \subseteq Requests
    /\ push \in [Pushes -> {"idle", "checked", "queued", "refused", "sent"}]
    /\ outbound \in Seq(Pushes)
    /\ worker \in [pc : {"none", "idle", "holding", "sending", "gone"},
                   msg : Pushes \cup {Nobody}]

\* An answer, the end of the call and the end of the session may come at the same
\* time: the channel of a request is never closed twice, which would panic
\* ("Delete-under-lock keeps this race-free", session.go:157).
ClosedOnce == \A r \in Requests : closes[r] <= 1

Hangs(r) == conn = "returned" /\ req[r] = "waiting" /\ chan[r] = "open"

\* Close leaves no waiter behind but one that registered after it, although
\* session.go:143 promises that none "outlives the session".
OnlyLateRequestsHang == \A r \in Requests : Hangs(r) => r \in late


\* A message for which Enqueue answered nil is handed to Stream.Send, however
\* requests compete with the worker for sendMu and whichever of its sends fail.
\* Only the end of the session leaves messages in the queue.
QueuedIsSent == \A m \in Pushes : push[m] = "queued" ~> push[m] = "sent" \/ done
=============================================================================
