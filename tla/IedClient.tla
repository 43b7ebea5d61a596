----------------------------- MODULE IedClient -----------------------------
(***************************************************************************)
(* The client connection (pkg/iec61850/client/client.go): Dial, the        *)
(* requests that application goroutines make through sendAndReceive, the   *)
(* readLoop that hands responses to them and reports to the report         *)
(* handler, Close, and the cancellation of the context.                    *)
(*                                                                         *)
(* The transport carries whole PDUs in order (TsduChannel).  The server is *)
(* the environment: it answers requests, sends reports, stops reading or   *)
(* goes away.                                                              *)
(***************************************************************************)
EXTENDS Integers, Sequences, FiniteSets

CONSTANTS
  Call,          \* requests, each made once
  HandlerCall,   \* those of them that the report handler makes
  IdModulus,     \* invoke IDs count modulo this (2^32 in the code)
  MayStall,      \* whether the server may stop reading
  IdleTimeout,   \* whether Options.IdleTimeout is set
  MaxReports,    \* bound: reports the server sends
  NoCall

ASSUME ClientAssumption ==
  /\ HandlerCall \subseteq Call
  /\ NoCall \notin Call
  /\ IdModulus \in Nat \ {0}
  /\ MayStall \in BOOLEAN /\ IdleTimeout \in BOOLEAN
  /\ MaxReports \in Nat

VARIABLES
  dialPc,         \* where Dial is
  state,          \* c.state
  ctxDone,        \* c.ctx is cancelled
  socket,         \* the client's TCP socket
  broken,         \* the server's end is gone
  stalled,        \* the server does not read
  writeDeadline,  \* the socket has a write deadline
  invokeIDSeq,    \* c.invokeIDSeq
  callPc, id,     \* callPc[k], id[k]: where call k is and its invoke ID
  response, err,  \* the channels of outstandingCall, with room for one item
  result,         \* what sendAndReceive has returned
  pending,        \* c.pending: the call waiting for each invoke ID
  toServer,       \* requests on their way
  toClient,       \* PDUs on their way
  nReports,       \* reports sent so far
  readPc,         \* where readLoop is
  readPdu,        \* the PDU it is dispatching
  readCall,       \* the call it has found in c.pending
  installed,      \* a report handler is installed
  closePc         \* where Close is

dialVars == <<dialPc, state, ctxDone, socket>>
netVars == <<broken, stalled, toServer, toClient, nReports>>
callVars == <<invokeIDSeq, callPc, id, response, err, result, pending, writeDeadline>>
readVars == <<readPc, readPdu, readCall, installed>>
vars == <<dialPc, state, ctxDone, socket, broken, stalled, writeDeadline, invokeIDSeq,
          callPc, id, response, err, result, pending, toServer, toClient, nReports,
          readPc, readPdu, readCall, installed, closePc>>

Id == 0..(IdModulus - 1)

\* A PDU from the server: the answer to a request, with its invoke ID, or a
\* report.  call is auxiliary: the call that made the request.
Answer == [kind : {"answer"}, id : Id, call : Call]
Report == [kind |-> "report", id |-> 0, call |-> NoCall]
Pdu == Answer \cup {Report}

Init ==
  /\ dialPc = "tcp" /\ state = "connecting" /\ ctxDone = FALSE
  /\ socket = "none" /\ broken = FALSE /\ stalled = FALSE /\ writeDeadline = FALSE
  /\ invokeIDSeq = 0
  /\ callPc = [k \in Call |-> "idle"]
  /\ id = [k \in Call |-> 0]
  /\ response = [k \in Call |-> {}]
  /\ err = [k \in Call |-> FALSE]
  /\ result = [k \in Call |-> "none"]
  /\ pending = [i \in Id |-> NoCall]
  /\ toServer = << >> /\ toClient = << >> /\ nReports = 0
  /\ readPc = "none" /\ readPdu = {} /\ readCall = NoCall
  /\ installed = FALSE
  /\ closePc = "idle"

-----------------------------------------------------------------------------
(* DialWithOptions. *)

\* The TCP connection is made, or refused, or ConnectTimeout passes.
DialTCP ==
  /\ dialPc = "tcp"
  /\ \/ dialPc' = "handshake" /\ socket' = "open"
     \/ dialPc' = "failed" /\ UNCHANGED socket
  /\ UNCHANGED <<state, ctxDone, netVars, callVars, readVars, closePc>>

\* The server answers the COTP, session, presentation, ACSE and MMS requests
\* and readLoop is started.
DialHandshake ==
  /\ dialPc = "handshake" /\ ~broken /\ ~stalled
  /\ dialPc' = "done"
  /\ state' = "connected"
  /\ readPc' = "top"
  /\ UNCHANGED <<ctxDone, socket, netVars, callVars, readPdu, readCall, installed, closePc>>

\* The handshake is refused or the connection breaks.
DialFails ==
  /\ dialPc = "handshake"
  /\ dialPc' = "failed"
  /\ socket' = "closed"
  /\ UNCHANGED <<state, ctxDone, netVars, callVars, readVars, closePc>>

-----------------------------------------------------------------------------
(* sendAndReceive. *)

CallStep(k, from, to) ==
  /\ callPc[k] = from
  /\ callPc' = [callPc EXCEPT ![k] = to]

\* Mutant of nextInvokeID: the sequence does not move on.
nextInvokeIDStuck(n) == 1 % IdModulus

nextInvokeID(n) == (n + 1) % IdModulus

\* The handler makes its calls inside readLoop, one after the other.
InHandler(k) ==
  k \in HandlerCall =>
    /\ readPc = "handler"
    /\ \A j \in HandlerCall : callPc[j] \in {"idle", "done"}

\* A request takes the next invoke ID.
TakeID(k) ==
  /\ dialPc = "done"
  /\ InHandler(k)
  /\ CallStep(k, "idle", "numbered")
  /\ invokeIDSeq' = nextInvokeID(invokeIDSeq)
  /\ id' = [id EXCEPT ![k] = nextInvokeID(invokeIDSeq)]
  /\ UNCHANGED <<dialVars, netVars, response, err, result, pending, writeDeadline,
                 readVars, closePc>>

\* The call is entered in c.pending.
RegisterCall(k) ==
  /\ CallStep(k, "numbered", "registered")
  /\ pending' = [pending EXCEPT ![id[k]] = k]
  /\ UNCHANGED <<dialVars, netVars, invokeIDSeq, id, response, err, result, writeDeadline,
                 readVars, closePc>>

SetWriteDeadline(k) ==
  /\ CallStep(k, "registered", "sending")
  /\ writeDeadline' = TRUE
  /\ UNCHANGED <<dialVars, netVars, invokeIDSeq, id, response, err, result, pending,
                 readVars, closePc>>

\* Send succeeds.  It may also do so when the server has just gone.
SendRequest(k) ==
  /\ socket = "open" /\ ~stalled
  /\ CallStep(k, "sending", "waiting")
  /\ toServer' = Append(toServer, [id |-> id[k], call |-> k])
  /\ UNCHANGED <<dialVars, broken, stalled, toClient, nReports, invokeIDSeq, id, response,
                 err, result, pending, writeDeadline, readVars, closePc>>

\* sendAndReceive has its result and returns.
Finish(k, from, res) ==
  /\ CallStep(k, from, "returning")
  /\ result' = [result EXCEPT ![k] = res]
  /\ UNCHANGED <<dialVars, netVars, invokeIDSeq, id, pending, writeDeadline, readVars,
                 closePc>>

\* Send fails: the connection is down, or the write deadline has passed.
SendFails(k) ==
  /\ socket = "closed" \/ broken \/ (stalled /\ writeDeadline)
  /\ Finish(k, "sending", "sendFailed")
  /\ UNCHANGED <<response, err>>

\* The four cases of the select.
TakeResponse(k) ==
  /\ response[k] # {}
  /\ Finish(k, "waiting", "answered")
  /\ UNCHANGED <<response, err>>

TakeError(k) ==
  /\ err[k]
  /\ Finish(k, "waiting", "readError")
  /\ UNCHANGED <<response, err>>

\* Mutant of Timeout: the case is missing.
TimeoutMissing(k) == FALSE /\ UNCHANGED vars

Timeout(k) ==
  /\ Finish(k, "waiting", "timeout")
  /\ UNCHANGED <<response, err>>

Cancelled(k) ==
  /\ ctxDone
  /\ Finish(k, "waiting", "cancelled")
  /\ UNCHANGED <<response, err>>

\* The deferred calls: the write deadline is cleared ...
ClearWriteDeadline(k) ==
  /\ CallStep(k, "returning", "cleared")
  /\ writeDeadline' = FALSE
  /\ UNCHANGED <<dialVars, netVars, invokeIDSeq, id, response, err, result, pending,
                 readVars, closePc>>

\* Mutant of Unregister: the call stays in c.pending.
UnregisterMissing(k) ==
  /\ CallStep(k, "cleared", "done")
  /\ UNCHANGED <<dialVars, netVars, invokeIDSeq, id, response, err, result, pending,
                 writeDeadline, readVars, closePc>>

\* ... and the call leaves c.pending.
Unregister(k) ==
  /\ CallStep(k, "cleared", "done")
  /\ pending' = [pending EXCEPT ![id[k]] = NoCall]
  /\ UNCHANGED <<dialVars, netVars, invokeIDSeq, id, response, err, result, writeDeadline,
                 readVars, closePc>>

-----------------------------------------------------------------------------
(* readLoop. *)

\* It ends if the context is cancelled, and otherwise calls Receive.
LoopTop ==
  /\ readPc = "top"
  /\ readPc' = IF ctxDone THEN "exited" ELSE "receive"
  /\ UNCHANGED <<dialVars, netVars, callVars, readPdu, readCall, installed, closePc>>

ReceivePdu ==
  /\ readPc = "receive"
  /\ socket = "open" /\ toClient # << >>
  /\ readPdu' = {Head(toClient)}
  /\ toClient' = Tail(toClient)
  /\ readPc' = "dispatch"
  /\ UNCHANGED <<dialVars, broken, stalled, toServer, nReports, callVars, readCall,
                 installed, closePc>>

\* Receive fails: the connection is down, or nothing has come for IdleTimeout.
\* If the context is cancelled by then, readLoop just ends.
ReceiveFails ==
  /\ readPc = "receive"
  /\ socket = "closed" \/ broken \/ IdleTimeout
  /\ readPc' = IF ctxDone THEN "exited" ELSE "failed"
  /\ UNCHANGED <<dialVars, netVars, callVars, readPdu, readCall, installed, closePc>>

\* Otherwise the connection is closed ...
MarkClosed ==
  /\ readPc = "failed"
  /\ state' = "closed"
  /\ readPc' = "sweep"
  /\ UNCHANGED <<dialPc, ctxDone, socket, netVars, callVars, readPdu, readCall, installed,
                 closePc>>

\* Mutant of Sweep: readLoop ends without it.
SweepMissing ==
  /\ readPc = "sweep"
  /\ readPc' = "exited"
  /\ UNCHANGED <<dialVars, netVars, callVars, readPdu, readCall, installed, closePc>>

\* ... and every call in c.pending gets the error.
Sweep ==
  /\ readPc = "sweep"
  /\ err' = [k \in Call |-> err[k] \/ \E i \in Id : pending[i] = k]
  /\ readPc' = "exited"
  /\ UNCHANGED <<dialVars, netVars, invokeIDSeq, callPc, id, response, result, pending,
                 writeDeadline, readPdu, readCall, installed, closePc>>

\* dispatchConfirmedResponse: the call is looked up ...
Lookup(p) ==
  /\ readPc = "dispatch" /\ p \in readPdu /\ p.kind = "answer"
  /\ readCall' = pending[p.id]
  /\ readPc' = IF pending[p.id] = NoCall THEN "top" ELSE "deliver"
  /\ UNCHANGED <<dialVars, netVars, callVars, readPdu, installed, closePc>>

\* ... and gets the PDU, unless its channel is full.
Deliver(p) ==
  /\ readPc = "deliver" /\ p \in readPdu
  /\ response' = [response EXCEPT ![readCall] = IF @ = {} THEN {p} ELSE @]
  /\ readPc' = "top"
  /\ UNCHANGED <<dialVars, netVars, invokeIDSeq, callPc, id, err, result, pending,
                 writeDeadline, readPdu, readCall, installed, closePc>>

\* dispatchInformationReport: the handler runs inside readLoop.
DispatchReport(p) ==
  /\ readPc = "dispatch" /\ p \in readPdu /\ p.kind = "report"
  /\ readPc' = IF installed THEN "handler" ELSE "top"
  /\ UNCHANGED <<dialVars, netVars, callVars, readPdu, readCall, installed, closePc>>

HandlerReturns ==
  /\ readPc = "handler"
  /\ \A k \in HandlerCall : callPc[k] \in {"idle", "done"}
  /\ readPc' = "top"
  /\ UNCHANGED <<dialVars, netVars, callVars, readPdu, readCall, installed, closePc>>

-----------------------------------------------------------------------------
(* The application: report handlers, Close, cancellation. *)

InstallReportHandler ==
  /\ dialPc = "done" /\ ~installed
  /\ installed' = TRUE
  /\ UNCHANGED <<dialVars, netVars, callVars, readPc, readPdu, readCall, closePc>>

UninstallReportHandler ==
  /\ installed
  /\ installed' = FALSE
  /\ UNCHANGED <<dialVars, netVars, callVars, readPc, readPdu, readCall, closePc>>

\* Close returns at once unless the state is connected.
CloseCall ==
  /\ dialPc = "done" /\ closePc = "idle"
  /\ \/ /\ state = "connected"
        /\ state' = "closing" /\ closePc' = "cancel"
     \/ /\ state # "connected"
        /\ closePc' = "done" /\ UNCHANGED state
  /\ UNCHANGED <<dialPc, ctxDone, socket, netVars, callVars, readVars>>

CloseCancel ==
  /\ closePc = "cancel"
  /\ ctxDone' = TRUE
  /\ closePc' = "conclude"
  /\ UNCHANGED <<dialPc, state, socket, netVars, callVars, readVars>>

\* Mutant of CloseSocket: the socket stays open.
CloseSocketLeak ==
  /\ closePc = "conclude"
  /\ closePc' = "done"
  /\ UNCHANGED <<dialPc, state, ctxDone, socket, netVars, callVars, readVars>>

\* The Conclude request is sent, or not; then the socket is closed.
CloseSocket ==
  /\ closePc = "conclude"
  /\ ~stalled \/ writeDeadline \/ broken
  /\ socket' = "closed"
  /\ closePc' = "done"
  /\ UNCHANGED <<dialPc, state, ctxDone, netVars, callVars, readVars>>

\* The context given to DialContext is cancelled.
CancelContext ==
  /\ ~ctxDone
  /\ ctxDone' = TRUE
  /\ UNCHANGED <<dialPc, state, socket, netVars, callVars, readVars, closePc>>

-----------------------------------------------------------------------------
(* The server. *)

Serve ==
  /\ ~broken /\ toServer # << >>
  /\ toClient' = Append(toClient, [kind |-> "answer", id |-> Head(toServer).id,
                                   call |-> Head(toServer).call])
  /\ toServer' = Tail(toServer)
  /\ UNCHANGED <<dialVars, broken, stalled, nReports, callVars, readVars, closePc>>

SendReport ==
  /\ ~broken /\ dialPc = "done" /\ nReports < MaxReports
  /\ toClient' = Append(toClient, Report)
  /\ nReports' = nReports + 1
  /\ UNCHANGED <<dialVars, broken, stalled, toServer, callVars, readVars, closePc>>

Break ==
  /\ ~broken /\ socket = "open"
  /\ broken' = TRUE
  /\ UNCHANGED <<dialVars, stalled, toServer, toClient, nReports, callVars, readVars, closePc>>

Stall ==
  /\ MayStall /\ ~stalled
  /\ stalled' = TRUE
  /\ UNCHANGED <<dialVars, broken, toServer, toClient, nReports, callVars, readVars, closePc>>

-----------------------------------------------------------------------------
Dial == DialTCP \/ DialHandshake \/ DialFails

sendAndReceive(k) ==
  \/ TakeID(k) \/ RegisterCall(k) \/ SetWriteDeadline(k) \/ SendRequest(k) \/ SendFails(k)
  \/ TakeResponse(k) \/ TakeError(k) \/ Timeout(k) \/ Cancelled(k)
  \/ ClearWriteDeadline(k) \/ Unregister(k)

readLoop ==
  \/ LoopTop \/ ReceivePdu \/ ReceiveFails \/ MarkClosed \/ Sweep \/ HandlerReturns
  \/ \E p \in readPdu : Lookup(p) \/ Deliver(p) \/ DispatchReport(p)

Close == CloseCall \/ CloseCancel \/ CloseSocket

Application == InstallReportHandler \/ UninstallReportHandler \/ Close \/ CancelContext

Server == Serve \/ SendReport \/ Break \/ Stall

Next ==
  \/ Dial
  \/ \E k \in Call : sendAndReceive(k)
  \/ readLoop
  \/ Application
  \/ Server

(***************************************************************************)
(* A goroutine that can go on does.  The TCP dial and the select of        *)
(* sendAndReceive have timers.  A broken connection fails the handshake.   *)
(* A handler returns.  The server owes nothing, and nobody has to make a   *)
(* call, to Close or to cancel.                                            *)
(***************************************************************************)
Proceed(k) ==
  \/ RegisterCall(k) \/ SetWriteDeadline(k) \/ SendRequest(k) \/ SendFails(k)
  \/ TakeResponse(k) \/ TakeError(k) \/ Timeout(k) \/ Cancelled(k)
  \/ ClearWriteDeadline(k) \/ Unregister(k)

Fairness ==
  /\ WF_vars(DialTCP) /\ WF_vars(broken /\ DialFails)
  /\ \A k \in Call : WF_vars(Proceed(k))
  /\ WF_vars(readLoop)
  /\ WF_vars(CloseCancel) /\ WF_vars(CloseSocket)

Spec == Init /\ [][Next]_vars /\ Fairness

-----------------------------------------------------------------------------
(* Properties. *)

CallPc == {"idle", "numbered", "registered", "sending", "waiting", "returning", "cleared",
           "done"}

\* Every variable of the client keeps its type.
TypeOK ==
  /\ dialPc \in {"tcp", "handshake", "done", "failed"}
  /\ state \in {"closed", "connecting", "connected", "closing"}
  /\ ctxDone \in BOOLEAN /\ broken \in BOOLEAN /\ stalled \in BOOLEAN
  /\ socket \in {"none", "open", "closed"}
  /\ writeDeadline \in BOOLEAN
  /\ invokeIDSeq \in Id
  /\ callPc \in [Call -> CallPc]
  /\ id \in [Call -> Id]
  /\ response \in [Call -> SUBSET Answer]
  /\ err \in [Call -> BOOLEAN]
  /\ result \in [Call -> {"none", "answered", "readError", "timeout", "cancelled",
                          "sendFailed"}]
  /\ pending \in [Id -> Call \cup {NoCall}]
  /\ toServer \in Seq([id : Id, call : Call])
  /\ toClient \in Seq(Pdu)
  /\ nReports \in 0..MaxReports
  /\ readPc \in {"none", "top", "receive", "dispatch", "deliver", "handler", "failed",
                 "sweep", "exited"}
  /\ readPdu \subseteq Pdu
  /\ readCall \in Call \cup {NoCall}
  /\ installed \in BOOLEAN
  /\ closePc \in {"idle", "cancel", "conclude", "done"}

\* sendAndReceive "waits for the matching response": what a call is given is
\* the answer to its own request, however late the answers to earlier calls
\* come and whichever of them have given up.
ResponseMatches ==
  \A k \in Call : \A p \in response[k] : p.call = k

\* A call that waits can be found under its invoke ID, and c.pending holds no
\* call that has returned.
PendingExact ==
  \A k \in Call :
    /\ callPc[k] \in {"registered", "sending", "waiting"} => pending[id[k]] = k
    /\ callPc[k] = "done" => \A i \in Id : pending[i] # k

\* However readLoop comes to its end, a call that is waiting then is woken
\* without its timer: it has an error or its answer, or the context is done.
LossReported ==
  [][(readPc # "exited" /\ readPc' = "exited") =>
       \A k \in Call : callPc[k] = "waiting" => err'[k] \/ response[k] # {} \/ ctxDone
    ]_vars

\* Every call returns: the server may be silent or gone, and a call that the
\* report handler makes, whose answer readLoop cannot fetch, times out.  Only a
\* server that stops reading can keep a call, when the deadline has been cleared.
\* Nor does a handler hold readLoop up for ever.
CallsReturn ==
  LET blocked == stalled /\ ~writeDeadline
  IN /\ \A k \in Call : (callPc[k] # "idle") ~> (callPc[k] = "done" \/ blocked)
     /\ (readPc = "handler") ~> (readPc # "handler" \/ blocked)

\* After Close of a connection that was not lost, readLoop ends, even if it is
\* blocked in Receive or in a handler.
CloseEnds == (closePc = "done" /\ state = "closing") ~> (readPc = "exited")

-----------------------------------------------------------------------------
(* The inductive invariant (IedClientProofs). *)

\* No invoke ID is used twice.
IdsSuffice == IsFiniteSet(Call) /\ Cardinality(Call) <= IdModulus

Started == {k \in Call : callPc[k] # "idle"}
Registered(k) == callPc[k] \in {"registered", "sending", "waiting", "returning", "cleared"}

\* readLoop dispatches one PDU at a time, and looks calls up for answers only.
ReadInv ==
  /\ \A p, q \in readPdu : p = q
  /\ readPc = "deliver" => readCall \in Call /\ \A p \in readPdu : p.kind = "answer"

\* Calls that have been numbered have different IDs.
NumberInv ==
  /\ Cardinality(Started) < IdModulus =>
       /\ invokeIDSeq = Cardinality(Started)
       /\ \A k \in Started : id[k] \in 1..Cardinality(Started)
  /\ \A k, j \in Started : id[k] = id[j] => k = j

\* c.pending holds the calls between registration and return, under their IDs.
PendingInv ==
  /\ \A i \in Id : pending[i] # NoCall => Registered(pending[i]) /\ id[pending[i]] = i
  /\ \A k \in Call : Registered(k) => pending[id[k]] = k

OfCall(p) == p.call \in Started /\ p.id = id[p.call]

\* Requests and answers carry the ID of their call, wherever they are, and the
\* call that readLoop has found is one with the ID of the answer.
PduInv ==
  /\ \A i \in 1..Len(toServer) : OfCall(toServer[i])
  /\ \A i \in 1..Len(toClient) : toClient[i].kind = "answer" => OfCall(toClient[i])
  /\ \A p \in readPdu : p.kind = "answer" => OfCall(p)
  /\ readPc = "deliver" =>
       readCall \in Started /\ \A p \in readPdu : p.id = id[readCall]

ClientInv ==
  TypeOK /\ ReadInv /\ NumberInv /\ PendingInv /\ PduInv /\ ResponseMatches
=============================================================================
