-------------------------- MODULE IedClientProofs --------------------------
(***************************************************************************)
(* The safety properties of the client hold for any number of requests and *)
(* reports, of a server that answers late, stops reading or goes away.     *)
(*                                                                         *)
(* Types need no hypothesis.  What is said about answers and c.pending     *)
(* rests on IdsSuffice: an invoke ID that came round again while the       *)
(* answer to its first request is still on its way would be taken for the  *)
(* new one.                                                                *)
(***************************************************************************)
EXTENDS IedClient, FiniteSetTheorems, TLAPS

USE ClientAssumption
USE DEF dialVars, netVars, callVars, readVars

-----------------------------------------------------------------------------
(* Sequences and PDUs. *)

\* The first element of a queue and the ones behind it.
LEMMA HeadAndTail ==
  ASSUME NEW S, NEW q \in Seq(S), q # << >>
  PROVE  /\ Head(q) \in S /\ Head(q) = q[1] /\ 1 \in 1..Len(q)
         /\ Tail(q) \in Seq(S) /\ Len(Tail(q)) = Len(q) - 1
         /\ \A i \in 1..Len(Tail(q)) : Tail(q)[i] = q[i + 1] /\ i + 1 \in 1..Len(q)
  OBVIOUS

\* An element that is appended comes last.
LEMMA AppendLast ==
  ASSUME NEW S, NEW q \in Seq(S), NEW x \in S
  PROVE  /\ Append(q, x) \in Seq(S) /\ Len(Append(q, x)) = Len(q) + 1
         /\ Append(q, x)[Len(q) + 1] = x
         /\ \A i \in 1..Len(q) : Append(q, x)[i] = q[i]
         /\ \A i \in 1..Len(Append(q, x)) : i \in 1..Len(q) \/ i = Len(q) + 1
  OBVIOUS

\* The elements are then the ones before and the new one.
LEMMA AppendElements ==
  ASSUME NEW S, NEW q \in Seq(S), NEW x \in S, NEW i \in 1..Len(Append(q, x))
  PROVE  \/ Append(q, x)[i] = x
         \/ i \in 1..Len(q) /\ Append(q, x)[i] = q[i]
  BY AppendLast

\* A PDU that is not a report is an answer.
LEMMA AnswerPdu ==
  /\ Report \in Pdu /\ Report.kind = "report"
  /\ \A p \in Pdu : p.kind = "answer" => p \in Answer
  /\ \A p \in Answer : p \in Pdu /\ p.kind = "answer" /\ p.id \in Id /\ p.call \in Call
  BY DEF Pdu, Report, Answer

\* The next invoke ID is an invoke ID.
LEMMA NextID ==
  ASSUME NEW n \in Id
  PROVE  nextInvokeID(n) \in Id
  BY DEF nextInvokeID, Id

-----------------------------------------------------------------------------
(* Types. *)

\* The initial state has the types.
LEMMA TypeInit == Init => TypeOK
<1> SUFFICES ASSUME Init PROVE TypeOK
  OBVIOUS
<1>1. 0 \in Id
  BY DEF Id
<1>2. /\ callPc \in [Call -> CallPc] /\ id \in [Call -> Id]
      /\ response \in [Call -> SUBSET Answer] /\ err \in [Call -> BOOLEAN]
      /\ result \in [Call -> {"none", "answered", "readError", "timeout", "cancelled",
                              "sendFailed"}]
      /\ pending \in [Id -> Call \cup {NoCall}]
  BY <1>1 DEF Init, CallPc
<1>3. toServer \in Seq([id : Id, call : Call]) /\ toClient \in Seq(Pdu)
  BY DEF Init
<1>4. ctxDone \in BOOLEAN /\ broken \in BOOLEAN /\ stalled \in BOOLEAN
  BY DEF Init
<1>5. writeDeadline \in BOOLEAN /\ installed \in BOOLEAN
  BY DEF Init
<1> QED
  BY <1>1, <1>2, <1>3, <1>4, <1>5 DEF Init, TypeOK

\* The steps of Dial keep the types.
LEMMA DialTypes ==
  ASSUME TypeOK, Dial
  PROVE  TypeOK'
<1> USE DEF TypeOK
<1>1. CASE DialTCP
  BY <1>1 DEF DialTCP
<1>2. CASE DialHandshake
  BY <1>2 DEF DialHandshake
<1>3. CASE DialFails
  BY <1>3 DEF DialFails
<1> QED
  BY <1>1, <1>2, <1>3 DEF Dial

\* So do those of sendAndReceive, ...
LEMMA CallTypes ==
  ASSUME TypeOK, NEW k \in Call, sendAndReceive(k)
  PROVE  TypeOK'
<1> USE DEF TypeOK, CallStep, CallPc
<1>1. CASE TakeID(k)
  BY <1>1, NextID DEF TakeID
<1>2. CASE RegisterCall(k)
  BY <1>2 DEF RegisterCall
<1>3. CASE SetWriteDeadline(k)
  BY <1>3 DEF SetWriteDeadline
<1>4. CASE SendRequest(k)
  <2>1. [id |-> id[k], call |-> k] \in [id : Id, call : Call]
    OBVIOUS
  <2>2. toServer' \in Seq([id : Id, call : Call])
    BY <1>4, <2>1, AppendLast DEF SendRequest
  <2> QED
    BY <1>4, <2>2 DEF SendRequest
<1>5. CASE SendFails(k)
  BY <1>5 DEF SendFails, Finish
<1>6. CASE TakeResponse(k)
  BY <1>6 DEF TakeResponse, Finish
<1>7. CASE TakeError(k)
  BY <1>7 DEF TakeError, Finish
<1>8. CASE Timeout(k)
  BY <1>8 DEF Timeout, Finish
<1>9. CASE Cancelled(k)
  BY <1>9 DEF Cancelled, Finish
<1>10. CASE ClearWriteDeadline(k)
  <2>1. callPc' \in [Call -> CallPc]
    BY <1>10 DEF ClearWriteDeadline
  <2>2. writeDeadline' \in BOOLEAN
    BY <1>10 DEF ClearWriteDeadline
  <2> QED
    BY <1>10, <2>1, <2>2 DEF ClearWriteDeadline
<1>11. CASE Unregister(k)
  BY <1>11 DEF Unregister
<1> QED
  BY <1>1, <1>2, <1>3, <1>4, <1>5, <1>6, <1>7, <1>8, <1>9, <1>10, <1>11 DEF sendAndReceive

\* ... those of readLoop, ...
LEMMA ReadTypes ==
  ASSUME TypeOK, ReadInv, readLoop
  PROVE  TypeOK'
<1> USE DEF TypeOK
<1>1. CASE LoopTop
  BY <1>1 DEF LoopTop
<1>2. CASE ReceivePdu
  <2>1. Head(toClient) \in Pdu /\ Tail(toClient) \in Seq(Pdu)
    BY <1>2, HeadAndTail DEF ReceivePdu
  <2>2. readPdu' \subseteq Pdu /\ toClient' \in Seq(Pdu)
    BY <1>2, <2>1 DEF ReceivePdu
  <2> QED
    BY <1>2, <2>2 DEF ReceivePdu
<1>3. CASE ReceiveFails
  BY <1>3 DEF ReceiveFails
<1>4. CASE MarkClosed
  BY <1>4 DEF MarkClosed
<1>5. CASE Sweep
  <2>1. err' \in [Call -> BOOLEAN]
    BY <1>5, Zenon DEF Sweep
  <2> QED
    BY <1>5, <2>1 DEF Sweep
<1>6. CASE HandlerReturns
  BY <1>6 DEF HandlerReturns
<1>7. ASSUME NEW p \in readPdu, Lookup(p) PROVE TypeOK'
  <2>1. p \in Answer
    BY <1>7, AnswerPdu DEF Lookup
  <2>2. pending[p.id] \in Call \cup {NoCall}
    BY <2>1, AnswerPdu
  <2> QED
    BY <1>7, <2>2 DEF Lookup
<1>8. ASSUME NEW p \in readPdu, Deliver(p) PROVE TypeOK'
  <2>1. p \in Answer
    BY <1>8, AnswerPdu DEF Deliver, ReadInv
  <2>2. response' \in [Call -> SUBSET Answer]
    BY <1>8, <2>1 DEF Deliver
  <2> QED
    BY <1>8, <2>2 DEF Deliver
<1>9. ASSUME NEW p \in readPdu, DispatchReport(p) PROVE TypeOK'
  BY <1>9 DEF DispatchReport
<1> QED
  BY <1>1, <1>2, <1>3, <1>4, <1>5, <1>6, <1>7, <1>8, <1>9 DEF readLoop

\* ... those of the application and those of the server.
LEMMA OtherTypes ==
  ASSUME TypeOK, Application \/ Server \/ UNCHANGED vars
  PROVE  TypeOK'
<1> USE DEF TypeOK
<1>1. CASE InstallReportHandler
  <2>1. installed' \in BOOLEAN
    BY <1>1 DEF InstallReportHandler
  <2> QED
    BY <1>1, <2>1 DEF InstallReportHandler
<1>2. CASE UninstallReportHandler
  <2>1. installed' \in BOOLEAN
    BY <1>2 DEF UninstallReportHandler
  <2> QED
    BY <1>2, <2>1 DEF UninstallReportHandler
<1>3. CASE CloseCall
  BY <1>3 DEF CloseCall
<1>4. CASE CloseCancel
  <2>1. ctxDone' \in BOOLEAN
    BY <1>4 DEF CloseCancel
  <2> QED
    BY <1>4, <2>1 DEF CloseCancel
<1>5. CASE CloseSocket
  BY <1>5 DEF CloseSocket
<1>6. CASE CancelContext
  <2>1. ctxDone' \in BOOLEAN
    BY <1>6 DEF CancelContext
  <2> QED
    BY <1>6, <2>1 DEF CancelContext
<1>7. CASE Serve
  <2>1. /\ Head(toServer) \in [id : Id, call : Call]
        /\ Tail(toServer) \in Seq([id : Id, call : Call])
    BY <1>7, HeadAndTail DEF Serve
  <2>2. [kind |-> "answer", id |-> Head(toServer).id, call |-> Head(toServer).call] \in Pdu
    BY <2>1 DEF Pdu, Answer
  <2>3. toClient' \in Seq(Pdu) /\ toServer' \in Seq([id : Id, call : Call])
    BY <1>7, <2>1, <2>2, AppendLast DEF Serve
  <2> QED
    BY <1>7, <2>3 DEF Serve
<1>8. CASE SendReport
  <2>1. toClient' \in Seq(Pdu)
    BY <1>8, AnswerPdu, AppendLast DEF SendReport
  <2> QED
    BY <1>8, <2>1 DEF SendReport
<1>9. CASE Break
  <2>1. broken' \in BOOLEAN
    BY <1>9 DEF Break
  <2> QED
    BY <1>9, <2>1 DEF Break
<1>10. CASE Stall
  <2>1. stalled' \in BOOLEAN
    BY <1>10 DEF Stall
  <2> QED
    BY <1>10, <2>1 DEF Stall
<1>11. CASE UNCHANGED vars
  BY <1>11 DEF vars
<1> QED
  BY <1>1, <1>2, <1>3, <1>4, <1>5, <1>6, <1>7, <1>8, <1>9, <1>10, <1>11
     DEF Application, Close, Server

\* A step keeps the types.
LEMMA TypeStep ==
  ASSUME TypeOK, ReadInv, [Next]_vars
  PROVE  TypeOK'
  BY DialTypes, CallTypes, ReadTypes, OtherTypes DEF Next

\* A step keeps readLoop to one PDU at a time.
LEMMA ReadStep ==
  ASSUME TypeOK, ReadInv, [Next]_vars
  PROVE  ReadInv'
<1> USE DEF ReadInv
<1>1. ASSUME UNCHANGED <<readPdu, readCall>>, readPc' # "deliver" \/ readPc' = readPc
      PROVE  ReadInv'
  BY <1>1
<1>2. CASE Dial
  BY <1>1, <1>2 DEF Dial, DialTCP, DialHandshake, DialFails
<1>3. ASSUME NEW k \in Call, sendAndReceive(k) PROVE ReadInv'
  BY <1>1, <1>3 DEF sendAndReceive, TakeID, RegisterCall, SetWriteDeadline, SendRequest,
       SendFails, TakeResponse, TakeError, Timeout, Cancelled, Finish, ClearWriteDeadline,
       Unregister
<1>4. CASE LoopTop \/ ReceiveFails \/ MarkClosed \/ Sweep \/ HandlerReturns
  BY <1>1, <1>4 DEF LoopTop, ReceiveFails, MarkClosed, Sweep, HandlerReturns
<1>5. CASE ReceivePdu
  BY <1>5 DEF ReceivePdu
<1>6. ASSUME NEW p \in readPdu, Lookup(p) PROVE ReadInv'
  <2>1. p \in Answer
    BY <1>6, AnswerPdu DEF Lookup, TypeOK
  <2>2. pending[p.id] \in Call \cup {NoCall}
    BY <2>1, AnswerPdu DEF TypeOK
  <2> QED
    BY <1>6, <2>2 DEF Lookup
<1>7. ASSUME NEW p \in readPdu, Deliver(p) \/ DispatchReport(p) PROVE ReadInv'
  BY <1>1, <1>7 DEF Deliver, DispatchReport
<1>8. CASE Application \/ Server \/ UNCHANGED vars
  BY <1>1, <1>8 DEF Application, InstallReportHandler, UninstallReportHandler, Close, CloseCall,
       CloseCancel, CloseSocket, CancelContext, Server, Serve, SendReport, Break, Stall, vars
<1> QED
  BY <1>2, <1>3, <1>4, <1>5, <1>6, <1>7, <1>8 DEF Next, readLoop

-----------------------------------------------------------------------------
(* What a step does to the calls. *)

\* A call goes on between its registration and its return.
Moves(k) ==
  /\ Registered(k) /\ Registered(k)'
  /\ \A j \in Call : j # k => callPc'[j] = callPc[j]
  /\ UNCHANGED <<invokeIDSeq, id, pending, response, toServer, toClient, readPc, readPdu,
                 readCall>>

\* The calls that go on.
LEMMA CallMoves ==
  ASSUME TypeOK, NEW k \in Call,
         \/ SetWriteDeadline(k) \/ SendFails(k) \/ TakeResponse(k) \/ TakeError(k)
         \/ Timeout(k) \/ Cancelled(k) \/ ClearWriteDeadline(k)
  PROVE  Moves(k)
<1> USE DEF TypeOK, CallStep, Moves, Registered
<1>1. CASE SetWriteDeadline(k)
  BY <1>1 DEF SetWriteDeadline
<1>2. CASE SendFails(k)
  BY <1>2 DEF SendFails, Finish
<1>3. CASE TakeResponse(k)
  BY <1>3 DEF TakeResponse, Finish
<1>4. CASE TakeError(k)
  BY <1>4 DEF TakeError, Finish
<1>5. CASE Timeout(k)
  BY <1>5 DEF Timeout, Finish
<1>6. CASE Cancelled(k)
  BY <1>6 DEF Cancelled, Finish
<1>7. CASE ClearWriteDeadline(k)
  BY <1>7 DEF ClearWriteDeadline
<1> QED
  BY <1>1, <1>2, <1>3, <1>4, <1>5, <1>6, <1>7

\* A step of sendAndReceive, by what it does to the call.
LEMMA CallKinds ==
  ASSUME TypeOK, NEW k \in Call, sendAndReceive(k)
  PROVE  TakeID(k) \/ RegisterCall(k) \/ SendRequest(k) \/ Unregister(k) \/ Moves(k)
  BY CallMoves DEF sendAndReceive

\* The other steps leave the calls alone.
LEMMA CallsKept ==
  ASSUME Dial \/ readLoop \/ Application \/ Server \/ UNCHANGED vars
  PROVE  UNCHANGED <<invokeIDSeq, callPc, id, pending>>
<1>1. CASE Dial
  BY <1>1 DEF Dial, DialTCP, DialHandshake, DialFails
<1>2. CASE readLoop
  BY <1>2 DEF readLoop, LoopTop, ReceivePdu, ReceiveFails, MarkClosed, Sweep, HandlerReturns,
       Lookup, Deliver, DispatchReport
<1>3. CASE Application
  BY <1>3 DEF Application, InstallReportHandler, UninstallReportHandler, Close, CloseCall,
       CloseCancel, CloseSocket, CancelContext
<1>4. CASE Server
  BY <1>4 DEF Server, Serve, SendReport, Break, Stall
<1>5. CASE UNCHANGED vars
  BY <1>5 DEF vars
<1> QED
  BY <1>1, <1>2, <1>3, <1>4, <1>5

\* A step, by what it does to the calls.
LEMMA StepKinds ==
  ASSUME TypeOK, [Next]_vars
  PROVE  \/ \E k \in Call :
              TakeID(k) \/ RegisterCall(k) \/ SendRequest(k) \/ Unregister(k) \/ Moves(k)
         \/ UNCHANGED <<invokeIDSeq, callPc, id, pending>>
  BY CallKinds, CallsKept DEF Next

\* Only TakeID starts a call; the numbers of the other calls stay.
LEMMA StartedStep ==
  ASSUME TypeOK, [Next]_vars
  PROVE  \/ Started' = Started /\ UNCHANGED <<invokeIDSeq, id>>
         \/ \E k \in Call : TakeID(k)
<1> USE DEF TypeOK, CallStep
<1>1. ASSUME NEW k \in Call, RegisterCall(k)
      PROVE  Started' = Started /\ UNCHANGED <<invokeIDSeq, id>>
  BY <1>1 DEF RegisterCall, Started
<1>2. ASSUME NEW k \in Call, SendRequest(k)
      PROVE  Started' = Started /\ UNCHANGED <<invokeIDSeq, id>>
  BY <1>2 DEF SendRequest, Started
<1>3. ASSUME NEW k \in Call, Unregister(k)
      PROVE  Started' = Started /\ UNCHANGED <<invokeIDSeq, id>>
  BY <1>3 DEF Unregister, Started
<1>4. ASSUME NEW k \in Call, Moves(k)
      PROVE  Started' = Started /\ UNCHANGED <<invokeIDSeq, id>>
  BY <1>4 DEF Moves, Registered, Started
<1>5. ASSUME UNCHANGED <<invokeIDSeq, callPc, id, pending>>
      PROVE  Started' = Started /\ UNCHANGED <<invokeIDSeq, id>>
  BY <1>5 DEF Started
<1> QED
  BY <1>1, <1>2, <1>3, <1>4, <1>5, StepKinds

\* TakeID starts its call and numbers it.
LEMMA TakeIDStarts ==
  ASSUME TypeOK, NEW k \in Call, TakeID(k)
  PROVE  /\ k \notin Started /\ Started' = Started \cup {k}
         /\ invokeIDSeq' = nextInvokeID(invokeIDSeq) /\ id'[k] = nextInvokeID(invokeIDSeq)
         /\ \A j \in Call : j # k => id'[j] = id[j]
         /\ UNCHANGED <<pending, response, toServer, toClient, readPc, readPdu, readCall>>
  BY DEF TypeOK, TakeID, CallStep, Started

-----------------------------------------------------------------------------
(* Invoke IDs. *)

\* A step keeps the IDs of the calls different.
LEMMA NumberStep ==
  ASSUME IdsSuffice, TypeOK, NumberInv, [Next]_vars
  PROVE  NumberInv'
<1>1. CASE Started' = Started /\ UNCHANGED <<invokeIDSeq, id>>
  BY <1>1 DEF NumberInv
<1>2. ASSUME NEW k \in Call, TakeID(k) PROVE NumberInv'
  <2> DEFINE c == Cardinality(Started)
  <2>1. /\ k \notin Started /\ Started' = Started \cup {k}
        /\ invokeIDSeq' = nextInvokeID(invokeIDSeq) /\ id'[k] = nextInvokeID(invokeIDSeq)
        /\ \A j \in Started : id'[j] = id[j]
    BY <1>2, TakeIDStarts DEF Started
  <2>2. /\ IsFiniteSet(Started) /\ c \in Nat /\ Cardinality(Started') = c + 1
        /\ c + 1 <= IdModulus
    <3>1. Started \subseteq Call /\ Started' \subseteq Call /\ IsFiniteSet(Call)
      BY <2>1 DEF Started, IdsSuffice
    <3>2. /\ IsFiniteSet(Started) /\ Cardinality(Started) \in Nat
          /\ IsFiniteSet(Call) /\ Cardinality(Call) \in Nat
      BY <3>1, FS_Subset, FS_CardinalityType
    <3>3. Cardinality(Started') = c + 1
      BY <2>1, <3>2, FS_AddElement
    <3>4. Cardinality(Started') <= Cardinality(Call)
      BY <3>1, FS_Subset
    <3> QED
      BY <3>2, <3>3, <3>4 DEF IdsSuffice
  <2> HIDE DEF c
  <2>3. invokeIDSeq = c /\ \A j \in Started : id[j] \in 1..c
    BY <2>2 DEF NumberInv, c
  <2>4. /\ c + 1 < IdModulus => nextInvokeID(invokeIDSeq) = c + 1
        /\ c + 1 = IdModulus => nextInvokeID(invokeIDSeq) = 0
    BY <2>2, <2>3 DEF nextInvokeID
  <2>5. \A j \in Started : id[j] # nextInvokeID(invokeIDSeq)
    BY <2>2, <2>3, <2>4
  <2>6. \A j, l \in Started' : id'[j] = id'[l] => j = l
    BY <2>1, <2>5 DEF NumberInv
  <2>7. c + 1 < IdModulus =>
          /\ invokeIDSeq' = c + 1
          /\ \A j \in Started' : id'[j] \in 1..(c + 1)
    BY <2>1, <2>2, <2>3, <2>4
  <2> QED
    BY <2>2, <2>6, <2>7 DEF NumberInv
<1> QED
  BY <1>1, <1>2, StartedStep

\* A step keeps c.pending exact.
LEMMA PendingStep ==
  ASSUME TypeOK, NumberInv, PendingInv, [Next]_vars
  PROVE  PendingInv'
<1> USE DEF TypeOK, CallStep, PendingInv, Registered
<1>1. ASSUME NEW k \in Call, TakeID(k) PROVE PendingInv'
  BY <1>1 DEF TakeID
<1>2. ASSUME NEW k \in Call, RegisterCall(k) PROVE PendingInv'
  <2>1. /\ callPc[k] = "numbered" /\ callPc' = [callPc EXCEPT ![k] = "registered"]
        /\ pending' = [pending EXCEPT ![id[k]] = k] /\ id' = id
    BY <1>2 DEF RegisterCall
  <2>2. \A j \in Call : Registered(j) => id[j] # id[k]
    BY <2>1 DEF NumberInv, Started
  <2> QED
    BY <2>1, <2>2
<1>3. ASSUME NEW k \in Call, SendRequest(k) PROVE PendingInv'
  BY <1>3 DEF SendRequest
<1>4. ASSUME NEW k \in Call, Unregister(k) PROVE PendingInv'
  <2>1. /\ callPc[k] = "cleared" /\ callPc' = [callPc EXCEPT ![k] = "done"]
        /\ pending' = [pending EXCEPT ![id[k]] = NoCall] /\ id' = id
    BY <1>4 DEF Unregister
  <2>2. \A j \in Call : Registered(j) /\ j # k => id[j] # id[k]
    BY <2>1 DEF NumberInv, Started
  <2> QED
    BY <2>1, <2>2
<1>5. ASSUME NEW k \in Call, Moves(k) PROVE PendingInv'
  BY <1>5 DEF Moves
<1>6. ASSUME UNCHANGED <<invokeIDSeq, callPc, id, pending>> PROVE PendingInv'
  BY <1>6
<1> QED
  BY <1>1, <1>2, <1>3, <1>4, <1>5, <1>6, StepKinds

-----------------------------------------------------------------------------
(* Requests and answers. *)

\* A PDU goes on carrying the ID of its call.
LEMMA OfCallKept ==
  ASSUME TypeOK, [Next]_vars
  PROVE  /\ \A j \in Started : j \in Started' /\ id'[j] = id[j]
         /\ \A p : OfCall(p) => p.call \in Started' /\ p.id = id'[p.call]
<1>1. \A j \in Started : j \in Started' /\ id'[j] = id[j]
  <2>1. CASE Started' = Started /\ UNCHANGED <<invokeIDSeq, id>>
    BY <2>1
  <2>2. ASSUME NEW k \in Call, TakeID(k)
        PROVE  \A j \in Started : j \in Started' /\ id'[j] = id[j]
    BY <2>2, TakeIDStarts DEF Started
  <2> QED
    BY <2>1, <2>2, StartedStep
<1> QED
  BY <1>1 DEF OfCall

\* A step that moves no PDU keeps PduInv.
LEMMA PduKept ==
  ASSUME TypeOK, PduInv, [Next]_vars, UNCHANGED <<toServer, toClient, readPdu, readCall>>,
         readPc' # "deliver" \/ readPc' = readPc
  PROVE  PduInv'
<1>1. \A i \in 1..Len(toServer) : OfCall(toServer[i])'
  BY OfCallKept DEF PduInv, OfCall
<1>2. \A i \in 1..Len(toClient) : toClient[i].kind = "answer" => OfCall(toClient[i])'
  BY OfCallKept DEF PduInv, OfCall
<1>3. \A p \in readPdu : p.kind = "answer" => OfCall(p)'
  BY OfCallKept DEF PduInv, OfCall
<1>4. readPc' = "deliver" =>
        readCall \in Started' /\ \A p \in readPdu : p.id = id'[readCall]
  BY OfCallKept DEF PduInv
<1> QED
  BY <1>1, <1>2, <1>3, <1>4 DEF PduInv

\* The steps that move a PDU.
LEMMA PduSteps ==
  ASSUME TypeOK, [Next]_vars
  PROVE  \/ /\ UNCHANGED <<toServer, toClient, readPdu, readCall>>
            /\ readPc' # "deliver" \/ readPc' = readPc
         \/ Serve \/ SendReport \/ ReceivePdu
         \/ \E k \in Call : SendRequest(k)
         \/ \E p \in readPdu : Lookup(p)
<1> DEFINE Still == /\ UNCHANGED <<toServer, toClient, readPdu, readCall>>
                    /\ readPc' # "deliver" \/ readPc' = readPc
<1>1. Dial => Still
  BY DEF Dial, DialTCP, DialHandshake, DialFails
<1>2. ASSUME NEW k \in Call, sendAndReceive(k) PROVE Still \/ SendRequest(k)
  BY <1>2, CallKinds DEF TakeID, RegisterCall, Unregister, Moves
<1>3. readLoop => Still \/ ReceivePdu \/ \E p \in readPdu : Lookup(p)
  BY DEF readLoop, LoopTop, ReceiveFails, MarkClosed, Sweep, HandlerReturns, Deliver,
         DispatchReport
<1>4. Application => Still
  BY DEF Application, InstallReportHandler, UninstallReportHandler, Close, CloseCall,
         CloseCancel, CloseSocket, CancelContext
<1>5. Server => Still \/ Serve \/ SendReport
  BY DEF Server, Break, Stall
<1>6. UNCHANGED vars => Still
  BY DEF vars
<1> HIDE DEF Still
<1>7. Still \/ Serve \/ SendReport \/ ReceivePdu \/ (\E k \in Call : SendRequest(k))
      \/ \E p \in readPdu : Lookup(p)
  BY <1>1, <1>2, <1>3, <1>4, <1>5, <1>6 DEF Next
<1> QED
  BY <1>7 DEF Still

\* A step keeps the PDUs with their calls.
LEMMA PduStep ==
  ASSUME TypeOK, ReadInv, PendingInv, PduInv, [Next]_vars
  PROVE  PduInv'
<1>0. \A p : OfCall(p) => OfCall(p)'
  BY OfCallKept DEF OfCall
<1>1. CASE /\ UNCHANGED <<toServer, toClient, readPdu, readCall>>
           /\ readPc' # "deliver" \/ readPc' = readPc
  BY <1>1, PduKept
<1>2. CASE Serve
  <2>1. /\ Head(toServer) = toServer[1] /\ 1 \in 1..Len(toServer)
        /\ \A i \in 1..Len(Tail(toServer)) :
             Tail(toServer)[i] = toServer[i + 1] /\ i + 1 \in 1..Len(toServer)
        /\ Head(toServer) \in [id : Id, call : Call]
    BY <1>2, HeadAndTail DEF Serve, TypeOK
  <2> DEFINE a == [kind |-> "answer", id |-> Head(toServer).id, call |-> Head(toServer).call]
  <2>2. a \in Pdu /\ a.id = toServer[1].id /\ a.call = toServer[1].call
    BY <2>1 DEF Pdu, Answer
  <2>3. toClient' = Append(toClient, a) /\ toServer' = Tail(toServer)
    BY <1>2 DEF Serve
  <2>4. OfCall(a)
    BY <2>1, <2>2 DEF PduInv, OfCall
  <2> HIDE DEF a
  <2>5. \A i \in 1..Len(toClient') :
          \/ toClient'[i] = a
          \/ i \in 1..Len(toClient) /\ toClient'[i] = toClient[i]
    <3>1. toClient \in Seq(Pdu) /\ toClient' = Append(toClient, a) /\ a \in Pdu
      BY <2>2, <2>3 DEF TypeOK
    <3> QED
      BY <3>1, AppendElements
  <2>6. \A i \in 1..Len(toClient') : toClient'[i].kind = "answer" => OfCall(toClient'[i])
    BY <2>4, <2>5 DEF PduInv
  <2>7. \A i \in 1..Len(toServer') : OfCall(toServer'[i])
    BY <2>1, <2>3 DEF PduInv
  <2>8. UNCHANGED <<readPc, readPdu, readCall, callPc, id>>
    BY <1>2 DEF Serve
  <2> QED
    BY <2>6, <2>7, <2>8 DEF PduInv, OfCall, Started
<1>3. CASE SendReport
  <2>1. toClient' = Append(toClient, Report)
    BY <1>3 DEF SendReport
  <2>2. \A i \in 1..Len(toClient') :
          \/ toClient'[i] = Report
          \/ i \in 1..Len(toClient) /\ toClient'[i] = toClient[i]
    <3>1. toClient \in Seq(Pdu) /\ toClient' = Append(toClient, Report) /\ Report \in Pdu
      BY <2>1, AnswerPdu DEF TypeOK
    <3> QED
      BY <3>1, AppendElements
  <2>3. \A i \in 1..Len(toClient') : toClient'[i].kind = "answer" => OfCall(toClient'[i])
    BY <2>2, AnswerPdu DEF PduInv
  <2>4. UNCHANGED <<toServer, readPc, readPdu, readCall, callPc, id>>
    BY <1>3 DEF SendReport
  <2> QED
    BY <2>3, <2>4 DEF PduInv, OfCall, Started
<1>4. CASE ReceivePdu
  <2>1. /\ Head(toClient) = toClient[1] /\ 1 \in 1..Len(toClient)
        /\ \A i \in 1..Len(Tail(toClient)) :
             Tail(toClient)[i] = toClient[i + 1] /\ i + 1 \in 1..Len(toClient)
    BY <1>4, HeadAndTail DEF ReceivePdu, TypeOK
  <2>2. /\ readPdu' = {Head(toClient)} /\ toClient' = Tail(toClient) /\ readPc' = "dispatch"
        /\ UNCHANGED <<toServer, callPc, id>>
    BY <1>4 DEF ReceivePdu
  <2>3. \A i \in 1..Len(toClient') : toClient'[i].kind = "answer" => OfCall(toClient'[i])
    BY <2>1, <2>2 DEF PduInv
  <2>4. \A p \in readPdu' : p.kind = "answer" => OfCall(p)
    BY <2>1, <2>2 DEF PduInv
  <2> QED
    BY <2>2, <2>3, <2>4 DEF PduInv, OfCall, Started
<1>5. ASSUME NEW k \in Call, SendRequest(k) PROVE PduInv'
  <2> DEFINE r == [id |-> id[k], call |-> k]
  <2>1. /\ toServer' = Append(toServer, r) /\ callPc[k] = "sending"
        /\ UNCHANGED <<toClient, readPc, readPdu, readCall, id>>
    BY <1>5 DEF SendRequest, CallStep
  <2>2. r \in [id : Id, call : Call] /\ r.id = id[k] /\ r.call = k
    BY DEF TypeOK
  <2>3. k \in Started /\ OfCall(r)
    BY <2>1, <2>2 DEF Started, OfCall
  <2> HIDE DEF r
  <2>4. \A i \in 1..Len(toServer') :
          \/ toServer'[i] = r
          \/ i \in 1..Len(toServer) /\ toServer'[i] = toServer[i]
    <3>1. toServer \in Seq([id : Id, call : Call]) /\ toServer' = Append(toServer, r) /\ r \in [id : Id, call : Call]
      BY <2>1, <2>2 DEF TypeOK
    <3> QED
      BY <3>1, AppendElements
  <2>5. \A i \in 1..Len(toServer') : OfCall(toServer'[i])
    BY <2>3, <2>4 DEF PduInv
  <2>6. Started' = Started
    BY <1>5 DEF SendRequest, CallStep, Started, TypeOK
  <2> QED
    BY <2>1, <2>5, <2>6 DEF PduInv, OfCall
<1>6. ASSUME NEW p \in readPdu, Lookup(p) PROVE PduInv'
  <2>1. /\ p.kind = "answer" /\ readCall' = pending[p.id]
        /\ readPc' = "deliver" => pending[p.id] # NoCall
        /\ UNCHANGED <<toServer, toClient, readPdu, callPc, id>>
    BY <1>6 DEF Lookup
  <2>2. p.id \in Id
    BY <2>1, AnswerPdu DEF TypeOK
  <2>3. readPc' = "deliver" =>
          readCall' \in Started /\ \A q \in readPdu : q.id = id[readCall']
    <3> SUFFICES ASSUME readPc' = "deliver"
                 PROVE  readCall' \in Started /\ \A q \in readPdu : q.id = id[readCall']
      OBVIOUS
    <3>1. readCall' \in Call /\ Registered(readCall') /\ id[readCall'] = p.id
      BY <2>1, <2>2 DEF PendingInv, TypeOK
    <3>2. \A q \in readPdu : q = p
      BY DEF ReadInv
    <3> QED
      BY <3>1, <3>2 DEF Registered, Started
  <2> QED
    BY <2>1, <2>3 DEF PduInv, OfCall, Started
<1> QED
  BY <1>1, <1>2, <1>3, <1>4, <1>5, <1>6, PduSteps

\* A step keeps the answers with their calls: the answer that readLoop delivers
\* and the call that it has found have the same ID, and so they belong together.
LEMMA MatchStep ==
  ASSUME TypeOK, ReadInv, NumberInv, PduInv, ResponseMatches, [Next]_vars
  PROVE  ResponseMatches'
<1>1. CASE UNCHANGED response
  BY <1>1 DEF ResponseMatches
<1>2. ASSUME NEW p \in readPdu, Deliver(p) PROVE ResponseMatches'
  <2>1. /\ p.kind = "answer" /\ OfCall(p) /\ readCall \in Started /\ p.id = id[readCall]
    BY <1>2 DEF Deliver, ReadInv, PduInv
  <2>2. p.call = readCall
    BY <2>1 DEF NumberInv, OfCall
  <2>3. \A k \in Call : response'[k] = response[k] \/ (k = readCall /\ response'[k] = {p})
    BY <1>2 DEF Deliver, TypeOK
  <2> QED
    BY <2>2, <2>3 DEF ResponseMatches
<1>3. ASSUME NEW k \in Call, sendAndReceive(k) PROVE UNCHANGED response
  BY <1>3, CallKinds DEF TakeID, RegisterCall, SendRequest, Unregister, Moves
<1>4. CASE Dial \/ Application \/ Server \/ UNCHANGED vars
  BY <1>1, <1>4 DEF Dial, DialTCP, DialHandshake, DialFails, Application,
       InstallReportHandler, UninstallReportHandler, Close, CloseCall, CloseCancel,
       CloseSocket, CancelContext, Server, Serve, SendReport, Break, Stall, vars
<1>5. readLoop => UNCHANGED response \/ \E p \in readPdu : Deliver(p)
  BY DEF readLoop, LoopTop, ReceivePdu, ReceiveFails, MarkClosed, Sweep, HandlerReturns,
         Lookup, DispatchReport
<1> QED
  BY <1>1, <1>2, <1>3, <1>4, <1>5 DEF Next

-----------------------------------------------------------------------------
(* The theorems. *)

\* Types and ReadInv need no other part.
LEMMA ReadInvariance == Spec => [](TypeOK /\ ReadInv)
<1>1. Init => TypeOK /\ ReadInv
  BY TypeInit DEF Init, ReadInv
<1>2. TypeOK /\ ReadInv /\ [Next]_vars => (TypeOK /\ ReadInv)'
  BY TypeStep, ReadStep
<1> QED
  BY <1>1, <1>2, PTL DEF Spec

\* Every variable of the client keeps its type, also when invoke IDs come
\* round: readLoop delivers nothing but answers.
THEOREM ClientTypes == Spec => []TypeOK
<1>1. TypeOK /\ ReadInv => TypeOK
  OBVIOUS
<1> QED
  BY <1>1, ReadInvariance, PTL

\* ClientInv is inductive, so it holds for any number of requests up to the
\* number of invoke IDs, whatever the server does.
THEOREM ClientInvariance ==
  ASSUME IdsSuffice
  PROVE  Spec => []ClientInv
<1>1. Init => ClientInv
  <2> SUFFICES ASSUME Init PROVE ClientInv
    OBVIOUS
  <2>1. TypeOK
    BY TypeInit
  <2>2. Started = {}
    BY DEF Init, Started
  <2>3. Cardinality(Started) = 0
    BY <2>2, FS_EmptySet
  <2>4. NumberInv
    BY <2>2, <2>3 DEF Init, NumberInv
  <2>5. PendingInv
    BY DEF Init, PendingInv, Registered
  <2>6. ReadInv /\ PduInv /\ ResponseMatches
    BY DEF Init, ReadInv, PduInv, ResponseMatches
  <2> QED
    BY <2>1, <2>4, <2>5, <2>6 DEF ClientInv
<1>2. ClientInv /\ [Next]_vars => ClientInv'
  BY TypeStep, ReadStep, NumberStep, PendingStep, PduStep, MatchStep DEF ClientInv
<1> QED
  BY <1>1, <1>2, PTL DEF Spec

\* sendAndReceive gives every call the answer to its own request, however late
\* earlier answers come, as long as no invoke ID is used twice.
THEOREM ResponsesMatch ==
  ASSUME IdsSuffice
  PROVE  Spec => []ResponseMatches
<1>1. ClientInv => ResponseMatches
  BY DEF ClientInv
<1> QED
  BY <1>1, ClientInvariance, PTL

\* A waiting call can be found in c.pending, and a call that has returned has
\* left it, as long as no invoke ID is used twice.
THEOREM PendingIsExact ==
  ASSUME IdsSuffice
  PROVE  Spec => []PendingExact
<1>1. ClientInv => PendingExact
  BY DEF ClientInv, PendingInv, Registered, PendingExact, TypeOK
<1> QED
  BY <1>1, ClientInvariance, PTL

\* When readLoop ends, every call that waits has an error or its answer, or the
\* context is done: the sweep over c.pending forgets none of them.
THEOREM LossIsReported ==
  ASSUME IdsSuffice
  PROVE  Spec => LossReported
<1>1. ClientInv /\ [Next]_vars =>
        [(readPc # "exited" /\ readPc' = "exited") =>
           \A k \in Call : callPc[k] = "waiting" => err'[k] \/ response[k] # {} \/ ctxDone]_vars
  <2> SUFFICES ASSUME ClientInv, Next, readPc # "exited", readPc' = "exited",
                      NEW k \in Call, callPc[k] = "waiting"
               PROVE  err'[k] \/ ctxDone
    OBVIOUS
  <2>1. LoopTop \/ ReceiveFails \/ Sweep
    <3>1. ~Dial
      BY DEF Dial, DialTCP, DialHandshake, DialFails
    <3>2. \A j \in Call : ~sendAndReceive(j)
      BY CallKinds DEF TakeID, RegisterCall, SendRequest, Unregister, Moves, ClientInv
    <3>3. ~Application
      BY DEF Application, InstallReportHandler, UninstallReportHandler, Close, CloseCall,
             CloseCancel, CloseSocket, CancelContext
    <3>4. ~Server
      BY DEF Server, Serve, SendReport, Break, Stall
    <3> QED
      BY <3>1, <3>2, <3>3, <3>4 DEF Next, readLoop, ReceivePdu, MarkClosed, HandlerReturns,
           Lookup, Deliver, DispatchReport
  <2>2. CASE LoopTop \/ ReceiveFails
    BY <2>2 DEF LoopTop, ReceiveFails
  <2>3. CASE Sweep
    <3>1. pending[id[k]] = k /\ id[k] \in Id
      BY DEF ClientInv, PendingInv, Registered, TypeOK
    <3> QED
      BY <2>3, <3>1 DEF Sweep
  <2> QED
    BY <2>1, <2>2, <2>3
<1> QED
  BY <1>1, ClientInvariance, PTL DEF Spec, LossReported
=============================================================================
