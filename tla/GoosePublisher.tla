--------------------------- MODULE GoosePublisher ---------------------------
(***************************************************************************)
(* The GOOSE publisher (pkg/goose/goose.go, Publisher).  Publish and       *)
(* Retransmit change p.pdu under p.mu, and copy it for the frame after     *)
(* they have released the mutex.  The copy is a data race when another     *)
(* goroutine is in one of them: the fields are read one at a time, in any  *)
(* order, between the assignments of the other goroutine.                  *)
(*                                                                         *)
(* Of the PDU the model keeps StNum, SqNum, AllData and, for the fields    *)
(* that the setters change, ConfRev.                                       *)
(***************************************************************************)
EXTENDS Integers, Sequences

CONSTANTS
  Publishes,     \* goroutines that call Publish and the setters
  Retransmits,   \* goroutines that call Retransmit
  Value,         \* dataset values
  NoData,        \* AllData before the first Publish
  NoTask,
  NumModulus,    \* StNum and SqNum count modulo this (uint32: 2^32)
  MaxCalls       \* bound: calls of Publish, Retransmit and the setters

Task == Publishes \cup Retransmits

ASSUME PublisherAssumption ==
  /\ NoTask \notin Task
  /\ NoData \notin Value
  /\ NumModulus \in Nat \ {0}
  /\ MaxCalls \in Nat

VARIABLES
  mu,         \* p.mu: the goroutine that holds it
  pdu,        \* p.pdu
  open,       \* p.rawSock is open
  pc,         \* pc[t]: where goroutine t is
  arg,        \* arg[t]: the values it publishes
  frame,      \* frame[t]: the fields of the PDU that it has copied
  wire,       \* the frames sent
  nCalls,     \* calls made
  published,  \* auxiliary: how often Publish has released the mutex,
  repeated,   \*   how often Retransmit has since then,
  overlapped, \*   whether two calls have ever been under way together,
  wrapped     \*   and whether a number has gone back to 0

vars == <<mu, pdu, open, pc, arg, frame, wire, nCalls, published, repeated, overlapped,
          wrapped>>

Field == {"StNum", "SqNum", "AllData", "ConfRev"}
Num == 0..(NumModulus - 1)
Pdu == [StNum : Num, SqNum : Num, AllData : Value \cup {NoData}, ConfRev : Nat]

\* NewPublisher.
Init ==
  /\ mu = NoTask
  /\ pdu = [StNum |-> 0, SqNum |-> 0, AllData |-> NoData, ConfRev |-> 1]
  /\ open = TRUE
  /\ pc = [t \in Task |-> "idle"]
  /\ arg = [t \in Task |-> NoData]
  /\ frame = [t \in Task |-> << >>]
  /\ wire = << >>
  /\ nCalls = 0 /\ published = 0 /\ repeated = 0
  /\ overlapped = FALSE /\ wrapped = FALSE

Goto(t, from, to) == pc[t] = from /\ pc' = [pc EXCEPT ![t] = to]

Call ==
  /\ nCalls < MaxCalls /\ nCalls' = nCalls + 1
  /\ overlapped' = (overlapped \/ \E t \in Task : pc[t] # "idle")

-----------------------------------------------------------------------------
(* Publish. *)

Publish(t, v) ==
  /\ t \in Publishes /\ Goto(t, "idle", "lockPublish")
  /\ Call
  /\ arg' = [arg EXCEPT ![t] = v]
  /\ UNCHANGED <<mu, pdu, open, frame, wire, published, repeated, wrapped>>

Lock(t, from, to) ==
  /\ Goto(t, from, to)
  /\ mu = NoTask /\ mu' = t
  /\ UNCHANGED <<pdu, open, arg, frame, wire, nCalls, published, repeated, overlapped,
                 wrapped>>

\* Mutant of PublishStNum: the state number stays.
PublishStNumKept(t) ==
  /\ Goto(t, "publish", "publishSqNum")
  /\ UNCHANGED <<mu, pdu, open, arg, frame, wire, nCalls, published, repeated, overlapped,
                 wrapped>>

PublishStNum(t) ==
  /\ Goto(t, "publish", "publishSqNum")
  /\ pdu' = [pdu EXCEPT !.StNum = (@ + 1) % NumModulus]
  /\ wrapped' = (wrapped \/ pdu'.StNum = 0)
  /\ UNCHANGED <<mu, open, arg, frame, wire, nCalls, published, repeated, overlapped>>

\* Mutant of PublishSqNum: the number is not reset.
PublishSqNumKept(t) ==
  /\ Goto(t, "publishSqNum", "publishAllData")
  /\ UNCHANGED <<mu, pdu, open, arg, frame, wire, nCalls, published, repeated, overlapped,
                 wrapped>>

PublishSqNum(t) ==
  /\ Goto(t, "publishSqNum", "publishAllData")
  /\ pdu' = [pdu EXCEPT !.SqNum = 0]
  /\ UNCHANGED <<mu, open, arg, frame, wire, nCalls, published, repeated, overlapped,
                 wrapped>>

\* Mutant of PublishAllData: the mutex is not released.
PublishAllDataLocked(t) ==
  /\ Goto(t, "publishAllData", "copy")
  /\ pdu' = [pdu EXCEPT !.AllData = arg[t]]
  /\ published' = published + 1 /\ repeated' = 0
  /\ UNCHANGED <<mu, open, arg, frame, wire, nCalls, overlapped, wrapped>>

\* The last assignments, and the mutex is released.
PublishAllData(t) ==
  /\ Goto(t, "publishAllData", "copy")
  /\ pdu' = [pdu EXCEPT !.AllData = arg[t]]
  /\ mu' = NoTask
  /\ published' = published + 1 /\ repeated' = 0
  /\ UNCHANGED <<open, arg, frame, wire, nCalls, overlapped, wrapped>>

-----------------------------------------------------------------------------
(* Retransmit. *)

Retransmit(t) ==
  /\ t \in Retransmits /\ Goto(t, "idle", "lockRetransmit")
  /\ Call
  /\ UNCHANGED <<mu, pdu, open, arg, frame, wire, published, repeated, wrapped>>

\* Mutant of RetransmitSqNum: the same frame is sent again.
RetransmitSqNumKept(t) ==
  /\ Goto(t, "retransmit", "copy")
  /\ mu' = NoTask
  /\ repeated' = repeated + 1
  /\ UNCHANGED <<pdu, open, arg, frame, wire, nCalls, published, overlapped, wrapped>>

RetransmitSqNum(t) ==
  /\ Goto(t, "retransmit", "copy")
  /\ pdu' = [pdu EXCEPT !.SqNum = (@ + 1) % NumModulus]
  /\ mu' = NoTask
  /\ repeated' = repeated + 1
  /\ wrapped' = (wrapped \/ pdu'.SqNum = 0)
  /\ UNCHANGED <<open, arg, frame, wire, nCalls, published, overlapped>>

-----------------------------------------------------------------------------
(* Both: new(p.pdu), EncodeGOOSEFrame and rawSock.Send. *)

CopyField(t, f) ==
  /\ pc[t] = "copy" /\ f \notin DOMAIN frame[t]
  /\ frame' = [frame EXCEPT ![t] =
                 [g \in DOMAIN @ \cup {f} |-> IF g = f THEN pdu[f] ELSE @[g]]]
  /\ UNCHANGED <<mu, pdu, open, pc, arg, wire, nCalls, published, repeated, overlapped,
                 wrapped>>

Return(t) ==
  /\ Goto(t, "copy", "idle")
  /\ DOMAIN frame[t] = Field
  /\ frame' = [frame EXCEPT ![t] = << >>]
  /\ arg' = [arg EXCEPT ![t] = NoData]
  /\ UNCHANGED <<mu, pdu, open, nCalls, published, repeated, overlapped, wrapped>>

Send(t) ==
  /\ open
  /\ Return(t)
  /\ wire' = Append(wire, frame[t])

\* The values cannot be encoded, or the socket refuses the frame.
SendFails(t) ==
  /\ Return(t)
  /\ UNCHANGED wire

-----------------------------------------------------------------------------
(* The setters, one of them for all, and Close. *)

SetConfRev(t, rev) ==
  /\ t \in Publishes /\ pc[t] = "idle" /\ mu = NoTask
  /\ Call
  /\ pdu' = [pdu EXCEPT !.ConfRev = rev]
  /\ UNCHANGED <<mu, open, pc, arg, frame, wire, published, repeated, wrapped>>

Close ==
  /\ open /\ mu = NoTask
  /\ open' = FALSE
  /\ UNCHANGED <<mu, pdu, pc, arg, frame, wire, nCalls, published, repeated, overlapped,
                 wrapped>>

-----------------------------------------------------------------------------
LockAny(t) == Lock(t, "lockPublish", "publish") \/ Lock(t, "lockRetransmit", "retransmit")

Step(t) ==
  \/ LockAny(t)
  \/ PublishStNum(t) \/ PublishSqNum(t) \/ PublishAllData(t)
  \/ RetransmitSqNum(t)
  \/ \E f \in Field : CopyField(t, f)
  \/ Send(t) \/ SendFails(t)

Next ==
  \/ \E t \in Task :
       \/ \E v \in Value : Publish(t, v)
       \/ Retransmit(t)
       \/ SetConfRev(t, pdu.ConfRev + 1)
       \/ Step(t)
  \/ Close

\* A goroutine that is in a call goes on; Go's mutex does not starve it.
Fairness == \A t \in Task :
  /\ WF_vars(Step(t))
  /\ SF_vars(LockAny(t))

Spec == Init /\ [][Next]_vars /\ Fairness

-----------------------------------------------------------------------------
(* Properties. *)

TaskPc == {"idle", "lockPublish", "publish", "publishSqNum", "publishAllData",
           "lockRetransmit", "retransmit", "copy"}

FieldType == [StNum |-> Num, SqNum |-> Num, AllData |-> Value \cup {NoData}, ConfRev |-> Nat]

\* A copy of some of the fields.
Copy(fr) ==
  /\ fr = [f \in DOMAIN fr |-> fr[f]]
  /\ DOMAIN fr \subseteq Field
  /\ \A f \in DOMAIN fr : fr[f] \in FieldType[f]

\* Every variable of the publisher keeps its type.
TypeOK ==
  /\ mu \in Task \cup {NoTask}
  /\ pdu \in Pdu
  /\ open \in BOOLEAN
  /\ pc \in [Task -> TaskPc]
  /\ arg \in [Task -> Value \cup {NoData}]
  /\ DOMAIN frame = Task /\ \A t \in Task : Copy(frame[t])
  /\ wire \in Seq(Pdu)
  /\ nCalls \in 0..MaxCalls
  /\ published \in Nat /\ repeated \in Nat
  /\ overlapped \in BOOLEAN /\ wrapped \in BOOLEAN

\* Publish "increments the state number (StNum) and resets the retransmission
\* counter": whenever the mutex is free, the PDU counts the changes of state
\* and the retransmissions since the last one, whatever calls ran together.
PduExact ==
  mu = NoTask =>
    pdu.StNum = published % NumModulus /\ pdu.SqNum = repeated % NumModulus

Before(a, b) == a.StNum < b.StNum \/ (a.StNum = b.StNum /\ a.SqNum < b.SqNum)

\* A subscriber may tell a new frame from an old one by its numbers: as long as
\* calls have not overlapped and no number has wrapped, they grow from each
\* frame to the next.
Increasing ==
  ~overlapped /\ ~wrapped =>
    \A i, j \in 1..Len(wire) : i < j => Before(wire[i], wire[j])

\* Retransmit "sends the current state again": as long as calls have not
\* overlapped and no number has wrapped, frames with the same StNum have the
\* same values.
StateConsistent ==
  ~overlapped /\ ~wrapped =>
    \A i, j \in 1..Len(wire) :
      wire[i].StNum = wire[j].StNum => wire[i].AllData = wire[j].AllData

\* Every call of Publish or Retransmit returns, and so p.mu is released.
CallsReturn == \A t \in Task : (pc[t] # "idle") ~> (pc[t] = "idle")

-----------------------------------------------------------------------------
(* The inductive invariant (GoosePublisherProofs). *)

\* p.mu is held by the goroutine that is between Lock and Unlock.
MutexInv ==
  \A t \in Task :
    mu = t <=> pc[t] \in {"publish", "publishSqNum", "publishAllData", "retransmit"}

Changing(t) == pc[t] \in {"publishSqNum", "publishAllData"}

\* The numbers are exact but for the assignments that Publish has still to make.
NumbersInv ==
  /\ (\A t \in Task : ~Changing(t)) =>
       pdu.StNum = published % NumModulus /\ pdu.SqNum = repeated % NumModulus
  /\ \A t \in Task : Changing(t) => pdu.StNum = (published + 1) % NumModulus
  /\ \A t \in Task : pc[t] = "publishAllData" => pdu.SqNum = 0

\* Without overlap one goroutine at most is in a call, ...
SoloInv ==
  ~overlapped => \A t, u \in Task : pc[t] # "idle" /\ pc[u] # "idle" => t = u

\* ... and what it has copied is still what the PDU holds.
CopyInv ==
  \A t \in Task :
    /\ pc[t] # "copy" => DOMAIN frame[t] = {}
    /\ ~overlapped => \A f \in DOMAIN frame[t] : frame[t][f] = pdu[f]

\* The frames sent are older than the PDU from when it changes until it is sent.
WireInv ==
  ~overlapped /\ ~wrapped =>
    \A i \in 1..Len(wire) :
      /\ wire[i].StNum <= pdu.StNum
      /\ wire[i].StNum = pdu.StNum =>
           wire[i].SqNum <= pdu.SqNum /\ wire[i].AllData = pdu.AllData
      /\ \A t \in Task : Changing(t) => wire[i].StNum < pdu.StNum
      /\ \A t \in Task : pc[t] = "copy" => Before(wire[i], pdu)

PublisherInv ==
  /\ TypeOK /\ MutexInv /\ NumbersInv /\ SoloInv /\ CopyInv /\ WireInv
  /\ Increasing /\ StateConsistent
=============================================================================
