------------------------ MODULE GoosePublisherProofs ------------------------
(***************************************************************************)
(* The safety properties of the GOOSE publisher hold for any number of     *)
(* goroutines, values and calls.                                           *)
(*                                                                         *)
(* Each part of PublisherInv has a lemma saying that a step preserves it;  *)
(* the hypotheses of the lemma are the parts it rests on.                  *)
(***************************************************************************)
EXTENDS GoosePublisher, TLAPS

USE PublisherAssumption
USE DEF Task

-----------------------------------------------------------------------------
(* Counting modulo NumModulus. *)

\* Quotient and remainder.
LEMMA DivMod ==
  ASSUME NEW n \in Int
  PROVE  /\ n = (n \div NumModulus) * NumModulus + (n % NumModulus)
         /\ n % NumModulus \in Num /\ n \div NumModulus \in Int
  BY DEF Num

\* The remainder is unique.
LEMMA ModUnique ==
  ASSUME NEW q \in Int, NEW r \in Num, NEW n \in Int, n = q * NumModulus + r
  PROVE  n % NumModulus = r
<1> DEFINE d == n \div NumModulus
           e == n % NumModulus
<1>1. n = d * NumModulus + e /\ e \in Num /\ d \in Int
  BY DivMod
<1> HIDE DEF d, e
<1> USE DEF Num
<1>2. (d - q) * NumModulus = r - e
  BY <1>1
<1>3. d - q = 0
  <2>1. CASE d - q >= 1
    <3>1. (d - q) * NumModulus >= NumModulus
      BY <2>1, <1>1
    <3> QED
      BY <3>1, <1>2, <1>1
  <2>2. CASE d - q <= -1
    <3>1. (d - q) * NumModulus <= -NumModulus
      BY <2>2, <1>1
    <3> QED
      BY <3>1, <1>2, <1>1
  <2> QED
    BY <2>1, <2>2, <1>1
<1>4. e = r
  BY <1>1, <1>2, <1>3
<1> QED
  BY <1>4 DEF e

\* A number that is not the last one is incremented; the last one goes to 0.
LEMMA Increment ==
  ASSUME NEW n \in Num
  PROVE  /\ (n + 1) % NumModulus \in Num
         /\ (n + 1) % NumModulus # 0 => (n + 1) % NumModulus = n + 1
  BY DEF Num

\* Incrementing the number of a count gives the number of the next count.
LEMMA ModSucc ==
  ASSUME NEW n \in Nat
  PROVE  ((n % NumModulus) + 1) % NumModulus = (n + 1) % NumModulus
<1> DEFINE q == n \div NumModulus
           r == n % NumModulus
<1>1. n = q * NumModulus + r /\ r \in Num /\ q \in Int
  BY DivMod
<1> HIDE DEF q, r
<1> USE DEF Num
<1>2. CASE r + 1 < NumModulus
  <2>1. n + 1 = q * NumModulus + (r + 1)
    BY <1>1
  <2>2. (n + 1) % NumModulus = r + 1
    BY <2>1, <1>1, <1>2, ModUnique
  <2>3. (r + 1) % NumModulus = r + 1
    BY <1>1, <1>2
  <2> QED
    BY <2>2, <2>3 DEF r
<1>3. CASE r + 1 = NumModulus
  <2>1. n + 1 = (q + 1) * NumModulus + 0
    BY <1>1, <1>3
  <2>2. (n + 1) % NumModulus = 0
    BY <2>1, <1>1, <1>3, ModUnique
  <2>3. (r + 1) % NumModulus = 0
    BY <1>1, <1>3
  <2> QED
    BY <2>2, <2>3 DEF r
<1> QED
  BY <1>1, <1>2, <1>3

-----------------------------------------------------------------------------
(* The PDU and the copies of it. *)

\* Assigning StNum gives a PDU whose other fields are the same ...
LEMMA SetStNum ==
  ASSUME NEW p \in Pdu, NEW n \in Num
  PROVE  LET q == [p EXCEPT !.StNum = n]
         IN  q \in Pdu /\ q.StNum = n /\ q.SqNum = p.SqNum /\ q.AllData = p.AllData
  BY DEF Pdu

\* ... and so does assigning SqNum, ...
LEMMA SetSqNum ==
  ASSUME NEW p \in Pdu, NEW n \in Num
  PROVE  LET q == [p EXCEPT !.SqNum = n]
         IN  q \in Pdu /\ q.SqNum = n /\ q.StNum = p.StNum /\ q.AllData = p.AllData
  BY DEF Pdu

\* ... AllData ...
LEMMA SetAllData ==
  ASSUME NEW p \in Pdu, NEW v \in Value \cup {NoData}
  PROVE  LET q == [p EXCEPT !.AllData = v]
         IN  q \in Pdu /\ q.AllData = v /\ q.StNum = p.StNum /\ q.SqNum = p.SqNum
  BY DEF Pdu

\* ... and ConfRev, which stands for what the setters assign.
LEMMA SetRev ==
  ASSUME NEW p \in Pdu, NEW r \in Nat
  PROVE  LET q == [p EXCEPT !.ConfRev = r]
         IN  /\ q \in Pdu /\ q.StNum = p.StNum /\ q.SqNum = p.SqNum
             /\ q.AllData = p.AllData
  BY DEF Pdu

\* Every field of a PDU has its type.
LEMMA PduField ==
  ASSUME NEW p \in Pdu, NEW f \in Field
  PROVE  p[f] \in FieldType[f]
  BY DEF Pdu, Field, FieldType

\* A copy of all the fields is a PDU.
LEMMA WholeCopy ==
  ASSUME NEW fr, Copy(fr), DOMAIN fr = Field
  PROVE  fr \in Pdu
  BY DEF Copy, Field, FieldType, Pdu

\* Nothing copied yet.
LEMMA EmptyCopy == Copy(<< >>) /\ DOMAIN << >> = {}
  BY DEF Copy

-----------------------------------------------------------------------------
(* Types. *)

\* The initial state has the types.
LEMMA TypeInit == Init => TypeOK
<1> SUFFICES ASSUME Init PROVE TypeOK
  OBVIOUS
<1>1. [StNum |-> 0, SqNum |-> 0, AllData |-> NoData, ConfRev |-> 1] \in Pdu
  BY DEF Pdu, Num
<1>2. DOMAIN frame = Task /\ \A t \in Task : Copy(frame[t])
  BY EmptyCopy DEF Init
<1>3. wire \in Seq(Pdu) /\ pc \in [Task -> TaskPc] /\ arg \in [Task -> Value \cup {NoData}]
  BY DEF Init, TaskPc
<1>4. mu \in Task \cup {NoTask} /\ pdu \in Pdu /\ open \in BOOLEAN /\ nCalls \in 0..MaxCalls
  BY <1>1 DEF Init
<1>5. /\ published \in Nat /\ repeated \in Nat
      /\ overlapped \in BOOLEAN /\ wrapped \in BOOLEAN
  BY DEF Init
<1> QED
  BY <1>2, <1>3, <1>4, <1>5 DEF TypeOK

\* A step keeps the types.
LEMMA TypeStep ==
  ASSUME TypeOK, [Next]_vars
  PROVE  TypeOK'
<1> USE DEF TypeOK
<1>0. \A t \in Task : t # NoTask
  OBVIOUS
<1>1. ASSUME NEW t \in Task, NEW v \in Value, Publish(t, v) PROVE TypeOK'
  <2>1. overlapped' \in BOOLEAN
    BY <1>1, Zenon DEF Publish, Call
  <2>2. pc' \in [Task -> TaskPc]
    BY <1>1 DEF Publish, Goto, TaskPc
  <2> QED
    BY <1>1, <2>1, <2>2 DEF Publish, Call
<1>2. ASSUME NEW t \in Task, Retransmit(t) PROVE TypeOK'
  <2>1. overlapped' \in BOOLEAN
    BY <1>2, Zenon DEF Retransmit, Call
  <2>2. pc' \in [Task -> TaskPc]
    BY <1>2 DEF Retransmit, Goto, TaskPc
  <2> QED
    BY <1>2, <2>1, <2>2 DEF Retransmit, Call
<1>3. ASSUME NEW t \in Task, SetConfRev(t, pdu.ConfRev + 1) PROVE TypeOK'
  <2>1. pdu.ConfRev + 1 \in Nat
    BY DEF Pdu
  <2>2. pdu' \in Pdu
    BY <1>3, <2>1, SetRev DEF SetConfRev
  <2> QED
    BY <1>3, <2>2 DEF SetConfRev, Call
<1>4. ASSUME NEW t \in Task, LockAny(t) PROVE TypeOK'
  BY <1>4 DEF LockAny, Lock, Goto, TaskPc
<1>5. ASSUME NEW t \in Task, PublishStNum(t) PROVE TypeOK'
  <2>1. pdu.StNum \in Num
    BY DEF Pdu
  <2>2. pdu' \in Pdu
    BY <1>5, <2>1, SetStNum, Increment DEF PublishStNum
  <2> QED
    BY <1>5, <2>2 DEF PublishStNum, Goto, TaskPc
<1>6. ASSUME NEW t \in Task, PublishSqNum(t) PROVE TypeOK'
  <2>1. 0 \in Num
    BY DEF Num
  <2>2. pdu' \in Pdu
    BY <1>6, <2>1, SetSqNum DEF PublishSqNum
  <2> QED
    BY <1>6, <2>2 DEF PublishSqNum, Goto, TaskPc
<1>7. ASSUME NEW t \in Task, PublishAllData(t) PROVE TypeOK'
  <2>1. arg[t] \in Value \cup {NoData}
    OBVIOUS
  <2>2. pdu' \in Pdu
    BY <1>7, <2>1, SetAllData DEF PublishAllData
  <2> QED
    BY <1>7, <2>2 DEF PublishAllData, Goto, TaskPc
<1>8. ASSUME NEW t \in Task, RetransmitSqNum(t) PROVE TypeOK'
  <2>1. pdu.SqNum \in Num
    BY DEF Pdu
  <2>2. pdu' \in Pdu
    BY <1>8, <2>1, SetSqNum, Increment DEF RetransmitSqNum
  <2> QED
    BY <1>8, <2>2 DEF RetransmitSqNum, Goto, TaskPc
<1>9. ASSUME NEW t \in Task, NEW f \in Field, CopyField(t, f) PROVE TypeOK'
  <2>1. Copy(frame[t]) /\ pdu \in Pdu
    OBVIOUS
  <2>2. Copy([g \in DOMAIN frame[t] \cup {f} |-> IF g = f THEN pdu[f] ELSE frame[t][g]])
    BY <2>1, PduField DEF Copy
  <2>3. DOMAIN frame' = Task /\ \A u \in Task : Copy(frame'[u])
    BY <1>9, <2>2, Zenon DEF CopyField
  <2> QED
    BY <1>9, <2>3 DEF CopyField
<1>10. ASSUME NEW t \in Task, Return(t), wire' \in Seq(Pdu), open' \in BOOLEAN PROVE TypeOK'
  <2>1. DOMAIN frame' = Task /\ \A u \in Task : Copy(frame'[u])
    BY <1>10, EmptyCopy, Zenon DEF Return
  <2> QED
    BY <1>10, <2>1 DEF Return, Goto, TaskPc
<1>11. ASSUME NEW t \in Task, Send(t) PROVE TypeOK'
  <2>1. frame[t] \in Pdu
    BY <1>11, WholeCopy DEF Send, Return
  <2>2. wire' \in Seq(Pdu) /\ open' \in BOOLEAN
    BY <1>11, <2>1 DEF Send, Return
  <2> QED
    BY <1>11, <2>2, <1>10 DEF Send
<1>12. ASSUME NEW t \in Task, SendFails(t) PROVE TypeOK'
  BY <1>12, <1>10 DEF SendFails, Return
<1>13. CASE Close
  BY <1>13 DEF Close
<1>14. CASE UNCHANGED vars
  BY <1>14 DEF vars
<1> QED
  BY <1>1, <1>2, <1>3, <1>4, <1>5, <1>6, <1>7, <1>8, <1>9, <1>11, <1>12, <1>13, <1>14
     DEF Next, Step

-----------------------------------------------------------------------------
(* The mutex and the numbers. *)

\* A step keeps the mutex exact: Lock waits until it is free, and only its
\* holder releases it.
LEMMA MutexStep ==
  ASSUME TypeOK, MutexInv, [Next]_vars
  PROVE  MutexInv'
<1> USE DEF TypeOK, MutexInv, Goto
<1>1. ASSUME NEW t \in Task, NEW v \in Value, Publish(t, v) PROVE MutexInv'
  BY <1>1 DEF Publish
<1>2. ASSUME NEW t \in Task, Retransmit(t) PROVE MutexInv'
  BY <1>2 DEF Retransmit
<1>3. ASSUME NEW t \in Task, SetConfRev(t, pdu.ConfRev + 1) PROVE MutexInv'
  BY <1>3 DEF SetConfRev
<1>4. ASSUME NEW t \in Task, LockAny(t) PROVE MutexInv'
  BY <1>4 DEF LockAny, Lock
<1>5. ASSUME NEW t \in Task, PublishStNum(t) PROVE MutexInv'
  BY <1>5 DEF PublishStNum
<1>6. ASSUME NEW t \in Task, PublishSqNum(t) PROVE MutexInv'
  BY <1>6 DEF PublishSqNum
<1>7. ASSUME NEW t \in Task, PublishAllData(t) PROVE MutexInv'
  BY <1>7 DEF PublishAllData
<1>8. ASSUME NEW t \in Task, RetransmitSqNum(t) PROVE MutexInv'
  BY <1>8 DEF RetransmitSqNum
<1>9. ASSUME NEW t \in Task, NEW f \in Field, CopyField(t, f) PROVE MutexInv'
  BY <1>9 DEF CopyField
<1>10. ASSUME NEW t \in Task, Return(t) PROVE MutexInv'
  BY <1>10 DEF Return
<1>11. CASE Close
  BY <1>11 DEF Close
<1>12. CASE UNCHANGED vars
  BY <1>12 DEF vars
<1> QED
  BY <1>1, <1>2, <1>3, <1>4, <1>5, <1>6, <1>7, <1>8, <1>9, <1>10, <1>11, <1>12
     DEF Next, Step, Send, SendFails

\* A step keeps the numbers exact: while one goroutine is between the
\* assignments of Publish the mutex keeps the others out of them.
LEMMA NumbersStep ==
  ASSUME TypeOK, MutexInv, NumbersInv, [Next]_vars
  PROVE  NumbersInv'
<1> USE DEF TypeOK, MutexInv, NumbersInv, Changing, Goto
<1>0. pdu \in Pdu /\ pdu.StNum \in Num /\ pdu.SqNum \in Num
  BY DEF Pdu
<1>1. ASSUME NEW t \in Task, NEW v \in Value, Publish(t, v) PROVE NumbersInv'
  BY <1>1 DEF Publish
<1>2. ASSUME NEW t \in Task, Retransmit(t) PROVE NumbersInv'
  BY <1>2 DEF Retransmit
<1>3. ASSUME NEW t \in Task, SetConfRev(t, pdu.ConfRev + 1) PROVE NumbersInv'
  <2>1. pdu.ConfRev + 1 \in Nat
    BY DEF Pdu
  <2>2. pdu'.StNum = pdu.StNum /\ pdu'.SqNum = pdu.SqNum
    BY <1>3, <2>1, <1>0, SetRev DEF SetConfRev
  <2> QED
    BY <1>3, <2>2 DEF SetConfRev
<1>4. ASSUME NEW t \in Task, LockAny(t) PROVE NumbersInv'
  BY <1>4 DEF LockAny, Lock
<1>5. ASSUME NEW t \in Task, PublishStNum(t) PROVE NumbersInv'
  <2>1. pdu'.StNum = (pdu.StNum + 1) % NumModulus
    BY <1>5, <1>0, SetStNum, Increment DEF PublishStNum
  <2>2. \A u \in Task : ~Changing(u)
    BY <1>5 DEF PublishStNum
  <2>3. pdu'.StNum = (published + 1) % NumModulus
    BY <2>1, <2>2, ModSucc
  <2>4. pc' = [pc EXCEPT ![t] = "publishSqNum"] /\ published' = published
    BY <1>5 DEF PublishStNum
  <2> QED
    BY <1>5, <2>2, <2>3, <2>4
<1>6. ASSUME NEW t \in Task, PublishSqNum(t) PROVE NumbersInv'
  <2>1. pdu'.StNum = pdu.StNum /\ pdu'.SqNum = 0
    <3>1. 0 \in Num
      BY DEF Num
    <3> QED
      BY <1>6, <1>0, <3>1, SetSqNum DEF PublishSqNum
  <2>2. /\ pc[t] = "publishSqNum" /\ pc' = [pc EXCEPT ![t] = "publishAllData"]
        /\ published' = published
    BY <1>6 DEF PublishSqNum
  <2> QED
    BY <2>1, <2>2
<1>7. ASSUME NEW t \in Task, PublishAllData(t) PROVE NumbersInv'
  <2>1. pdu'.StNum = pdu.StNum /\ pdu'.SqNum = pdu.SqNum
    <3>1. arg[t] \in Value \cup {NoData}
      OBVIOUS
    <3> QED
      BY <1>7, <1>0, <3>1, SetAllData DEF PublishAllData
  <2>2. /\ pc[t] = "publishAllData" /\ pc' = [pc EXCEPT ![t] = "copy"]
        /\ published' = published + 1 /\ repeated' = 0
    BY <1>7 DEF PublishAllData
  <2>3. pdu'.StNum = published' % NumModulus /\ pdu'.SqNum = repeated' % NumModulus
    <3>1. 0 % NumModulus = 0
      OBVIOUS
    <3> QED
      BY <2>1, <2>2, <3>1
  <2>4. \A u \in Task : ~Changing(u)'
    BY <2>2
  <2> QED
    BY <2>3, <2>4
<1>8. ASSUME NEW t \in Task, RetransmitSqNum(t) PROVE NumbersInv'
  <2>1. pdu'.StNum = pdu.StNum /\ pdu'.SqNum = (pdu.SqNum + 1) % NumModulus
    BY <1>8, <1>0, SetSqNum, Increment DEF RetransmitSqNum
  <2>2. \A u \in Task : ~Changing(u)
    BY <1>8 DEF RetransmitSqNum
  <2>3. pdu'.SqNum = (repeated + 1) % NumModulus /\ pdu'.StNum = published % NumModulus
    BY <2>1, <2>2, ModSucc
  <2>4. /\ pc' = [pc EXCEPT ![t] = "copy"]
        /\ published' = published /\ repeated' = repeated + 1
    BY <1>8 DEF RetransmitSqNum
  <2>5. \A u \in Task : ~Changing(u)'
    BY <2>2, <2>4
  <2> QED
    BY <2>3, <2>4, <2>5
<1>9. ASSUME NEW t \in Task, NEW f \in Field, CopyField(t, f) PROVE NumbersInv'
  BY <1>9 DEF CopyField
<1>10. ASSUME NEW t \in Task, Return(t) PROVE NumbersInv'
  BY <1>10 DEF Return
<1>11. CASE Close
  BY <1>11 DEF Close
<1>12. CASE UNCHANGED vars
  BY <1>12 DEF vars
<1> QED
  BY <1>1, <1>2, <1>3, <1>4, <1>5, <1>6, <1>7, <1>8, <1>9, <1>10, <1>11, <1>12
     DEF Next, Step, Send, SendFails

-----------------------------------------------------------------------------
(* Calls that do not overlap. *)

\* A call that starts while another one is under way sets overlapped.
LEMMA SoloStep ==
  ASSUME TypeOK, SoloInv, [Next]_vars
  PROVE  SoloInv'
<1> USE DEF TypeOK, SoloInv, Goto
<1>1. ASSUME NEW t \in Task, NEW v \in Value, Publish(t, v) PROVE SoloInv'
  BY <1>1 DEF Publish, Call
<1>2. ASSUME NEW t \in Task, Retransmit(t) PROVE SoloInv'
  BY <1>2 DEF Retransmit, Call
<1>3. ASSUME NEW t \in Task, SetConfRev(t, pdu.ConfRev + 1) PROVE SoloInv'
  BY <1>3 DEF SetConfRev, Call
<1>4. ASSUME NEW t \in Task, LockAny(t) PROVE SoloInv'
  BY <1>4 DEF LockAny, Lock
<1>5. ASSUME NEW t \in Task, PublishStNum(t) PROVE SoloInv'
  BY <1>5 DEF PublishStNum
<1>6. ASSUME NEW t \in Task, PublishSqNum(t) PROVE SoloInv'
  BY <1>6 DEF PublishSqNum
<1>7. ASSUME NEW t \in Task, PublishAllData(t) PROVE SoloInv'
  BY <1>7 DEF PublishAllData
<1>8. ASSUME NEW t \in Task, RetransmitSqNum(t) PROVE SoloInv'
  BY <1>8 DEF RetransmitSqNum
<1>9. ASSUME NEW t \in Task, NEW f \in Field, CopyField(t, f) PROVE SoloInv'
  BY <1>9 DEF CopyField
<1>10. ASSUME NEW t \in Task, Return(t) PROVE SoloInv'
  BY <1>10 DEF Return
<1>11. CASE Close
  BY <1>11 DEF Close
<1>12. CASE UNCHANGED vars
  BY <1>12 DEF vars
<1> QED
  BY <1>1, <1>2, <1>3, <1>4, <1>5, <1>6, <1>7, <1>8, <1>9, <1>10, <1>11, <1>12
     DEF Next, Step, Send, SendFails

\* The PDU changes only while nobody who does not overlap is copying it.
LEMMA CopyKept ==
  ASSUME TypeOK, CopyInv, UNCHANGED frame,
         ~overlapped' => ~overlapped,
         \A u \in Task : pc'[u] # "copy" => pc[u] # "copy",
         pdu' # pdu /\ ~overlapped' => \A u \in Task : pc[u] # "copy"
  PROVE  CopyInv'
  BY DEF CopyInv

\* A step keeps the copies equal to the PDU.
LEMMA CopyStep ==
  ASSUME TypeOK, SoloInv, CopyInv, [Next]_vars
  PROVE  CopyInv'
<1> USE DEF TypeOK, SoloInv, Goto
<1>1. ASSUME NEW t \in Task, NEW v \in Value, Publish(t, v) PROVE CopyInv'
  BY <1>1, CopyKept DEF Publish, Call
<1>2. ASSUME NEW t \in Task, Retransmit(t) PROVE CopyInv'
  BY <1>2, CopyKept DEF Retransmit, Call
<1>3. ASSUME NEW t \in Task, SetConfRev(t, pdu.ConfRev + 1) PROVE CopyInv'
  BY <1>3, CopyKept DEF SetConfRev, Call
<1>4. ASSUME NEW t \in Task, LockAny(t) PROVE CopyInv'
  BY <1>4, CopyKept DEF LockAny, Lock
<1>5. ASSUME NEW t \in Task, PublishStNum(t) PROVE CopyInv'
  BY <1>5, CopyKept DEF PublishStNum
<1>6. ASSUME NEW t \in Task, PublishSqNum(t) PROVE CopyInv'
  BY <1>6, CopyKept DEF PublishSqNum
<1>7. ASSUME NEW t \in Task, PublishAllData(t) PROVE CopyInv'
  BY <1>7, CopyKept DEF PublishAllData
<1>8. ASSUME NEW t \in Task, RetransmitSqNum(t) PROVE CopyInv'
  BY <1>8, CopyKept DEF RetransmitSqNum
<1>9. ASSUME NEW t \in Task, NEW f \in Field, CopyField(t, f) PROVE CopyInv'
  BY <1>9 DEF CopyField, CopyInv
<1>10. ASSUME NEW t \in Task, Return(t) PROVE CopyInv'
  BY <1>10, EmptyCopy DEF Return, CopyInv
<1>11. CASE Close
  BY <1>11, CopyKept DEF Close
<1>12. CASE UNCHANGED vars
  BY <1>12, CopyKept DEF vars
<1> QED
  BY <1>1, <1>2, <1>3, <1>4, <1>5, <1>6, <1>7, <1>8, <1>9, <1>10, <1>11, <1>12
     DEF Next, Step, Send, SendFails

\* The numbers of a frame that was sent.
LEMMA WireType ==
  ASSUME TypeOK, NEW i \in 1..Len(wire)
  PROVE  wire[i] \in Pdu /\ wire[i].StNum \in Int /\ wire[i].SqNum \in Int
<1>1. wire[i] \in Pdu
  BY DEF TypeOK
<1> QED
  BY <1>1 DEF Pdu, Num

\* A step that sends nothing, leaves the numbers and the values alone and moves
\* no goroutine into Publish's assignments or to the copy keeps WireInv.
LEMMA WireKept ==
  ASSUME TypeOK, WireInv, UNCHANGED wire,
         ~overlapped' => ~overlapped, ~wrapped' => ~wrapped,
         pdu'.StNum = pdu.StNum, pdu'.SqNum = pdu.SqNum, pdu'.AllData = pdu.AllData,
         \A u \in Task : /\ Changing(u)' => Changing(u)
                         /\ pc'[u] = "copy" => pc[u] = "copy"
  PROVE  WireInv'
  BY DEF WireInv, Before

\* A step keeps the frames sent older than the PDU.
LEMMA WireStep ==
  ASSUME TypeOK, SoloInv, CopyInv, WireInv, [Next]_vars
  PROVE  WireInv'
<1> USE DEF TypeOK, Goto
<1>0. pdu \in Pdu /\ pdu.StNum \in Num /\ pdu.SqNum \in Num
  BY DEF Pdu
<1>1. ASSUME NEW t \in Task, NEW v \in Value, Publish(t, v) PROVE WireInv'
  BY <1>1, WireKept DEF Publish, Call, Changing
<1>2. ASSUME NEW t \in Task, Retransmit(t) PROVE WireInv'
  BY <1>2, WireKept DEF Retransmit, Call, Changing
<1>3. ASSUME NEW t \in Task, SetConfRev(t, pdu.ConfRev + 1) PROVE WireInv'
  <2>1. pdu.ConfRev + 1 \in Nat
    BY DEF Pdu
  <2>2. pdu'.StNum = pdu.StNum /\ pdu'.SqNum = pdu.SqNum /\ pdu'.AllData = pdu.AllData
    BY <1>3, <2>1, <1>0, SetRev DEF SetConfRev
  <2> QED
    BY <1>3, <2>2, WireKept DEF SetConfRev, Call, Changing
<1>4. ASSUME NEW t \in Task, LockAny(t) PROVE WireInv'
  BY <1>4, WireKept DEF LockAny, Lock, Changing
<1>5. ASSUME NEW t \in Task, PublishStNum(t) PROVE WireInv'
  <2>1. pdu'.StNum = (pdu.StNum + 1) % NumModulus
    BY <1>5, <1>0, SetStNum, Increment DEF PublishStNum
  <2>2. ~wrapped' => ~wrapped /\ pdu'.StNum = pdu.StNum + 1
    BY <1>5, <1>0, <2>1, Increment DEF PublishStNum
  <2>3. ASSUME ~overlapped', ~wrapped', NEW i \in 1..Len(wire)
        PROVE  wire[i].StNum < pdu'.StNum
    <3>1. wire[i].StNum <= pdu.StNum
      <4>1. ~overlapped /\ ~wrapped
        BY <1>5, <2>2, <2>3 DEF PublishStNum
      <4> QED
        BY <4>1 DEF WireInv
    <3>2. wire[i].StNum \in Int /\ pdu.StNum \in Int /\ pdu'.StNum = pdu.StNum + 1
      BY <1>0, <2>2, <2>3, WireType DEF Num
    <3> HIDE DEF TypeOK
    <3> QED
      BY <3>1, <3>2
  <2>4. pdu'.StNum \in Int /\ UNCHANGED <<wire, overlapped>>
    BY <1>5, <1>0, <2>1, Increment DEF PublishStNum, Num
  <2> QED
    BY <2>3, <2>4, WireType DEF WireInv, Before
<1>6. ASSUME NEW t \in Task, PublishSqNum(t) PROVE WireInv'
  <2>1. pdu'.StNum = pdu.StNum
    <3>1. 0 \in Num
      BY DEF Num
    <3> QED
      BY <1>6, <1>0, <3>1, SetSqNum DEF PublishSqNum
  <2>2. ASSUME ~overlapped', ~wrapped', NEW i \in 1..Len(wire)
        PROVE  wire[i].StNum < pdu'.StNum
    BY <1>6, <2>1, <2>2 DEF PublishSqNum, WireInv, Changing
  <2> QED
    BY <1>6, <1>0, <2>1, <2>2, WireType DEF PublishSqNum, WireInv, Before, Num
<1>7. ASSUME NEW t \in Task, PublishAllData(t) PROVE WireInv'
  <2>1. pdu'.StNum = pdu.StNum
    <3>1. arg[t] \in Value \cup {NoData}
      OBVIOUS
    <3> QED
      BY <1>7, <1>0, <3>1, SetAllData DEF PublishAllData
  <2>2. ASSUME ~overlapped', ~wrapped', NEW i \in 1..Len(wire)
        PROVE  wire[i].StNum < pdu'.StNum
    BY <1>7, <2>1, <2>2 DEF PublishAllData, WireInv, Changing
  <2> QED
    BY <1>7, <1>0, <2>1, <2>2, WireType DEF PublishAllData, WireInv, Before, Num
<1>8. ASSUME NEW t \in Task, RetransmitSqNum(t) PROVE WireInv'
  <2>1. /\ pdu'.StNum = pdu.StNum /\ pdu'.AllData = pdu.AllData
        /\ pdu'.SqNum = (pdu.SqNum + 1) % NumModulus
    BY <1>8, <1>0, SetSqNum, Increment DEF RetransmitSqNum
  <2>2. ~wrapped' => ~wrapped /\ pdu'.SqNum = pdu.SqNum + 1
    BY <1>8, <1>0, <2>1, Increment DEF RetransmitSqNum
  <2>3. ASSUME ~overlapped', ~wrapped', NEW i \in 1..Len(wire)
        PROVE  /\ wire[i].StNum <= pdu'.StNum
               /\ wire[i].StNum = pdu'.StNum =>
                    wire[i].SqNum < pdu'.SqNum /\ wire[i].AllData = pdu'.AllData
    <3>1. /\ wire[i].StNum <= pdu.StNum
          /\ wire[i].StNum = pdu.StNum =>
               wire[i].SqNum <= pdu.SqNum /\ wire[i].AllData = pdu.AllData
      <4>1. ~overlapped /\ ~wrapped
        BY <1>8, <2>2, <2>3 DEF RetransmitSqNum
      <4> QED
        BY <4>1 DEF WireInv
    <3>2. wire[i].SqNum \in Int /\ pdu.SqNum \in Int /\ pdu'.SqNum = pdu.SqNum + 1
      BY <1>0, <2>2, <2>3, WireType DEF Num
    <3> HIDE DEF TypeOK
    <3>3. wire[i].SqNum <= pdu.SqNum => wire[i].SqNum < pdu'.SqNum
      BY <3>2
    <3>4. pdu'.StNum = pdu.StNum /\ pdu'.AllData = pdu.AllData
      BY <2>1
    <3> QED
      BY <3>1, <3>3, <3>4
  <2>4. \A u \in Task : Changing(u)' => Changing(u)
    BY <1>8 DEF RetransmitSqNum, Changing
  <2>5. UNCHANGED <<wire, overlapped>>
    BY <1>8 DEF RetransmitSqNum
  <2>6. ~wrapped' => ~wrapped
    BY <2>2
  <2>7. ASSUME ~overlapped', ~wrapped', NEW i \in 1..Len(wire)
        PROVE  /\ wire[i].SqNum < pdu'.SqNum => wire[i].SqNum <= pdu'.SqNum
               /\ \A u \in Task : Changing(u)' => wire[i].StNum < pdu'.StNum
               /\ Before(wire[i], pdu')
    <3>1. wire[i].StNum \in Int /\ wire[i].SqNum \in Int
          /\ pdu'.StNum \in Int /\ pdu'.SqNum \in Int
      BY <1>0, <2>1, <2>2, <2>7, WireType DEF Num
    <3>2. \A u \in Task : Changing(u)' => wire[i].StNum < pdu'.StNum
      <4>1. ~overlapped /\ ~wrapped
        BY <2>5, <2>6, <2>7
      <4> QED
        BY <2>1, <2>4, <4>1 DEF WireInv
    <3>3. /\ wire[i].StNum <= pdu'.StNum
          /\ wire[i].StNum = pdu'.StNum => wire[i].SqNum < pdu'.SqNum
      BY <2>3, <2>7
    <3> HIDE DEF TypeOK
    <3> QED
      BY <3>1, <3>2, <3>3 DEF Before
  <2> QED
    BY <2>3, <2>5, <2>7 DEF WireInv, Before
<1>9. ASSUME NEW t \in Task, NEW f \in Field, CopyField(t, f) PROVE WireInv'
  BY <1>9, WireKept DEF CopyField, Changing
<1>10. ASSUME NEW t \in Task, Send(t) PROVE WireInv'
  <2>1. frame[t] \in Pdu /\ wire' = Append(wire, frame[t]) /\ UNCHANGED pdu
    BY <1>10, WholeCopy DEF Send, Return
  <2>2. ~overlapped => /\ frame[t].StNum = pdu.StNum /\ frame[t].SqNum = pdu.SqNum
                       /\ frame[t].AllData = pdu.AllData
    BY <1>10 DEF Send, Return, CopyInv, Field
  <2>3. ~overlapped => \A u \in Task : pc'[u] = "idle"
    BY <1>10 DEF Send, Return, SoloInv
  <2>4. UNCHANGED <<overlapped, wrapped>>
    BY <1>10 DEF Send, Return
  <2>5. ASSUME ~overlapped', ~wrapped', NEW i \in 1..Len(wire')
        PROVE  /\ wire'[i].StNum <= pdu'.StNum
               /\ wire'[i].StNum = pdu'.StNum =>
                    wire'[i].SqNum <= pdu'.SqNum /\ wire'[i].AllData = pdu'.AllData
    <3>1. CASE i \in 1..Len(wire)
      BY <2>1, <2>4, <2>5, <3>1 DEF WireInv
    <3>2. CASE i = Len(wire) + 1
      BY <1>0, <2>1, <2>2, <2>4, <2>5, <3>2 DEF Num
    <3> QED
      BY <2>1, <3>1, <3>2
  <2> QED
    BY <2>3, <2>4, <2>5 DEF WireInv, Changing
<1>11. ASSUME NEW t \in Task, SendFails(t) PROVE WireInv'
  BY <1>11, WireKept DEF SendFails, Return, Changing
<1>12. CASE Close
  BY <1>12, WireKept DEF Close, Changing
<1>13. CASE UNCHANGED vars
  BY <1>13, WireKept DEF vars, Changing
<1> QED
  BY <1>1, <1>2, <1>3, <1>4, <1>5, <1>6, <1>7, <1>8, <1>9, <1>10, <1>11, <1>12, <1>13
     DEF Next, Step

-----------------------------------------------------------------------------
(* The frames on the wire. *)

\* Only Send adds a frame, and overlapped and wrapped stay set.
LEMMA WireGrows ==
  ASSUME TypeOK, [Next]_vars
  PROVE  /\ ~overlapped' => ~overlapped
         /\ ~wrapped' => ~wrapped
         /\ UNCHANGED wire \/ \E t \in Task : Send(t)
<1>1. ASSUME NEW t \in Task, NEW v \in Value, Publish(t, v)
      PROVE  (~overlapped' => ~overlapped) /\ UNCHANGED <<wire, wrapped>>
  BY <1>1 DEF Publish, Call
<1>2. ASSUME NEW t \in Task, Retransmit(t) \/ SetConfRev(t, pdu.ConfRev + 1)
      PROVE  (~overlapped' => ~overlapped) /\ UNCHANGED <<wire, wrapped>>
  BY <1>2 DEF Retransmit, SetConfRev, Call
<1>3. ASSUME NEW t \in Task,
             \/ LockAny(t) \/ PublishSqNum(t) \/ PublishAllData(t) \/ SendFails(t)
             \/ \E f \in Field : CopyField(t, f)
      PROVE  UNCHANGED <<wire, overlapped, wrapped>>
  BY <1>3 DEF LockAny, Lock, PublishSqNum, PublishAllData, SendFails, Return, CopyField
<1>4. ASSUME NEW t \in Task, PublishStNum(t) \/ RetransmitSqNum(t)
      PROVE  (~wrapped' => ~wrapped) /\ UNCHANGED <<wire, overlapped>>
  BY <1>4 DEF PublishStNum, RetransmitSqNum
<1>5. ASSUME NEW t \in Task, Send(t)
      PROVE  UNCHANGED <<overlapped, wrapped>>
  BY <1>5 DEF Send, Return
<1>6. ASSUME Close \/ UNCHANGED vars
      PROVE  UNCHANGED <<wire, overlapped, wrapped>>
  BY <1>6 DEF Close, vars
<1> QED
  BY <1>1, <1>2, <1>3, <1>4, <1>5, <1>6 DEF Next, Step

\* A frame that is sent without overlap comes after all those before it, and
\* agrees with those that have its state number.
LEMMA SendFresh ==
  ASSUME TypeOK, CopyInv, WireInv, NEW t \in Task, Send(t), ~overlapped, ~wrapped
  PROVE  /\ wire' = Append(wire, frame[t]) /\ frame[t] \in Pdu
         /\ \A i \in 1..Len(wire) :
              /\ Before(wire[i], frame[t])
              /\ wire[i].StNum = frame[t].StNum => wire[i].AllData = frame[t].AllData
<1>1. wire' = Append(wire, frame[t]) /\ frame[t] \in Pdu
  BY WholeCopy DEF Send, Return, TypeOK
<1>2. /\ frame[t].StNum = pdu.StNum /\ frame[t].SqNum = pdu.SqNum
      /\ frame[t].AllData = pdu.AllData
  BY DEF Send, Return, CopyInv, Field
<1>3. pc[t] = "copy"
  BY DEF Send, Return, Goto
<1> QED
  BY <1>1, <1>2, <1>3 DEF WireInv, Before

\* A step keeps the numbers on the wire increasing.
LEMMA IncreasingStep ==
  ASSUME TypeOK, CopyInv, WireInv, Increasing, [Next]_vars
  PROVE  Increasing'
<1> SUFFICES ASSUME ~overlapped', ~wrapped', NEW i \in 1..Len(wire'), NEW j \in 1..Len(wire'),
                    i < j
             PROVE  Before(wire'[i], wire'[j])
  BY DEF Increasing, Before
<1>1. ~overlapped /\ ~wrapped
  BY WireGrows
<1>2. CASE UNCHANGED wire
  BY <1>1, <1>2 DEF Increasing
<1>3. ASSUME NEW t \in Task, Send(t) PROVE Before(wire'[i], wire'[j])
  <2>1. /\ wire' = Append(wire, frame[t]) /\ frame[t] \in Pdu /\ wire \in Seq(Pdu)
        /\ \A k \in 1..Len(wire) : Before(wire[k], frame[t])
    BY <1>1, <1>3, SendFresh DEF TypeOK
  <2>2. i \in 1..Len(wire) /\ wire'[i] = wire[i]
    BY <2>1
  <2>3. CASE j = Len(wire) + 1
    BY <2>1, <2>2, <2>3
  <2>4. CASE j \in 1..Len(wire)
    <3>1. wire'[j] = wire[j]
      BY <2>1, <2>4
    <3> QED
      BY <1>1, <2>2, <2>4, <3>1 DEF Increasing
  <2> QED
    BY <2>1, <2>3, <2>4
<1> QED
  BY <1>2, <1>3, WireGrows

\* A step keeps the values of a state number the same.
LEMMA ConsistentStep ==
  ASSUME TypeOK, CopyInv, WireInv, StateConsistent, [Next]_vars
  PROVE  StateConsistent'
<1> SUFFICES ASSUME ~overlapped', ~wrapped', NEW i \in 1..Len(wire'), NEW j \in 1..Len(wire'),
                    wire'[i].StNum = wire'[j].StNum
             PROVE  wire'[i].AllData = wire'[j].AllData
  BY DEF StateConsistent
<1>1. ~overlapped /\ ~wrapped
  BY WireGrows
<1>2. CASE UNCHANGED wire
  BY <1>1, <1>2 DEF StateConsistent
<1>3. ASSUME NEW t \in Task, Send(t) PROVE wire'[i].AllData = wire'[j].AllData
  <2>1. /\ wire' = Append(wire, frame[t]) /\ frame[t] \in Pdu /\ wire \in Seq(Pdu)
        /\ \A k \in 1..Len(wire) :
             wire[k].StNum = frame[t].StNum => wire[k].AllData = frame[t].AllData
    BY <1>1, <1>3, SendFresh DEF TypeOK
  <2>2. \A k \in 1..Len(wire') : \/ k \in 1..Len(wire) /\ wire'[k] = wire[k]
                                 \/ wire'[k] = frame[t]
    BY <2>1
  <2> QED
    BY <1>1, <2>1, <2>2 DEF StateConsistent
<1> QED
  BY <1>2, <1>3, WireGrows

-----------------------------------------------------------------------------
(* The theorems. *)

\* PublisherInv is inductive, so it holds for any goroutines and any number of
\* calls of Publish, Retransmit, the setters and Close.
THEOREM PublisherInvariance == Spec => []PublisherInv
<1>1. Init => PublisherInv
  <2> SUFFICES ASSUME Init PROVE PublisherInv
    OBVIOUS
  <2>1. TypeOK
    BY TypeInit
  <2>2. MutexInv /\ SoloInv
    BY DEF Init, MutexInv, SoloInv
  <2>3. 0 % NumModulus = 0
    OBVIOUS
  <2>4. NumbersInv
    BY <2>3 DEF Init, NumbersInv, Changing
  <2>5. CopyInv
    BY EmptyCopy DEF Init, CopyInv
  <2>6. WireInv /\ Increasing /\ StateConsistent
    BY DEF Init, WireInv, Increasing, StateConsistent
  <2> QED
    BY <2>1, <2>2, <2>4, <2>5, <2>6 DEF PublisherInv
<1>2. PublisherInv /\ [Next]_vars => PublisherInv'
  BY TypeStep, MutexStep, NumbersStep, SoloStep, CopyStep, WireStep, IncreasingStep,
     ConsistentStep DEF PublisherInv
<1> QED
  BY <1>1, <1>2, PTL DEF Spec

\* Every variable of the publisher keeps its type.
THEOREM PublisherTypes == Spec => []TypeOK
<1>1. PublisherInv => TypeOK
  BY DEF PublisherInv
<1> QED
  BY <1>1, PublisherInvariance, PTL

\* Publish and Retransmit keep StNum and SqNum exact whatever calls overlap:
\* when p.mu is free they count, modulo 2^32, the calls of Publish and the
\* calls of Retransmit since the last of them.
THEOREM PduIsExact == Spec => []PduExact
<1>1. PublisherInv => PduExact
  BY DEF PublisherInv, TypeOK, MutexInv, NumbersInv, Changing, PduExact
<1> QED
  BY <1>1, PublisherInvariance, PTL

\* The numbers grow from frame to frame as long as calls have not overlapped:
\* the copy of p.pdu outside of p.mu is then the PDU that was numbered.
THEOREM NumbersIncrease == Spec => []Increasing
<1>1. PublisherInv => Increasing
  BY DEF PublisherInv
<1> QED
  BY <1>1, PublisherInvariance, PTL

\* Retransmit repeats the values of its state number as long as calls have not
\* overlapped.
THEOREM StatesConsistent == Spec => []StateConsistent
<1>1. PublisherInv => StateConsistent
  BY DEF PublisherInv
<1> QED
  BY <1>1, PublisherInvariance, PTL
=============================================================================
