--------------------------- MODULE IedServerProofs ---------------------------
(***************************************************************************)
(* The safety properties of the IED server hold for any number of          *)
(* connections, BRCBs, application goroutines and restarts.                *)
(*                                                                         *)
(* Each part of ServerInv has a lemma saying that a step preserves it; the *)
(* hypotheses of the lemma are the parts it rests on.                      *)
(***************************************************************************)
EXTENDS IedServer, SequenceTheorems, FiniteSetTheorems, TLAPS

USE ServerAssumption
USE DEF lifeVars, loopVars, connVars, scanVars, brcbVars, updVars, repVars, Free, Loop

-----------------------------------------------------------------------------
(* Reports as a sequence. *)

\* A report that is appended leaves the earlier ones alone.
LEMMA AppendReport ==
  ASSUME NEW s \in Seq(Report), NEW p \in Report
  PROVE  /\ Append(s, p) \in Seq(Report)
         /\ Len(Append(s, p)) = Len(s) + 1
         /\ Append(s, p)[Len(s) + 1] = p
         /\ \A k \in 1..Len(s) : Append(s, p)[k] = s[k]
  OBVIOUS

\* A report that is updated leaves the other ones alone.
LEMMA UpdateReport ==
  ASSUME NEW s \in Seq(Report), NEW k \in 1..Len(s), NEW p \in Report
  PROVE  /\ [s EXCEPT ![k] = p] \in Seq(Report)
         /\ Len([s EXCEPT ![k] = p]) = Len(s)
         /\ [s EXCEPT ![k] = p][k] = p
         /\ \A j \in 1..Len(s) : j # k => [s EXCEPT ![k] = p][j] = s[j]
  OBVIOUS

\* A report that is started is a Report.
LEMMA NewReport ==
  ASSUME NEW c \in Conn, NEW r \in Rcb, NEW v \in Nat
  PROVE  /\ newReport(c, r, v) \in Report
         /\ newReport(c, r, v).conn = c
         /\ newReport(c, r, v).trig = v
         /\ newReport(c, r, v).st = "started"
  BY DEF newReport, Report

\* nextSqNum stays below the modulus.
LEMMA NextSqNumType ==
  ASSUME NEW n \in 0..(SqNumModulus - 1)
  PROVE  nextSqNum(n) \in 0..(SqNumModulus - 1)
  BY DEF nextSqNum

\* A report that takes a number keeps its other fields.
LEMMA NumberedReport ==
  ASSUME NEW p \in Report, NEW n \in 0..(SqNumModulus - 1)
  PROVE  LET q == [p EXCEPT !.st = "numbered", !.num = n]
         IN  /\ q \in Report
             /\ q.st = "numbered" /\ q.val = p.val /\ q.num = n
             /\ q.rcb = p.rcb /\ q.conn = p.conn /\ q.trig = p.trig
  BY DEF Report

\* A report that is sent or dropped keeps its other fields.
LEMMA EndedReport ==
  ASSUME NEW p \in Report, NEW st \in {"sent", "dropped"}
  PROVE  LET q == [p EXCEPT !.st = st]
         IN  /\ q \in Report
             /\ q.st = st /\ q.val = p.val /\ q.num = p.num
             /\ q.rcb = p.rcb /\ q.conn = p.conn /\ q.trig = p.trig
  BY DEF Report

-----------------------------------------------------------------------------
(* What the actions do to the reports. *)

\* The actions that start a report p, and those of sendReport, which replace
\* report k by q.
Started(p) ==
  /\ p \in Report /\ p.st = "started"
  /\ reports' \in Seq(Report)
  /\ Len(reports') = Len(reports) + 1
  /\ reports'[Len(reports) + 1] = p
  /\ \A k \in 1..Len(reports) : reports'[k] = reports[k]

Replaced(k, q) ==
  /\ q \in Report
  /\ q.rcb = reports[k].rcb /\ q.conn = reports[k].conn /\ q.trig = reports[k].trig
  /\ reports' \in Seq(Report)
  /\ Len(reports') = Len(reports)
  /\ reports'[k] = q
  /\ \A j \in 1..Len(reports) : j # k => reports'[j] = reports[j]

\* Appending a new report starts it.
LEMMA AppendStarts ==
  ASSUME TypeOK, NEW c \in Conn, NEW r \in Rcb, NEW v \in Nat,
         reports' = Append(reports, newReport(c, r, v))
  PROVE  /\ Started(newReport(c, r, v))
         /\ newReport(c, r, v).conn = c /\ newReport(c, r, v).trig = v
<1>1. reports \in Seq(Report)
  BY DEF TypeOK
<1>2. /\ newReport(c, r, v) \in Report /\ newReport(c, r, v).st = "started"
      /\ newReport(c, r, v).conn = c /\ newReport(c, r, v).trig = v
  BY NewReport
<1> QED
  BY <1>1, <1>2, AppendReport DEF Started

\* Overwriting report k replaces it.
LEMMA ExceptReplaces ==
  ASSUME TypeOK, NEW k \in 1..Len(reports), NEW q \in Report,
         q.rcb = reports[k].rcb, q.conn = reports[k].conn, q.trig = reports[k].trig,
         reports' = [reports EXCEPT ![k] = q]
  PROVE  Replaced(k, q)
<1>1. reports \in Seq(Report)
  BY DEF TypeOK
<1> QED
  BY <1>1, UpdateReport DEF Replaced

\* Every report but the new one was there before.
LEMMA StartedOld ==
  ASSUME TypeOK, NEW p \in Report, Started(p), NEW k \in 1..Len(reports'),
         reports'[k].st # "started"
  PROVE  k \in 1..Len(reports) /\ reports'[k] = reports[k]
<1>1. reports \in Seq(Report)
  BY DEF TypeOK
<1> QED
  BY <1>1 DEF Started

\* TriggerGI: the handler's own connection gets the report.
LEMMA TriggerGIReports ==
  ASSUME TypeOK, NEW c \in Conn, NEW i \in Item, TriggerGI(c, i)
  PROVE  \/ reports' = reports
         \/ \E p \in Report : Started(p) /\ p.conn = c /\ p.trig = value
<1>1. i.rcb \in Rcb /\ value \in Nat
  BY DEF Item, TypeOK
<1>2. reports' = reports \/ reports' = Append(reports, newReport(c, i.rcb, value))
  BY DEF TriggerGI
<1>3. newReport(c, i.rcb, value) \in Report
  BY <1>1, NewReport
<1> QED
  BY <1>1, <1>2, <1>3, AppendStarts

\* StartReport: the subscriber gets the report.
LEMMA StartReportReports ==
  ASSUME TypeOK, NEW u \in Updater, NEW r \in Rcb, StartReport(u, r)
  PROVE  \/ reports' = reports
         \/ \E p \in Report : /\ Started(p)
                              /\ subscriber[r] # NoConn /\ p.conn = subscriber[r]
                              /\ p.trig = updValue[u]
<1>1. updValue[u] \in Nat /\ (subscriber[r] # NoConn => subscriber[r] \in Conn)
  BY DEF TypeOK
<1>2. CASE subscriber[r] # NoConn
  <2>1. reports' = Append(reports, newReport(subscriber[r], r, updValue[u]))
    BY <1>2 DEF StartReport
  <2>2. newReport(subscriber[r], r, updValue[u]) \in Report
    BY <1>1, <1>2, NewReport
  <2> QED
    BY <1>1, <1>2, <2>1, <2>2, AppendStarts
<1>3. CASE subscriber[r] = NoConn
  BY <1>3 DEF StartReport
<1> QED
  BY <1>2, <1>3

\* LockReport: the report is locked with the current value and SqNum, or dropped.
LEMMA LockReportReports ==
  ASSUME TypeOK, NEW k \in 1..Len(reports), LockReport(k)
  PROVE  \E q \in Report :
           /\ Replaced(k, q)
           /\ reports[k].st = "started"
           /\ \/ /\ q.st = "locked" /\ q.val = value /\ q.num = sqNum[q.rcb]
                 /\ mu' = "report"
              \/ q.st = "dropped" /\ UNCHANGED mu
<1>1. PICK p \in Report : p = reports[k]
  BY DEF TypeOK
<1>2. p.rcb \in Rcb /\ value \in Nat
  BY DEF Report, TypeOK
<1>3. PICK n \in 0..(SqNumModulus - 1) : n = sqNum[p.rcb]
  BY <1>2 DEF TypeOK
<1>4. CASE p.conn \in conns
  <2> DEFINE q == [p EXCEPT !.st = "locked", !.val = value, !.num = n]
  <2>1. /\ q \in Report
        /\ q.st = "locked" /\ q.val = value /\ q.num = n
        /\ q.rcb = p.rcb /\ q.conn = p.conn /\ q.trig = p.trig
    BY <1>2 DEF Report
  <2>2. p.st = "started" /\ reports' = [reports EXCEPT ![k] = q] /\ mu' = "report"
    BY <1>1, <1>3, <1>4 DEF LockReport
  <2> HIDE DEF q
  <2>3. Replaced(k, q)
    BY <1>1, <2>1, <2>2, ExceptReplaces
  <2> QED
    BY <1>1, <1>3, <2>1, <2>2, <2>3
<1>5. CASE p.conn \notin conns
  <2> DEFINE q == [p EXCEPT !.st = "dropped"]
  <2>1. /\ q \in Report /\ q.st = "dropped"
        /\ q.rcb = p.rcb /\ q.conn = p.conn /\ q.trig = p.trig
    BY EndedReport
  <2>2. p.st = "started" /\ reports' = [reports EXCEPT ![k] = q] /\ UNCHANGED mu
    BY <1>1, <1>5 DEF LockReport
  <2> HIDE DEF q
  <2>3. Replaced(k, q)
    BY <1>1, <2>1, <2>2, ExceptReplaces
  <2> QED
    BY <1>1, <2>1, <2>2, <2>3
<1> QED
  BY <1>4, <1>5

\* NumberReport: the report, SqNum and the history get the same number.
LEMMA NumberReportReports ==
  ASSUME TypeOK, NEW k \in 1..Len(reports), NumberReport(k)
  PROVE  \E q \in Report :
           /\ Replaced(k, q)
           /\ reports[k].st = "locked" /\ q.st = "numbered" /\ q.val = reports[k].val
           /\ q.num = nextSqNum(reports[k].num)
           /\ q.num \in 0..(SqNumModulus - 1)
           /\ q.rcb \in Rcb
           /\ sqNum' = [sqNum EXCEPT ![q.rcb] = q.num]
           /\ numbers' = [numbers EXCEPT ![q.rcb] = Append(@, q.num)]
<1>1. PICK p \in Report : p = reports[k]
  BY DEF TypeOK
<1> DEFINE q == [p EXCEPT !.st = "numbered", !.num = nextSqNum(p.num)]
<1>2. p.num \in 0..(SqNumModulus - 1) /\ p.rcb \in Rcb
  BY DEF Report
<1>3. nextSqNum(p.num) \in 0..(SqNumModulus - 1)
  BY <1>2, NextSqNumType
<1>4. /\ q \in Report
      /\ q.st = "numbered" /\ q.val = p.val /\ q.num = nextSqNum(p.num)
      /\ q.rcb = p.rcb /\ q.conn = p.conn /\ q.trig = p.trig
  BY <1>3, NumberedReport
<1>5. /\ reports' = [reports EXCEPT ![k] = q] /\ p.st = "locked"
      /\ sqNum' = [sqNum EXCEPT ![p.rcb] = nextSqNum(p.num)]
      /\ numbers' = [numbers EXCEPT ![p.rcb] = Append(@, nextSqNum(p.num))]
  BY <1>1 DEF NumberReport
<1> HIDE DEF q
<1>6. Replaced(k, q)
  BY <1>1, <1>4, <1>5, ExceptReplaces
<1> QED
  BY <1>1, <1>2, <1>3, <1>4, <1>5, <1>6

\* SendReport: a numbered report ends.
LEMMA SendReportReports ==
  ASSUME TypeOK, NEW k \in 1..Len(reports), SendReport(k)
  PROVE  \E q \in Report :
           /\ Replaced(k, q)
           /\ q.st \in {"sent", "dropped"} /\ q.val = reports[k].val
           /\ reports[k].st = "numbered"
<1>1. PICK p \in Report : p = reports[k]
  BY DEF TypeOK
<1>2. PICK st \in {"sent", "dropped"} : reports' = [reports EXCEPT ![k] = [p EXCEPT !.st = st]]
  BY <1>1 DEF SendReport
<1> DEFINE q == [p EXCEPT !.st = st]
<1>3. /\ q \in Report /\ q.st = st /\ q.val = p.val
      /\ q.rcb = p.rcb /\ q.conn = p.conn /\ q.trig = p.trig
  BY EndedReport, ZenonT(60)
<1>4. p.st = "numbered" /\ reports' = [reports EXCEPT ![k] = q]
  BY <1>1, <1>2 DEF SendReport
<1> HIDE DEF q
<1>5. Replaced(k, q)
  BY <1>1, <1>3, <1>4, ExceptReplaces
<1> QED
  BY <1>1, <1>3, <1>4, <1>5

-----------------------------------------------------------------------------
(* Type correctness. *)

\* A step keeps the types.
LEMMA TypeOKStep ==
  ASSUME TypeOK, LoopInv, [Next]_vars
  PROVE  TypeOK'
<1>1. ASSUME Start
     PROVE  TypeOK'
  <2>1. running' \in BOOLEAN /\ starts' \in 0..MaxStarts
    BY <1>1 DEF TypeOK, Start
  <2>2. loopPc' \in [Loop -> LoopPc]
    BY <1>1 DEF TypeOK, LoopPc, Start
  <2>3. UNCHANGED <<loopOn, loopConn, connVars, mu, scanVars, brcbVars, updVars, repVars,
                    crashed>>
    BY <1>1 DEF Start
  <2> QED
    BY <2>1, <2>2, <2>3 DEF TypeOK
<1>2. ASSUME Stop
     PROVE  TypeOK'
  BY <1>2 DEF TypeOK, LoopPc, ConnPc, UpdPc, Stop
<1>3. ASSUME LockDataModel
     PROVE  TypeOK'
  BY <1>3 DEF TypeOK, LoopPc, ConnPc, UpdPc, LockDataModel
<1>4. ASSUME UnlockDataModel
     PROVE  TypeOK'
  BY <1>4 DEF TypeOK, LoopPc, ConnPc, UpdPc, UnlockDataModel
<1>5. ASSUME NEW n \in Loop, CallAccept(n)
     PROVE  TypeOK'
  BY <1>5 DEF TypeOK, LoopPc, ConnPc, UpdPc, CallAccept, LoopStep
<1>6. ASSUME NEW n \in Loop, AcceptCOTP(n)
     PROVE  TypeOK'
  BY <1>6 DEF TypeOK, LoopPc, ConnPc, UpdPc, AcceptCOTP, LoopStep
<1>7. ASSUME NEW n \in Loop, AcceptCOTPFails(n)
     PROVE  TypeOK'
  <2>1. loopConn[n] \in Conn
    BY <1>7 DEF TypeOK, LoopInv, Holds, AcceptCOTPFails, LoopStep
  <2> QED
    BY <1>7, <2>1 DEF TypeOK, LoopPc, ConnPc, UpdPc, AcceptCOTPFails, LoopStep
<1>8. ASSUME NEW n \in Loop, AcceptFails(n)
     PROVE  TypeOK'
  BY <1>8 DEF TypeOK, LoopPc, ConnPc, UpdPc, AcceptFails, LoopStep
<1>9. ASSUME NEW n \in Loop, AfterError(n)
     PROVE  TypeOK'
  BY <1>9 DEF TypeOK, LoopPc, ConnPc, UpdPc, AfterError, LoopStep
<1>10. ASSUME NEW n \in Loop, Register(n)
     PROVE  TypeOK'
  <2>1. loopConn[n] \in Conn
    BY <1>10 DEF TypeOK, LoopInv, Holds, Register, LoopStep
  <2> QED
    BY <1>10, <2>1 DEF TypeOK, LoopPc, ConnPc, UpdPc, Register, LoopStep
<1>11. ASSUME NEW n \in Loop, NEW c \in Conn, AcceptTCP(n, c)
     PROVE  TypeOK'
  BY <1>11 DEF TypeOK, LoopPc, ConnPc, UpdPc, AcceptTCP, LoopStep
<1>12. ASSUME NEW c \in Conn, Handshake(c)
     PROVE  TypeOK'
  BY <1>12 DEF TypeOK, LoopPc, ConnPc, UpdPc, Handshake, ConnStep
<1>13. ASSUME NEW c \in Conn, Request(c)
     PROVE  TypeOK'
  BY <1>13 DEF TypeOK, LoopPc, ConnPc, UpdPc, Request, ConnStep
<1>14. ASSUME NEW c \in Conn, Respond(c)
     PROVE  TypeOK'
  BY <1>14 DEF TypeOK, LoopPc, ConnPc, UpdPc, Respond, ConnStep
<1>15. ASSUME NEW c \in Conn, WriteData(c)
     PROVE  TypeOK'
  BY <1>15 DEF TypeOK, LoopPc, ConnPc, UpdPc, WriteData
<1>16. ASSUME NEW c \in Conn, Hangup(c)
     PROVE  TypeOK'
  BY <1>16 DEF TypeOK, LoopPc, ConnPc, UpdPc, Hangup
<1>17. ASSUME NEW c \in Conn, NEW i \in Item, WriteItem(c, i)
     PROVE  TypeOK'
  BY <1>17 DEF TypeOK, LoopPc, ConnPc, UpdPc, WriteItem, ConnStep
<1>18. ASSUME NEW c \in Conn, NEW i \in Item, setFieldValue(c, i)
     PROVE  TypeOK'
  <2>1. /\ i.rcb \in Rcb
        /\ i.field = "SqNum" => i.val \in 0..(SqNumModulus - 1)
    BY DEF Item
  <2> QED
    BY <1>18, <2>1, ZenonT(60) DEF TypeOK, LoopPc, ConnPc, UpdPc, setFieldValue, ConnStep
<1>19. ASSUME NEW c \in Conn, NEW i \in Item, TestRptEna(c, i)
     PROVE  TypeOK'
  BY <1>19 DEF TypeOK, LoopPc, ConnPc, UpdPc, TestRptEna, ConnStep
<1>20. ASSUME NEW c \in Conn, NEW i \in Item, Bind(c, i)
     PROVE  TypeOK'
  BY <1>20, ZenonT(60) DEF TypeOK, LoopPc, ConnPc, UpdPc, Bind
<1>21. ASSUME NEW c \in Conn, NEW i \in Item, TriggerGI(c, i)
     PROVE  TypeOK'
  <2>1. reports' \in Seq(Report)
    BY <1>21, TriggerGIReports DEF TypeOK, Started
  <2> QED
    BY <1>21, <2>1 DEF TypeOK, LoopPc, ConnPc, UpdPc, TriggerGI, ConnStep
<1>22. ASSUME NEW c \in Conn, NEW i \in Item, ResetGI(c, i)
     PROVE  TypeOK'
  BY <1>22 DEF TypeOK, LoopPc, ConnPc, UpdPc, ResetGI, ConnStep
<1>23. ASSUME NEW c \in Conn, StartRemove(c)
     PROVE  TypeOK'
  BY <1>23 DEF TypeOK, LoopPc, ConnPc, UpdPc, StartRemove, StartScan, ConnStep
<1>24. ASSUME NEW c \in Conn, EndRemove(c)
     PROVE  TypeOK'
  BY <1>24 DEF TypeOK, LoopPc, ConnPc, UpdPc, EndRemove, EndScan, ConnStep
<1>25. ASSUME NEW c \in Conn, NEW r \in Rcb, RemoveVisit(c, r)
     PROVE  TypeOK'
  BY <1>25, ZenonT(60) DEF TypeOK, LoopPc, ConnPc, UpdPc, RemoveVisit, Visit, ScanStep
<1>26. ASSUME NEW u \in Updater, SetValue(u)
     PROVE  TypeOK'
  BY <1>26 DEF TypeOK, LoopPc, ConnPc, UpdPc, SetValue, UpdStep
<1>27. ASSUME NEW u \in Updater, StartUpdate(u)
     PROVE  TypeOK'
  BY <1>27 DEF TypeOK, LoopPc, ConnPc, UpdPc, StartUpdate, StartScan, UpdStep
<1>28. ASSUME NEW u \in Updater, EndUpdate(u)
     PROVE  TypeOK'
  BY <1>28 DEF TypeOK, LoopPc, ConnPc, UpdPc, EndUpdate, EndScan, UpdStep
<1>29. ASSUME NEW u \in Updater, NEW r \in Rcb, UpdateVisit(u, r)
     PROVE  TypeOK'
  BY <1>29 DEF TypeOK, LoopPc, ConnPc, UpdPc, UpdateVisit, Visit, ScanStep
<1>30. ASSUME NEW u \in Updater, NEW r \in Rcb, StartReport(u, r)
     PROVE  TypeOK'
  <2>1. reports' \in Seq(Report)
    BY <1>30, StartReportReports DEF TypeOK, Started
  <2> QED
    BY <1>30, <2>1 DEF TypeOK, LoopPc, ConnPc, UpdPc, StartReport, ScanStep
<1>31. ASSUME NEW k \in 1..Len(reports), LockReport(k)
     PROVE  TypeOK'
  <2>1. reports' \in Seq(Report)
    BY <1>31, LockReportReports DEF Replaced
  <2>2. mu' \in {mu, "report"}
    BY <1>31 DEF LockReport
  <2> QED
    BY <1>31, <2>1, <2>2 DEF TypeOK, LoopPc, ConnPc, UpdPc, LockReport
<1>32. ASSUME NEW k \in 1..Len(reports), NumberReport(k)
     PROVE  TypeOK'
  <2>1. PICK q \in Report :
          /\ Replaced(k, q)
          /\ q.num \in 0..(SqNumModulus - 1) /\ q.rcb \in Rcb
          /\ sqNum' = [sqNum EXCEPT ![q.rcb] = q.num]
          /\ numbers' = [numbers EXCEPT ![q.rcb] = Append(@, q.num)]
    BY <1>32, NumberReportReports
  <2>2. reports' \in Seq(Report)
    BY <2>1 DEF Replaced
  <2>3. sqNum' \in [Rcb -> 0..(SqNumModulus - 1)]
    BY <2>1 DEF TypeOK
  <2>4. numbers' \in [Rcb -> Seq(0..(SqNumModulus - 1))]
    BY <2>1 DEF TypeOK
  <2> QED
    BY <1>32, <2>2, <2>3, <2>4 DEF TypeOK, LoopPc, ConnPc, UpdPc, NumberReport
<1>33. ASSUME NEW k \in 1..Len(reports), SendReport(k)
     PROVE  TypeOK'
  <2>1. reports' \in Seq(Report)
    BY <1>33, SendReportReports DEF Replaced
  <2>2. mu' \in {mu, "report"}
    BY <1>33 DEF SendReport
  <2> QED
    BY <1>33, <2>1, <2>2 DEF TypeOK, LoopPc, ConnPc, UpdPc, SendReport
<1>34. CASE UNCHANGED vars
  BY <1>34 DEF TypeOK, LoopPc, ConnPc, UpdPc, vars
<1> QED
  BY <1>1, <1>2, <1>3, <1>4, <1>5, <1>6, <1>7, <1>8, <1>9, <1>10, <1>11, <1>12, <1>13,
     <1>14, <1>15, <1>16, <1>17, <1>18, <1>19, <1>20, <1>21, <1>22, <1>23, <1>24, <1>25,
     <1>26, <1>27, <1>28, <1>29, <1>30, <1>31, <1>32, <1>33, <1>34
  DEF Next, Application, AcceptLoop, Handler, WriteVariable, removeConn,
      UpdateAttributeValue, sendReport, TypeOK

-----------------------------------------------------------------------------
(* Connections. *)

\* Accept loops keep to their own connections.
LEMMA LoopInvStep ==
  ASSUME TypeOK, LoopInv, [Next]_vars
  PROVE  LoopInv'
<1>0. /\ connPc \in [Conn -> ConnPc] /\ loopPc \in [Loop -> LoopPc]
      /\ loopConn \in [Loop -> Conn \cup {NoConn}] /\ conns \subseteq Conn
      /\ starts \in Nat
  BY DEF TypeOK
<1>1. ASSUME Stop \/ LockDataModel \/ UnlockDataModel
     PROVE  LoopInv'
  BY <1>1, <1>0 DEF LoopInv, Holds, Stop, LockDataModel, UnlockDataModel
<1>2. ASSUME Start
     PROVE  LoopInv'
  BY <1>2, <1>0 DEF LoopInv, Holds, Start
<1>3. ASSUME NEW n \in Loop, AcceptFails(n)
     PROVE  LoopInv'
  BY <1>3, <1>0 DEF LoopInv, Holds, AcceptFails, LoopStep
<1>4. ASSUME NEW n \in Loop, CallAccept(n)
     PROVE  LoopInv'
  BY <1>4, <1>0 DEF LoopInv, Holds, CallAccept, LoopStep
<1>5. ASSUME NEW n \in Loop, AcceptCOTP(n)
     PROVE  LoopInv'
  BY <1>5, <1>0 DEF LoopInv, Holds, AcceptCOTP, LoopStep
<1>6. ASSUME NEW n \in Loop, AcceptCOTPFails(n)
     PROVE  LoopInv'
  BY <1>6, <1>0 DEF LoopInv, Holds, AcceptCOTPFails, LoopStep
<1>7. ASSUME NEW n \in Loop, AfterError(n)
     PROVE  LoopInv'
  BY <1>7, <1>0 DEF LoopInv, Holds, AfterError, LoopStep
<1>8. ASSUME NEW n \in Loop, Register(n)
     PROVE  LoopInv'
  BY <1>8, <1>0 DEF LoopInv, Holds, Register, LoopStep
<1>9. ASSUME NEW n \in Loop, NEW c \in Conn, AcceptTCP(n, c)
     PROVE  LoopInv'
  BY <1>9, <1>0 DEF LoopInv, Holds, AcceptTCP, LoopStep
<1>10. ASSUME NEW c \in Conn,
              \/ Handshake(c)
              \/ Request(c)
              \/ Respond(c)
              \/ WriteData(c)
              \/ Hangup(c)
     PROVE  LoopInv'
  BY <1>10, <1>0
  DEF LoopInv, Holds, Handshake, Request, Respond, WriteData, Hangup, ConnStep
<1>11. ASSUME NEW c \in Conn, NEW i \in Item,
              \/ WriteItem(c, i)
              \/ setFieldValue(c, i)
              \/ TestRptEna(c, i)
              \/ Bind(c, i)
              \/ TriggerGI(c, i)
              \/ ResetGI(c, i)
     PROVE  LoopInv'
  BY <1>11, <1>0
  DEF LoopInv, Holds, WriteItem, setFieldValue, TestRptEna, Bind, TriggerGI, ResetGI,
      ConnStep, newReport
<1>12. ASSUME NEW c \in Conn, StartRemove(c) \/ EndRemove(c)
     PROVE  LoopInv'
  BY <1>12, <1>0
  DEF LoopInv, Holds, StartRemove, EndRemove, StartScan, ConnStep, EndScan
<1>13. ASSUME NEW c \in Conn, NEW r \in Rcb, RemoveVisit(c, r)
     PROVE  LoopInv'
  BY <1>13, <1>0 DEF LoopInv, Holds, RemoveVisit, Visit, ScanStep
<1>14. ASSUME NEW u \in Updater, SetValue(u) \/ StartUpdate(u) \/ EndUpdate(u)
     PROVE  LoopInv'
  BY <1>14, <1>0
  DEF LoopInv, Holds, SetValue, StartUpdate, EndUpdate, UpdStep, StartScan, EndScan
<1>15. ASSUME NEW u \in Updater, NEW r \in Rcb, UpdateVisit(u, r) \/ StartReport(u, r)
     PROVE  LoopInv'
  BY <1>15, <1>0
  DEF LoopInv, Holds, UpdateVisit, StartReport, Visit, ScanStep, newReport
<1>16. ASSUME NEW k \in 1..Len(reports),
              \/ LockReport(k)
              \/ NumberReport(k)
              \/ SendReport(k)
     PROVE  LoopInv'
  BY <1>16, <1>0 DEF LoopInv, Holds, LockReport, NumberReport, SendReport
<1>17. CASE UNCHANGED vars
  BY <1>17, <1>0 DEF LoopInv, Holds, vars
<1> QED
  BY <1>1, <1>2, <1>3, <1>4, <1>5, <1>6, <1>7, <1>8, <1>9, <1>10, <1>11, <1>12, <1>13,
     <1>14, <1>15, <1>16, <1>17
  DEF Next, Application, AcceptLoop, Handler, WriteVariable, removeConn,
      UpdateAttributeValue, sendReport, TypeOK

\* s.conns follows the handlers.
LEMMA ConnInvStep ==
  ASSUME TypeOK, LoopInv, ConnInv, [Next]_vars
  PROVE  ConnInv'
<1>0. /\ connPc \in [Conn -> ConnPc] /\ loopPc \in [Loop -> LoopPc]
      /\ loopConn \in [Loop -> Conn \cup {NoConn}] /\ conns \subseteq Conn
      /\ starts \in Nat
  BY DEF TypeOK
<1>1. ASSUME Start \/ Stop \/ LockDataModel \/ UnlockDataModel
     PROVE  ConnInv'
  BY <1>1, <1>0 DEF ConnInv, Served, Start, Stop, LockDataModel, UnlockDataModel
<1>2. ASSUME NEW n \in Loop,
              \/ CallAccept(n)
              \/ AcceptCOTP(n)
              \/ AcceptFails(n)
              \/ AfterError(n)
     PROVE  ConnInv'
  BY <1>2, <1>0
  DEF ConnInv, Served, CallAccept, AcceptCOTP, AcceptFails, AfterError, LoopStep
<1>3. ASSUME NEW n \in Loop, AcceptCOTPFails(n)
     PROVE  ConnInv'
  <2>1. loopConn[n] \in Conn /\ connPc[loopConn[n]] = "accepting"
    BY <1>3, <1>0 DEF LoopInv, Holds, AcceptCOTPFails, LoopStep
  <2> QED
    BY <1>3, <1>0, <2>1 DEF ConnInv, Served, AcceptCOTPFails
<1>4. ASSUME NEW n \in Loop, Register(n)
     PROVE  ConnInv'
  <2>1. loopConn[n] \in Conn /\ connPc[loopConn[n]] = "accepting"
    BY <1>4, <1>0 DEF LoopInv, Holds, Register, LoopStep
  <2>2. IsFiniteSet(conns \cup {loopConn[n]})
    BY FS_AddElement DEF ConnInv
  <2>3. CASE ~TooMany
    <3>1. /\ conns' = conns \cup {loopConn[n]}
          /\ connPc' = [connPc EXCEPT ![loopConn[n]] = "handshake"]
      BY <1>4, <2>1, <2>3 DEF Register
    <3> QED
      BY <1>0, <2>1, <2>2, <3>1 DEF ConnInv, Served
  <2>4. CASE TooMany
    <3>1. /\ conns' = conns
          /\ connPc' = [connPc EXCEPT ![loopConn[n]] = "refused"]
      BY <1>4, <2>1, <2>4 DEF Register
    <3> QED
      BY <1>0, <2>1, <3>1 DEF ConnInv, Served
  <2> QED
    BY <2>3, <2>4
<1>5. ASSUME NEW n \in Loop, NEW c \in Conn, AcceptTCP(n, c)
     PROVE  ConnInv'
  BY <1>5, <1>0 DEF ConnInv, Served, AcceptTCP, LoopStep
<1>6. ASSUME NEW c \in Conn,
              \/ Handshake(c)
              \/ Request(c)
              \/ Respond(c)
              \/ WriteData(c)
              \/ Hangup(c)
     PROVE  ConnInv'
  BY <1>6, <1>0
  DEF ConnInv, Served, Handshake, Request, Respond, WriteData, Hangup, ConnStep
<1>7. ASSUME NEW c \in Conn, NEW i \in Item,
              \/ WriteItem(c, i)
              \/ setFieldValue(c, i)
              \/ TestRptEna(c, i)
              \/ Bind(c, i)
              \/ TriggerGI(c, i)
              \/ ResetGI(c, i)
     PROVE  ConnInv'
  BY <1>7, <1>0
  DEF ConnInv, Served, WriteItem, setFieldValue, TestRptEna, Bind, TriggerGI, ResetGI,
      ConnStep, newReport
<1>8. ASSUME NEW c \in Conn, EndRemove(c)
     PROVE  ConnInv'
  BY <1>8, <1>0 DEF ConnInv, Served, EndRemove, EndScan, ConnStep
<1>9. ASSUME NEW c \in Conn, StartRemove(c)
     PROVE  ConnInv'
  <2>1. IsFiniteSet(conns \ {c})
    BY FS_RemoveElement DEF ConnInv
  <2> QED
    BY <1>9, <1>0, <2>1 DEF ConnInv, Served, StartRemove, ConnStep
<1>10. ASSUME NEW c \in Conn, NEW r \in Rcb, RemoveVisit(c, r)
     PROVE  ConnInv'
  BY <1>10, <1>0 DEF ConnInv, Served, RemoveVisit, Visit, ScanStep
<1>11. ASSUME NEW u \in Updater, SetValue(u) \/ StartUpdate(u) \/ EndUpdate(u)
     PROVE  ConnInv'
  BY <1>11, <1>0
  DEF ConnInv, Served, SetValue, StartUpdate, EndUpdate, UpdStep, StartScan, EndScan
<1>12. ASSUME NEW u \in Updater, NEW r \in Rcb, UpdateVisit(u, r) \/ StartReport(u, r)
     PROVE  ConnInv'
  BY <1>12, <1>0
  DEF ConnInv, Served, UpdateVisit, StartReport, Visit, ScanStep, newReport
<1>13. ASSUME NEW k \in 1..Len(reports),
              \/ LockReport(k)
              \/ NumberReport(k)
              \/ SendReport(k)
     PROVE  ConnInv'
  BY <1>13, <1>0 DEF ConnInv, Served, LockReport, NumberReport, SendReport
<1>14. CASE UNCHANGED vars
  BY <1>14, <1>0 DEF ConnInv, Served, vars
<1> QED
  BY <1>1, <1>2, <1>3, <1>4, <1>5, <1>6, <1>7, <1>8, <1>9, <1>10, <1>11, <1>12, <1>13,
     <1>14
  DEF Next, Application, AcceptLoop, Handler, WriteVariable, removeConn,
      UpdateAttributeValue, sendReport, TypeOK

\* No step lets too many connections in.
LEMMA ConnLimitStep ==
  ASSUME TypeOK, ConnInv, ConnLimit, [Next]_vars
  PROVE  ConnLimit'
<1>1. ASSUME Start \/ Stop \/ LockDataModel \/ UnlockDataModel
     PROVE  ConnLimit'
  BY <1>1 DEF ConnLimit, Start, Stop, LockDataModel, UnlockDataModel
<1>2. ASSUME NEW n \in Loop,
              \/ CallAccept(n)
              \/ AcceptCOTP(n)
              \/ AcceptCOTPFails(n)
              \/ AcceptFails(n)
              \/ AfterError(n)
     PROVE  ConnLimit'
  BY <1>2
  DEF ConnLimit, CallAccept, AcceptCOTP, AcceptCOTPFails, AcceptFails, AfterError,
      LoopStep
<1>3. ASSUME NEW n \in Loop, Register(n)
     PROVE  ConnLimit'
  <2>1. IsFiniteSet(conns) /\ Cardinality(conns) \in Nat
    BY FS_CardinalityType DEF ConnInv
  <2>2. Cardinality(conns \cup {loopConn[n]}) <= Cardinality(conns) + 1
    BY <2>1, FS_AddElement
  <2>3. Cardinality(conns \cup {loopConn[n]}) \in Nat
    BY <2>1, FS_AddElement, FS_CardinalityType
  <2>4. \/ UNCHANGED conns
        \/ ~TooMany /\ conns' = conns \cup {loopConn[n]}
    BY <1>3 DEF Register
  <2>5. ~TooMany => Cardinality(conns) + 1 <= MaxConnections
    BY <2>1 DEF TooMany
  <2> QED
    BY <2>1, <2>2, <2>3, <2>4, <2>5 DEF ConnLimit
<1>4. ASSUME NEW n \in Loop, NEW c \in Conn, AcceptTCP(n, c)
     PROVE  ConnLimit'
  BY <1>4 DEF ConnLimit, AcceptTCP, LoopStep
<1>5. ASSUME NEW c \in Conn,
              \/ Handshake(c)
              \/ Request(c)
              \/ Respond(c)
              \/ WriteData(c)
              \/ Hangup(c)
     PROVE  ConnLimit'
  BY <1>5 DEF ConnLimit, Handshake, Request, Respond, WriteData, Hangup, ConnStep
<1>6. ASSUME NEW c \in Conn, NEW i \in Item,
              \/ WriteItem(c, i)
              \/ setFieldValue(c, i)
              \/ TestRptEna(c, i)
              \/ Bind(c, i)
              \/ TriggerGI(c, i)
              \/ ResetGI(c, i)
     PROVE  ConnLimit'
  BY <1>6
  DEF ConnLimit, WriteItem, setFieldValue, TestRptEna, Bind, TriggerGI, ResetGI,
      ConnStep, newReport
<1>7. ASSUME NEW c \in Conn, EndRemove(c)
     PROVE  ConnLimit'
  BY <1>7 DEF ConnLimit, EndRemove, EndScan, ConnStep
<1>8. ASSUME NEW c \in Conn, StartRemove(c)
     PROVE  ConnLimit'
  <2>1. IsFiniteSet(conns) /\ IsFiniteSet(conns \ {c})
    BY FS_RemoveElement DEF ConnInv
  <2>2. Cardinality(conns) \in Nat /\ Cardinality(conns \ {c}) \in Nat
    BY <2>1, FS_CardinalityType
  <2>3. Cardinality(conns \ {c}) <= Cardinality(conns)
    BY <2>1, <2>2, FS_RemoveElement
  <2> QED
    BY <1>8, <2>2, <2>3 DEF ConnLimit, StartRemove
<1>9. ASSUME NEW c \in Conn, NEW r \in Rcb, RemoveVisit(c, r)
     PROVE  ConnLimit'
  BY <1>9 DEF ConnLimit, RemoveVisit, Visit, ScanStep
<1>10. ASSUME NEW u \in Updater, SetValue(u) \/ StartUpdate(u) \/ EndUpdate(u)
     PROVE  ConnLimit'
  BY <1>10 DEF ConnLimit, SetValue, StartUpdate, EndUpdate, UpdStep, StartScan, EndScan
<1>11. ASSUME NEW u \in Updater, NEW r \in Rcb, UpdateVisit(u, r) \/ StartReport(u, r)
     PROVE  ConnLimit'
  BY <1>11 DEF ConnLimit, UpdateVisit, StartReport, Visit, ScanStep, newReport
<1>12. ASSUME NEW k \in 1..Len(reports),
              \/ LockReport(k)
              \/ NumberReport(k)
              \/ SendReport(k)
     PROVE  ConnLimit'
  BY <1>12 DEF ConnLimit, LockReport, NumberReport, SendReport
<1>13. CASE UNCHANGED vars
  BY <1>13 DEF ConnLimit, vars
<1> QED
  BY <1>1, <1>2, <1>3, <1>4, <1>5, <1>6, <1>7, <1>8, <1>9, <1>10, <1>11, <1>12, <1>13
  DEF Next, Application, AcceptLoop, Handler, WriteVariable, removeConn,
      UpdateAttributeValue, sendReport, TypeOK

-----------------------------------------------------------------------------
(* The mutex. *)

\* removeConn excludes the others.
LEMMA RemoveMutexStep ==
  ASSUME TypeOK, LoopInv, MutexInv, [Next]_vars
  PROVE  RemoveMutex'
<1>0. /\ connPc \in [Conn -> ConnPc] /\ loopPc \in [Loop -> LoopPc]
      /\ loopConn \in [Loop -> Conn \cup {NoConn}] /\ conns \subseteq Conn
      /\ starts \in Nat
  BY DEF TypeOK
<1>1. ASSUME Start \/ Stop \/ LockDataModel \/ UnlockDataModel
     PROVE  RemoveMutex'
  BY <1>1, <1>0 DEF MutexInv, RemoveMutex, Start, Stop, LockDataModel, UnlockDataModel
<1>2. ASSUME NEW n \in Loop,
              \/ CallAccept(n)
              \/ AcceptCOTP(n)
              \/ AcceptFails(n)
              \/ AfterError(n)
     PROVE  RemoveMutex'
  BY <1>2, <1>0
  DEF MutexInv, RemoveMutex, CallAccept, AcceptCOTP, AcceptFails, AfterError, LoopStep
<1>3. ASSUME NEW n \in Loop, AcceptCOTPFails(n)
     PROVE  RemoveMutex'
  <2>1. loopConn[n] \in Conn /\ connPc[loopConn[n]] = "accepting"
    BY <1>3, <1>0 DEF LoopInv, Holds, AcceptCOTPFails, LoopStep
  <2> QED
    BY <1>3, <1>0, <2>1 DEF MutexInv, RemoveMutex, AcceptCOTPFails
<1>4. ASSUME NEW n \in Loop, Register(n)
     PROVE  RemoveMutex'
  <2>1. loopConn[n] \in Conn /\ connPc[loopConn[n]] = "accepting"
    BY <1>4, <1>0 DEF LoopInv, Holds, Register, LoopStep
  <2> QED
    BY <1>4, <1>0, <2>1 DEF MutexInv, RemoveMutex, Register
<1>5. ASSUME NEW n \in Loop, NEW c \in Conn, AcceptTCP(n, c)
     PROVE  RemoveMutex'
  BY <1>5, <1>0 DEF MutexInv, RemoveMutex, AcceptTCP, LoopStep
<1>6. ASSUME NEW c \in Conn,
              \/ Handshake(c)
              \/ Request(c)
              \/ Respond(c)
              \/ WriteData(c)
              \/ Hangup(c)
     PROVE  RemoveMutex'
  BY <1>6, <1>0
  DEF MutexInv, RemoveMutex, Handshake, Request, Respond, WriteData, Hangup, ConnStep
<1>7. ASSUME NEW c \in Conn, NEW i \in Item,
              \/ WriteItem(c, i)
              \/ setFieldValue(c, i)
              \/ TestRptEna(c, i)
              \/ Bind(c, i)
              \/ TriggerGI(c, i)
              \/ ResetGI(c, i)
     PROVE  RemoveMutex'
  BY <1>7, <1>0
  DEF MutexInv, RemoveMutex, WriteItem, setFieldValue, TestRptEna, Bind, TriggerGI,
      ResetGI, ConnStep, newReport
<1>8. ASSUME NEW c \in Conn, StartRemove(c) \/ EndRemove(c)
     PROVE  RemoveMutex'
  BY <1>8, <1>0
  DEF MutexInv, RemoveMutex, StartRemove, EndRemove, StartScan, ConnStep, EndScan
<1>9. ASSUME NEW c \in Conn, NEW r \in Rcb, RemoveVisit(c, r)
     PROVE  RemoveMutex'
  BY <1>9, <1>0 DEF MutexInv, RemoveMutex, RemoveVisit, Visit, ScanStep
<1>10. ASSUME NEW u \in Updater, SetValue(u) \/ StartUpdate(u)
     PROVE  RemoveMutex'
  BY <1>10, <1>0 DEF MutexInv, RemoveMutex, SetValue, StartUpdate, UpdStep, StartScan
<1>11. ASSUME NEW u \in Updater, EndUpdate(u)
     PROVE  RemoveMutex'
  <2>1. mu = "update"
    BY <1>11 DEF MutexInv, UpdateMutex, EndUpdate, UpdStep
  <2> QED
    BY <1>11, <2>1 DEF MutexInv, RemoveMutex, EndUpdate, EndScan
<1>12. ASSUME NEW u \in Updater, NEW r \in Rcb, UpdateVisit(u, r) \/ StartReport(u, r)
     PROVE  RemoveMutex'
  BY <1>12, <1>0
  DEF MutexInv, RemoveMutex, UpdateVisit, StartReport, Visit, ScanStep, newReport
<1>13. ASSUME NEW k \in 1..Len(reports), LockReport(k) \/ SendReport(k)
     PROVE  RemoveMutex'
  BY <1>13, <1>0 DEF MutexInv, RemoveMutex, LockReport, SendReport
<1>14. ASSUME NEW k \in 1..Len(reports), NumberReport(k)
     PROVE  RemoveMutex'
  <2>1. mu = "report"
    BY <1>14 DEF MutexInv, ReportMutex, NumberReport
  <2> QED
    BY <1>14, <2>1 DEF MutexInv, RemoveMutex, NumberReport
<1>15. CASE UNCHANGED vars
  BY <1>15, <1>0 DEF MutexInv, RemoveMutex, vars
<1> QED
  BY <1>1, <1>2, <1>3, <1>4, <1>5, <1>6, <1>7, <1>8, <1>9, <1>10, <1>11, <1>12, <1>13,
     <1>14, <1>15
  DEF Next, Application, AcceptLoop, Handler, WriteVariable, removeConn,
      UpdateAttributeValue, sendReport, TypeOK

\* UpdateAttributeValue excludes the others.
LEMMA UpdateMutexStep ==
  ASSUME TypeOK, MutexInv, [Next]_vars
  PROVE  UpdateMutex'
<1>0. updPc \in [Updater -> UpdPc] /\ UpdateMutex
  BY DEF TypeOK, MutexInv
<1>1. ASSUME Start \/ Stop \/ LockDataModel \/ UnlockDataModel
     PROVE  UpdateMutex'
  BY <1>1, <1>0 DEF UpdateMutex, Start, Stop, LockDataModel, UnlockDataModel
<1>2. ASSUME NEW n \in Loop,
              \/ CallAccept(n)
              \/ AcceptCOTP(n)
              \/ AcceptCOTPFails(n)
              \/ AcceptFails(n)
              \/ AfterError(n)
              \/ Register(n)
     PROVE  UpdateMutex'
  BY <1>2, <1>0
  DEF UpdateMutex, CallAccept, AcceptCOTP, AcceptCOTPFails, AcceptFails, AfterError,
      Register, LoopStep
<1>3. ASSUME NEW n \in Loop, NEW c \in Conn, AcceptTCP(n, c)
     PROVE  UpdateMutex'
  BY <1>3, <1>0 DEF UpdateMutex, AcceptTCP, LoopStep
<1>4. ASSUME NEW c \in Conn,
              \/ Handshake(c)
              \/ Request(c)
              \/ Respond(c)
              \/ WriteData(c)
              \/ Hangup(c)
     PROVE  UpdateMutex'
  BY <1>4, <1>0
  DEF UpdateMutex, Handshake, Request, Respond, WriteData, Hangup, ConnStep
<1>5. ASSUME NEW c \in Conn, NEW i \in Item,
              \/ WriteItem(c, i)
              \/ setFieldValue(c, i)
              \/ TestRptEna(c, i)
              \/ Bind(c, i)
              \/ TriggerGI(c, i)
              \/ ResetGI(c, i)
     PROVE  UpdateMutex'
  BY <1>5, <1>0
  DEF UpdateMutex, WriteItem, setFieldValue, TestRptEna, Bind, TriggerGI, ResetGI,
      ConnStep, newReport
<1>6. ASSUME NEW c \in Conn, StartRemove(c)
     PROVE  UpdateMutex'
  BY <1>6, <1>0 DEF UpdateMutex, StartRemove, StartScan, ConnStep
<1>7. ASSUME NEW c \in Conn, EndRemove(c)
     PROVE  UpdateMutex'
  <2>1. mu = "remove"
    BY <1>7 DEF MutexInv, RemoveMutex, EndRemove, ConnStep
  <2> QED
    BY <1>7, <2>1 DEF MutexInv, UpdateMutex, EndRemove, EndScan
<1>8. ASSUME NEW c \in Conn, NEW r \in Rcb, RemoveVisit(c, r)
     PROVE  UpdateMutex'
  BY <1>8, <1>0 DEF UpdateMutex, RemoveVisit, Visit, ScanStep
<1>9. ASSUME NEW u \in Updater, SetValue(u)
     PROVE  UpdateMutex'
  BY <1>9, <1>0 DEF UpdateMutex, SetValue, UpdStep
<1>10. ASSUME NEW u \in Updater, StartUpdate(u)
     PROVE  UpdateMutex'
  BY <1>10, <1>0 DEF UpdateMutex, StartUpdate, StartScan, UpdStep
<1>11. ASSUME NEW u \in Updater, EndUpdate(u)
     PROVE  UpdateMutex'
  BY <1>11, <1>0 DEF UpdateMutex, EndUpdate, EndScan, UpdStep
<1>12. ASSUME NEW u \in Updater, NEW r \in Rcb, UpdateVisit(u, r) \/ StartReport(u, r)
     PROVE  UpdateMutex'
  BY <1>12, <1>0 DEF UpdateMutex, UpdateVisit, StartReport, Visit, ScanStep, newReport
<1>13. ASSUME NEW k \in 1..Len(reports), LockReport(k) \/ SendReport(k)
     PROVE  UpdateMutex'
  BY <1>13, <1>0 DEF UpdateMutex, LockReport, SendReport
<1>14. ASSUME NEW k \in 1..Len(reports), NumberReport(k)
     PROVE  UpdateMutex'
  <2>1. mu = "report"
    BY <1>14 DEF MutexInv, ReportMutex, NumberReport
  <2> QED
    BY <1>14, <2>1 DEF MutexInv, UpdateMutex, NumberReport
<1>15. CASE UNCHANGED vars
  BY <1>15, <1>0 DEF UpdateMutex, vars
<1> QED
  BY <1>1, <1>2, <1>3, <1>4, <1>5, <1>6, <1>7, <1>8, <1>9, <1>10, <1>11, <1>12, <1>13,
     <1>14, <1>15
  DEF Next, Application, AcceptLoop, Handler, WriteVariable, removeConn,
      UpdateAttributeValue, sendReport, TypeOK

\* sendReport excludes the others.
LEMMA ReportMutexStep ==
  ASSUME TypeOK, MutexInv, [Next]_vars
  PROVE  ReportMutex'
<1>0. reports \in Seq(Report) /\ ReportMutex
  BY DEF TypeOK, MutexInv
<1>1. ASSUME Start \/ Stop \/ LockDataModel \/ UnlockDataModel
     PROVE  ReportMutex'
  BY <1>1, <1>0 DEF ReportMutex, Start, Stop, LockDataModel, UnlockDataModel
<1>2. ASSUME NEW n \in Loop,
              \/ CallAccept(n)
              \/ AcceptCOTP(n)
              \/ AcceptCOTPFails(n)
              \/ AcceptFails(n)
              \/ AfterError(n)
              \/ Register(n)
     PROVE  ReportMutex'
  BY <1>2, <1>0
  DEF ReportMutex, CallAccept, AcceptCOTP, AcceptCOTPFails, AcceptFails, AfterError,
      Register, LoopStep
<1>3. ASSUME NEW n \in Loop, NEW c \in Conn, AcceptTCP(n, c)
     PROVE  ReportMutex'
  BY <1>3, <1>0 DEF ReportMutex, AcceptTCP, LoopStep
<1>4. ASSUME NEW c \in Conn,
              \/ Handshake(c)
              \/ Request(c)
              \/ Respond(c)
              \/ WriteData(c)
              \/ Hangup(c)
     PROVE  ReportMutex'
  BY <1>4, <1>0
  DEF ReportMutex, Handshake, Request, Respond, WriteData, Hangup, ConnStep
<1>5. ASSUME NEW c \in Conn, NEW i \in Item,
              \/ WriteItem(c, i)
              \/ setFieldValue(c, i)
              \/ TestRptEna(c, i)
              \/ Bind(c, i)
              \/ ResetGI(c, i)
     PROVE  ReportMutex'
  BY <1>5, <1>0
  DEF ReportMutex, WriteItem, setFieldValue, TestRptEna, Bind, ResetGI, ConnStep
<1>6. ASSUME NEW c \in Conn, NEW i \in Item, TriggerGI(c, i)
     PROVE  ReportMutex'
  <2>1. CASE UNCHANGED reports
    BY <1>6, <2>1, <1>0 DEF ReportMutex, TriggerGI
  <2>2. ASSUME NEW p \in Report, Started(p), p.conn = c, p.trig = value
        PROVE  ReportMutex'
    BY <1>6, <2>2, <1>0 DEF ReportMutex, Started, TriggerGI
  <2> QED
    BY <1>6, <2>1, <2>2, TriggerGIReports
<1>7. ASSUME NEW c \in Conn, StartRemove(c)
     PROVE  ReportMutex'
  BY <1>7, <1>0 DEF ReportMutex, StartRemove, StartScan, ConnStep
<1>8. ASSUME NEW c \in Conn, EndRemove(c)
     PROVE  ReportMutex'
  <2>1. mu = "remove"
    BY <1>8 DEF MutexInv, RemoveMutex, EndRemove, ConnStep
  <2> QED
    BY <1>8, <1>0, <2>1 DEF ReportMutex, EndRemove, EndScan
<1>9. ASSUME NEW c \in Conn, NEW r \in Rcb, RemoveVisit(c, r)
     PROVE  ReportMutex'
  BY <1>9, <1>0 DEF ReportMutex, RemoveVisit, Visit, ScanStep
<1>10. ASSUME NEW u \in Updater, SetValue(u) \/ StartUpdate(u)
     PROVE  ReportMutex'
  BY <1>10, <1>0 DEF ReportMutex, SetValue, StartUpdate, UpdStep, StartScan
<1>11. ASSUME NEW u \in Updater, EndUpdate(u)
     PROVE  ReportMutex'
  <2>1. mu = "update"
    BY <1>11 DEF MutexInv, UpdateMutex, EndUpdate, UpdStep
  <2> QED
    BY <1>11, <1>0, <2>1 DEF ReportMutex, EndUpdate, EndScan
<1>12. ASSUME NEW u \in Updater, NEW r \in Rcb, UpdateVisit(u, r)
     PROVE  ReportMutex'
  BY <1>12, <1>0 DEF ReportMutex, UpdateVisit, Visit, ScanStep
<1>13. ASSUME NEW u \in Updater, NEW r \in Rcb, StartReport(u, r)
     PROVE  ReportMutex'
  <2>1. CASE UNCHANGED reports
    BY <1>13, <2>1, <1>0 DEF ReportMutex, StartReport
  <2>2. ASSUME NEW p \in Report, Started(p), subscriber[r] # NoConn,
               p.conn = subscriber[r], p.trig = updValue[u]
        PROVE  ReportMutex'
    BY <1>13, <2>2, <1>0 DEF ReportMutex, Started, StartReport
  <2> QED
    BY <1>13, <2>1, <2>2, StartReportReports
<1>14. ASSUME NEW k \in 1..Len(reports), LockReport(k)
     PROVE  ReportMutex'
  <2>1. PICK q \in Report :
          /\ Replaced(k, q)
          /\ reports[k].st = "started"
          /\ \/ /\ q.st = "locked" /\ q.val = value /\ q.num = sqNum[q.rcb]
                /\ mu' = "report"
             \/ q.st = "dropped" /\ UNCHANGED mu
    BY <1>14, LockReportReports
  <2>2. mu = Free
    BY <1>14 DEF LockReport
  <2> QED
    BY <1>0, <2>1, <2>2 DEF ReportMutex, Replaced
<1>15. ASSUME NEW k \in 1..Len(reports), NumberReport(k)
     PROVE  ReportMutex'
  <2>1. PICK q \in Report :
          Replaced(k, q) /\ reports[k].st = "locked" /\ q.st = "numbered"
    BY <1>15, NumberReportReports
  <2> QED
    BY <1>0, <2>1 DEF ReportMutex, Replaced
<1>16. ASSUME NEW k \in 1..Len(reports), SendReport(k)
     PROVE  ReportMutex'
  <2>1. PICK q \in Report : Replaced(k, q) /\ q.st \in {"sent", "dropped"}
    BY <1>16, SendReportReports
  <2>2. UNCHANGED mu
    BY <1>16 DEF SendReport
  <2> QED
    BY <1>0, <2>1, <2>2 DEF ReportMutex, Replaced
<1>17. CASE UNCHANGED vars
  BY <1>17, <1>0 DEF ReportMutex, vars
<1> QED
  BY <1>1, <1>2, <1>3, <1>4, <1>5, <1>6, <1>7, <1>8, <1>9, <1>10, <1>11, <1>12, <1>13,
     <1>14, <1>15, <1>16, <1>17
  DEF Next, Application, AcceptLoop, Handler, WriteVariable, removeConn,
      UpdateAttributeValue, sendReport, TypeOK

-----------------------------------------------------------------------------
(* Subscribers. *)

\* removeConn does not miss a BRCB.
LEMMA SubscriberInvStep ==
  ASSUME TypeOK, LoopInv, ConnInv, MutexInv, SubscriberInv, [Next]_vars
  PROVE  SubscriberInv'
<1>0. /\ connPc \in [Conn -> ConnPc] /\ loopConn \in [Loop -> Conn \cup {NoConn}]
      /\ subscriber \in [Rcb -> Conn \cup {NoConn}] /\ conns \subseteq Conn
      /\ at \subseteq Rcb /\ todo \subseteq Rcb
  BY DEF TypeOK
<1>1. ASSUME Start \/ Stop \/ LockDataModel \/ UnlockDataModel
     PROVE  SubscriberInv'
  BY <1>1, <1>0 DEF SubscriberInv, Start, Stop, LockDataModel, UnlockDataModel
<1>2. ASSUME NEW n \in Loop,
              \/ CallAccept(n)
              \/ AcceptCOTP(n)
              \/ AcceptFails(n)
              \/ AfterError(n)
     PROVE  SubscriberInv'
  BY <1>2, <1>0
  DEF SubscriberInv, CallAccept, AcceptCOTP, AcceptFails, AfterError, LoopStep
<1>3. ASSUME NEW n \in Loop, AcceptCOTPFails(n)
     PROVE  SubscriberInv'
  <2>1. loopConn[n] \in Conn /\ connPc[loopConn[n]] = "accepting"
    BY <1>3, <1>0 DEF LoopInv, Holds, AcceptCOTPFails, LoopStep
  <2>3. \A d \in Conn : connPc[d] = "removing" => connPc'[d] = "removing"
    BY <1>3, <1>0, <2>1 DEF AcceptCOTPFails
  <2> QED
    BY <1>3, <1>0, <2>3 DEF SubscriberInv, AcceptCOTPFails
<1>4. ASSUME NEW n \in Loop, Register(n)
     PROVE  SubscriberInv'
  <2>1. loopConn[n] \in Conn /\ connPc[loopConn[n]] = "accepting"
    BY <1>4, <1>0 DEF LoopInv, Holds, Register, LoopStep
  <2>2. conns' \in {conns, conns \cup {loopConn[n]}} /\ UNCHANGED <<subscriber, scanVars>>
    BY <1>4 DEF Register
  <2>3. \A d \in Conn : connPc[d] = "removing" => connPc'[d] = "removing"
    BY <1>4, <1>0, <2>1 DEF Register
  <2> QED
    BY <1>0, <2>2, <2>3 DEF SubscriberInv
<1>5. ASSUME NEW n \in Loop, NEW c \in Conn, AcceptTCP(n, c)
     PROVE  SubscriberInv'
  BY <1>5, <1>0 DEF SubscriberInv, AcceptTCP, LoopStep
<1>6. ASSUME NEW c \in Conn, Handshake(c) \/ Request(c) \/ Respond(c) \/ WriteData(c)
     PROVE  SubscriberInv'
  BY <1>6, <1>0 DEF SubscriberInv, Handshake, Request, Respond, WriteData, ConnStep
<1>7. ASSUME NEW c \in Conn, Hangup(c)
     PROVE  SubscriberInv'
  BY <1>7, <1>0 DEF SubscriberInv, Hangup
<1>8. ASSUME NEW c \in Conn, NEW i \in Item,
              \/ TestRptEna(c, i)
              \/ TriggerGI(c, i)
              \/ ResetGI(c, i)
     PROVE  SubscriberInv'
  BY <1>8, <1>0 DEF SubscriberInv, TestRptEna, TriggerGI, ResetGI, ConnStep, newReport
<1>9. ASSUME NEW c \in Conn, NEW i \in Item, WriteItem(c, i)
     PROVE  SubscriberInv'
  BY <1>9, <1>0 DEF SubscriberInv, WriteItem, ConnStep
<1>10. ASSUME NEW c \in Conn, NEW i \in Item, setFieldValue(c, i)
     PROVE  SubscriberInv'
  BY <1>10, <1>0 DEF SubscriberInv, setFieldValue, ConnStep
<1>11. ASSUME NEW c \in Conn, NEW i \in Item, Bind(c, i)
     PROVE  SubscriberInv'
  <2>1. c \in conns /\ i.rcb \in Rcb
    BY <1>11 DEF ConnInv, Served, Bind, Item
  <2>2. \A d \in Conn : connPc[d] = "removing" => connPc'[d] = "removing"
    BY <1>11, <1>0 DEF Bind
  <2> QED
    BY <1>11, <1>0, <2>1, <2>2 DEF SubscriberInv, Bind
<1>12. ASSUME NEW c \in Conn, StartRemove(c)
     PROVE  SubscriberInv'
  <2>1. \A d \in Conn : connPc[d] # "removing"
    BY <1>12 DEF MutexInv, RemoveMutex, StartRemove, StartScan
  <2>2. \A r \in Rcb : subscriber[r] # NoConn => subscriber[r] \in conns
    BY <1>0, <2>1 DEF SubscriberInv
  <2> QED
    BY <1>12, <1>0, <2>2 DEF SubscriberInv, StartRemove, StartScan, ConnStep
<1>13. ASSUME NEW c \in Conn, EndRemove(c)
     PROVE  SubscriberInv'
  <2>1. \A r \in Rcb : subscriber[r] # NoConn => subscriber[r] \in conns
    BY <1>13, <1>0 DEF SubscriberInv, EndRemove, EndScan, ConnStep
  <2> QED
    BY <1>13, <1>0, <2>1 DEF SubscriberInv, EndRemove, EndScan, ConnStep
<1>14. ASSUME NEW c \in Conn, NEW r \in Rcb, RemoveVisit(c, r)
     PROVE  SubscriberInv'
  <2>1. \A d \in Conn : connPc[d] = "removing" => d = c
    BY <1>14 DEF MutexInv, RemoveMutex, RemoveVisit
  <2>2. CASE Visit(r, "id") /\ UNCHANGED subscriber
    BY <1>14, <1>0, <2>2 DEF SubscriberInv, RemoveVisit, Visit
  <2>3. CASE ScanStep(r, "id", IF subscriber[r] = c THEN "clear" ELSE "next")
             /\ UNCHANGED subscriber
    BY <1>14, <1>0, <2>1, <2>3 DEF SubscriberInv, RemoveVisit, ScanStep
  <2>4. CASE /\ ScanStep(r, "clear", "disable")
             /\ subscriber' = [subscriber EXCEPT ![r] = NoConn]
    BY <1>14, <1>0, <2>4 DEF SubscriberInv, RemoveVisit, ScanStep
  <2>5. CASE ScanStep(r, "disable", "next") /\ UNCHANGED subscriber
    BY <1>14, <1>0, <2>5 DEF SubscriberInv, RemoveVisit, ScanStep
  <2> QED
    BY <1>14, <2>2, <2>3, <2>4, <2>5 DEF RemoveVisit
<1>15. ASSUME NEW u \in Updater, SetValue(u) \/ EndUpdate(u)
     PROVE  SubscriberInv'
  BY <1>15, <1>0 DEF SubscriberInv, SetValue, EndUpdate, UpdStep, EndScan
<1>16. ASSUME NEW u \in Updater, StartUpdate(u)
     PROVE  SubscriberInv'
  <2>1. \A d \in Conn : connPc[d] # "removing"
    BY <1>16 DEF MutexInv, RemoveMutex, StartUpdate, StartScan
  <2>2. \A r \in Rcb : subscriber[r] # NoConn => subscriber[r] \in conns
    BY <1>0, <2>1 DEF SubscriberInv
  <2> QED
    BY <1>16, <1>0, <2>2 DEF SubscriberInv, StartUpdate, StartScan
<1>17. ASSUME NEW u \in Updater, NEW r \in Rcb, UpdateVisit(u, r)
     PROVE  SubscriberInv'
  <2>1. \A d \in Conn : connPc[d] # "removing"
    BY <1>17 DEF MutexInv, RemoveMutex, UpdateMutex, UpdateVisit
  <2>2. \A q \in Rcb : subscriber[q] # NoConn => subscriber[q] \in conns
    BY <1>0, <2>1 DEF SubscriberInv
  <2> QED
    BY <1>17, <1>0, <2>2 DEF SubscriberInv, UpdateVisit, Visit, ScanStep
<1>18. ASSUME NEW u \in Updater, NEW r \in Rcb, StartReport(u, r)
     PROVE  SubscriberInv'
  <2>1. \A d \in Conn : connPc[d] # "removing"
    BY <1>18 DEF MutexInv, RemoveMutex, UpdateMutex, StartReport
  <2>2. \A q \in Rcb : subscriber[q] # NoConn => subscriber[q] \in conns
    BY <1>0, <2>1 DEF SubscriberInv
  <2> QED
    BY <1>18, <1>0, <2>2 DEF SubscriberInv, StartReport, Visit, ScanStep
<1>19. ASSUME NEW k \in 1..Len(reports),
              \/ LockReport(k)
              \/ NumberReport(k)
              \/ SendReport(k)
     PROVE  SubscriberInv'
  BY <1>19, <1>0 DEF SubscriberInv, LockReport, NumberReport, SendReport
<1>20. CASE UNCHANGED vars
  BY <1>20, <1>0 DEF SubscriberInv, vars
<1> QED
  BY <1>1, <1>2, <1>3, <1>4, <1>5, <1>6, <1>7, <1>8, <1>9, <1>10, <1>11, <1>12, <1>13,
     <1>14, <1>15, <1>16, <1>17, <1>18, <1>19, <1>20
  DEF Next, Application, AcceptLoop, Handler, WriteVariable, removeConn,
      UpdateAttributeValue, sendReport, TypeOK

\* What SubscriberInv means for a connection that has been removed.
LEMMA SubscriberAliveFollows ==
  ASSUME TypeOK, ConnInv, SubscriberInv
  PROVE  SubscriberAlive
<1>1. subscriber \in [Rcb -> Conn \cup {NoConn}]
  BY DEF TypeOK
<1> QED
  BY <1>1 DEF ConnInv, Served, SubscriberInv, SubscriberAlive

-----------------------------------------------------------------------------
(* Values in reports. *)

\* The types that reasoning about reports needs.
LEMMA ReportTypes ==
  ASSUME TypeOK
  PROVE  /\ value \in Nat /\ updValue \in [Updater -> Nat]
         /\ reports \in Seq(Report)
         /\ \A k \in 1..Len(reports) :
              /\ reports[k].trig \in Nat /\ reports[k].val \in Nat
              /\ reports[k].num \in 0..(SqNumModulus - 1) /\ reports[k].rcb \in Rcb
<1>1. value \in Nat /\ updValue \in [Updater -> Nat] /\ reports \in Seq(Report)
  BY DEF TypeOK
<1>2. ASSUME NEW k \in 1..Len(reports)
      PROVE  reports[k] \in Report
  BY <1>1
<1> QED
  BY <1>1, <1>2 DEF Report

\* Values are stored before they are reported.
LEMMA TrigInvStep ==
  ASSUME TypeOK, TrigInv, [Next]_vars
  PROVE  TrigInv'
<1>0. /\ value \in Nat /\ updValue \in [Updater -> Nat]
      /\ reports \in Seq(Report)
      /\ \A k \in 1..Len(reports) : reports[k].trig \in Nat /\ reports[k].val \in Nat
  BY ReportTypes
<1>1. ASSUME Start \/ Stop \/ LockDataModel \/ UnlockDataModel
     PROVE  TrigInv'
  BY <1>1, <1>0 DEF TrigInv, Start, Stop, LockDataModel, UnlockDataModel
<1>2. ASSUME NEW n \in Loop,
              \/ CallAccept(n)
              \/ AcceptCOTP(n)
              \/ AcceptCOTPFails(n)
              \/ AcceptFails(n)
              \/ AfterError(n)
              \/ Register(n)
     PROVE  TrigInv'
  BY <1>2, <1>0
  DEF TrigInv, CallAccept, AcceptCOTP, AcceptCOTPFails, AcceptFails, AfterError,
      Register, LoopStep
<1>3. ASSUME NEW n \in Loop, NEW c \in Conn, AcceptTCP(n, c)
     PROVE  TrigInv'
  BY <1>3, <1>0 DEF TrigInv, AcceptTCP, LoopStep
<1>4. ASSUME NEW c \in Conn, Handshake(c) \/ Request(c) \/ Respond(c) \/ Hangup(c)
     PROVE  TrigInv'
  BY <1>4, <1>0 DEF TrigInv, Handshake, Request, Respond, Hangup, ConnStep
<1>5. ASSUME NEW c \in Conn, WriteData(c)
     PROVE  TrigInv'
  BY <1>5, <1>0 DEF TrigInv, WriteData
<1>6. ASSUME NEW c \in Conn, NEW i \in Item,
              \/ WriteItem(c, i)
              \/ setFieldValue(c, i)
              \/ TestRptEna(c, i)
              \/ Bind(c, i)
              \/ ResetGI(c, i)
     PROVE  TrigInv'
  BY <1>6, <1>0
  DEF TrigInv, WriteItem, setFieldValue, TestRptEna, Bind, ResetGI, ConnStep
<1>7. ASSUME NEW c \in Conn, NEW i \in Item, TriggerGI(c, i)
     PROVE  TrigInv'
  <2>1. CASE UNCHANGED reports
    BY <1>7, <2>1, <1>0 DEF TrigInv, TriggerGI
  <2>2. ASSUME NEW p \in Report, Started(p), p.conn = c, p.trig = value
        PROVE  TrigInv'
    BY <1>7, <2>2, <1>0 DEF TrigInv, Started, TriggerGI
  <2> QED
    BY <1>7, <2>1, <2>2, TriggerGIReports
<1>8. ASSUME NEW c \in Conn, StartRemove(c) \/ EndRemove(c)
     PROVE  TrigInv'
  BY <1>8, <1>0 DEF TrigInv, StartRemove, EndRemove, StartScan, ConnStep, EndScan
<1>9. ASSUME NEW c \in Conn, NEW r \in Rcb, RemoveVisit(c, r)
     PROVE  TrigInv'
  BY <1>9, <1>0 DEF TrigInv, RemoveVisit, Visit, ScanStep
<1>10. ASSUME NEW u \in Updater, StartUpdate(u) \/ EndUpdate(u)
     PROVE  TrigInv'
  BY <1>10, <1>0 DEF TrigInv, StartUpdate, EndUpdate, StartScan, UpdStep, EndScan
<1>11. ASSUME NEW u \in Updater, SetValue(u)
     PROVE  TrigInv'
  BY <1>11, <1>0 DEF TrigInv, SetValue, UpdStep
<1>12. ASSUME NEW u \in Updater, NEW r \in Rcb, UpdateVisit(u, r)
     PROVE  TrigInv'
  BY <1>12, <1>0 DEF TrigInv, UpdateVisit, Visit, ScanStep
<1>13. ASSUME NEW u \in Updater, NEW r \in Rcb, StartReport(u, r)
     PROVE  TrigInv'
  <2>1. CASE UNCHANGED reports
    BY <1>13, <2>1, <1>0 DEF TrigInv, StartReport
  <2>2. ASSUME NEW p \in Report, Started(p), p.trig = updValue[u]
        PROVE  TrigInv'
    <3>1. UNCHANGED <<value, updValue>> /\ updValue[u] <= value
      BY <1>13 DEF TrigInv, StartReport
    <3>2. \A k \in 1..Len(reports') : reports'[k].trig <= value
      BY <1>0, <2>2, <3>1 DEF TrigInv, Started
    <3> QED
      BY <3>1, <3>2 DEF TrigInv
  <2> QED
    BY <1>13, <2>1, <2>2, StartReportReports
<1>14. ASSUME NEW k \in 1..Len(reports), LockReport(k)
     PROVE  TrigInv'
  <2>1. PICK q \in Report : Replaced(k, q)
    BY <1>14, LockReportReports
  <2>2. UNCHANGED <<value, updValue>>
    BY <1>14 DEF LockReport
  <2> QED
    BY <1>0, <2>1, <2>2 DEF TrigInv, Replaced
<1>15. ASSUME NEW k \in 1..Len(reports), NumberReport(k)
     PROVE  TrigInv'
  <2>1. PICK q \in Report : Replaced(k, q)
    BY <1>15, NumberReportReports
  <2>2. UNCHANGED <<value, updValue>>
    BY <1>15 DEF NumberReport
  <2> QED
    BY <1>0, <2>1, <2>2 DEF TrigInv, Replaced
<1>16. ASSUME NEW k \in 1..Len(reports), SendReport(k)
     PROVE  TrigInv'
  <2>1. PICK q \in Report : Replaced(k, q)
    BY <1>16, SendReportReports
  <2>2. UNCHANGED <<value, updValue>>
    BY <1>16 DEF SendReport
  <2> QED
    BY <1>0, <2>1, <2>2 DEF TrigInv, Replaced
<1>17. CASE UNCHANGED vars
  BY <1>17, <1>0 DEF TrigInv, vars
<1> QED
  BY <1>1, <1>2, <1>3, <1>4, <1>5, <1>6, <1>7, <1>8, <1>9, <1>10, <1>11, <1>12, <1>13,
     <1>14, <1>15, <1>16, <1>17
  DEF Next, Application, AcceptLoop, Handler, WriteVariable, removeConn,
      UpdateAttributeValue, sendReport, TypeOK

\* The values are copied after they were stored.
LEMMA ReportFreshStep ==
  ASSUME TypeOK, TrigInv, ReportFresh, [Next]_vars
  PROVE  ReportFresh'
<1>0. /\ value \in Nat /\ updValue \in [Updater -> Nat]
      /\ reports \in Seq(Report)
      /\ \A k \in 1..Len(reports) : reports[k].trig \in Nat /\ reports[k].val \in Nat
  BY ReportTypes
<1>1. ASSUME Start \/ Stop \/ LockDataModel \/ UnlockDataModel
     PROVE  ReportFresh'
  BY <1>1, <1>0 DEF ReportFresh, Start, Stop, LockDataModel, UnlockDataModel
<1>2. ASSUME NEW n \in Loop,
              \/ CallAccept(n)
              \/ AcceptCOTP(n)
              \/ AcceptCOTPFails(n)
              \/ AcceptFails(n)
              \/ AfterError(n)
              \/ Register(n)
     PROVE  ReportFresh'
  BY <1>2, <1>0
  DEF ReportFresh, CallAccept, AcceptCOTP, AcceptCOTPFails, AcceptFails, AfterError,
      Register, LoopStep
<1>3. ASSUME NEW n \in Loop, NEW c \in Conn, AcceptTCP(n, c)
     PROVE  ReportFresh'
  BY <1>3, <1>0 DEF ReportFresh, AcceptTCP, LoopStep
<1>4. ASSUME NEW c \in Conn,
              \/ Handshake(c)
              \/ Request(c)
              \/ Respond(c)
              \/ WriteData(c)
              \/ Hangup(c)
     PROVE  ReportFresh'
  BY <1>4, <1>0
  DEF ReportFresh, Handshake, Request, Respond, WriteData, Hangup, ConnStep
<1>5. ASSUME NEW c \in Conn, NEW i \in Item,
              \/ WriteItem(c, i)
              \/ setFieldValue(c, i)
              \/ TestRptEna(c, i)
              \/ Bind(c, i)
              \/ ResetGI(c, i)
     PROVE  ReportFresh'
  BY <1>5, <1>0
  DEF ReportFresh, WriteItem, setFieldValue, TestRptEna, Bind, ResetGI, ConnStep
<1>6. ASSUME NEW c \in Conn, NEW i \in Item, TriggerGI(c, i)
     PROVE  ReportFresh'
  <2>1. CASE UNCHANGED reports
    BY <1>6, <2>1, <1>0 DEF ReportFresh, TriggerGI
  <2>2. ASSUME NEW p \in Report, Started(p), p.conn = c, p.trig = value
        PROVE  ReportFresh'
    BY <1>6, <2>2, <1>0, SMTT(60) DEF ReportFresh, Started, TriggerGI
  <2> QED
    BY <1>6, <2>1, <2>2, TriggerGIReports
<1>7. ASSUME NEW c \in Conn, StartRemove(c) \/ EndRemove(c)
     PROVE  ReportFresh'
  BY <1>7, <1>0 DEF ReportFresh, StartRemove, EndRemove, StartScan, ConnStep, EndScan
<1>8. ASSUME NEW c \in Conn, NEW r \in Rcb, RemoveVisit(c, r)
     PROVE  ReportFresh'
  BY <1>8, <1>0 DEF ReportFresh, RemoveVisit, Visit, ScanStep
<1>9. ASSUME NEW u \in Updater, SetValue(u) \/ StartUpdate(u) \/ EndUpdate(u)
     PROVE  ReportFresh'
  BY <1>9, <1>0
  DEF ReportFresh, SetValue, StartUpdate, EndUpdate, UpdStep, StartScan, EndScan
<1>10. ASSUME NEW u \in Updater, NEW r \in Rcb, UpdateVisit(u, r)
     PROVE  ReportFresh'
  BY <1>10, <1>0 DEF ReportFresh, UpdateVisit, Visit, ScanStep
<1>11. ASSUME NEW u \in Updater, NEW r \in Rcb, StartReport(u, r)
     PROVE  ReportFresh'
  <2>1. CASE UNCHANGED reports
    BY <1>11, <2>1, <1>0 DEF ReportFresh, StartReport
  <2>2. ASSUME NEW p \in Report, Started(p), subscriber[r] # NoConn,
               p.conn = subscriber[r], p.trig = updValue[u]
        PROVE  ReportFresh'
    BY <1>11, <2>2, <1>0 DEF ReportFresh, Started, StartReport
  <2> QED
    BY <1>11, <2>1, <2>2, StartReportReports
<1>12. ASSUME NEW k \in 1..Len(reports), LockReport(k)
     PROVE  ReportFresh'
  <2>1. PICK q \in Report :
          /\ Replaced(k, q)
          /\ reports[k].st = "started"
          /\ \/ /\ q.st = "locked" /\ q.val = value /\ q.num = sqNum[q.rcb]
                /\ mu' = "report"
             \/ q.st = "dropped" /\ UNCHANGED mu
    BY <1>12, LockReportReports
  <2> QED
    BY <1>0, <2>1 DEF TrigInv, ReportFresh, Replaced
<1>13. ASSUME NEW k \in 1..Len(reports), NumberReport(k)
     PROVE  ReportFresh'
  <2>1. PICK q \in Report :
          Replaced(k, q) /\ reports[k].st = "locked" /\ q.val = reports[k].val
    BY <1>13, NumberReportReports
  <2> QED
    BY <1>0, <2>1 DEF ReportFresh, Replaced
<1>14. ASSUME NEW k \in 1..Len(reports), SendReport(k)
     PROVE  ReportFresh'
  <2>1. PICK q \in Report :
          Replaced(k, q) /\ reports[k].st = "numbered" /\ q.val = reports[k].val
    BY <1>14, SendReportReports
  <2> QED
    BY <1>0, <2>1 DEF ReportFresh, Replaced
<1>15. CASE UNCHANGED vars
  BY <1>15, <1>0 DEF ReportFresh, vars
<1> QED
  BY <1>1, <1>2, <1>3, <1>4, <1>5, <1>6, <1>7, <1>8, <1>9, <1>10, <1>11, <1>12, <1>13,
     <1>14, <1>15
  DEF Next, Application, AcceptLoop, Handler, WriteVariable, removeConn,
      UpdateAttributeValue, sendReport, TypeOK

-----------------------------------------------------------------------------
(* Sequence numbers. *)

\* SqNum is the last number given out.
LEMMA NumberInvStep ==
  ASSUME TypeOK, MutexInv, NumberInv, [Next]_vars
  PROVE  NumberInv'
<1>0. /\ sqNum \in [Rcb -> 0..(SqNumModulus - 1)]
      /\ numbers \in [Rcb -> Seq(0..(SqNumModulus - 1))]
      /\ reports \in Seq(Report)
      /\ \A k \in 1..Len(reports) : reports[k].rcb \in Rcb
  BY ReportTypes DEF TypeOK
<1>1. ASSUME Start \/ Stop \/ LockDataModel \/ UnlockDataModel
     PROVE  NumberInv'
  BY <1>1, <1>0 DEF NumberInv, LastNumber, Start, Stop, LockDataModel, UnlockDataModel
<1>2. ASSUME NEW n \in Loop,
              \/ CallAccept(n)
              \/ AcceptCOTP(n)
              \/ AcceptCOTPFails(n)
              \/ AcceptFails(n)
              \/ AfterError(n)
              \/ Register(n)
     PROVE  NumberInv'
  BY <1>2, <1>0
  DEF NumberInv, LastNumber, CallAccept, AcceptCOTP, AcceptCOTPFails, AcceptFails,
      AfterError, Register, LoopStep
<1>3. ASSUME NEW n \in Loop, NEW c \in Conn, AcceptTCP(n, c)
     PROVE  NumberInv'
  BY <1>3, <1>0 DEF NumberInv, LastNumber, AcceptTCP, LoopStep
<1>4. ASSUME NEW c \in Conn,
              \/ Handshake(c)
              \/ Request(c)
              \/ Respond(c)
              \/ WriteData(c)
              \/ Hangup(c)
     PROVE  NumberInv'
  BY <1>4, <1>0
  DEF NumberInv, LastNumber, Handshake, Request, Respond, WriteData, Hangup, ConnStep
<1>5. ASSUME NEW c \in Conn, NEW i \in Item,
              \/ WriteItem(c, i)
              \/ TestRptEna(c, i)
              \/ Bind(c, i)
              \/ ResetGI(c, i)
     PROVE  NumberInv'
  BY <1>5, <1>0
  DEF NumberInv, LastNumber, WriteItem, TestRptEna, Bind, ResetGI, ConnStep
<1>6. ASSUME NEW c \in Conn, NEW i \in Item, setFieldValue(c, i)
     PROVE  NumberInv'
  <2>1. i.rcb \in Rcb /\ ("SqNum" \notin Field => i.field # "SqNum")
    BY DEF Item
  <2> QED
    BY <1>6, <1>0, <2>1 DEF NumberInv, LastNumber, setFieldValue
<1>7. ASSUME NEW c \in Conn, NEW i \in Item, TriggerGI(c, i)
     PROVE  NumberInv'
  <2>1. UNCHANGED <<sqNum, numbers>>
    BY <1>7 DEF TriggerGI
  <2>2. CASE UNCHANGED reports
    BY <2>1, <2>2 DEF NumberInv, LastNumber
  <2>3. ASSUME NEW p \in Report, Started(p)
        PROVE  NumberInv'
    <3>1. \A k \in 1..Len(reports') : reports'[k].st = "locked" =>
            k \in 1..Len(reports) /\ reports'[k] = reports[k]
      BY <2>3, StartedOld
    <3> QED
      BY <2>1, <3>1 DEF NumberInv, LastNumber
  <2> QED
    BY <1>7, <2>2, <2>3, TriggerGIReports
<1>8. ASSUME NEW c \in Conn, StartRemove(c) \/ EndRemove(c)
     PROVE  NumberInv'
  BY <1>8, <1>0
  DEF NumberInv, LastNumber, StartRemove, EndRemove, StartScan, ConnStep, EndScan
<1>9. ASSUME NEW c \in Conn, NEW r \in Rcb, RemoveVisit(c, r)
     PROVE  NumberInv'
  BY <1>9, <1>0 DEF NumberInv, LastNumber, RemoveVisit, Visit, ScanStep
<1>10. ASSUME NEW u \in Updater, SetValue(u) \/ StartUpdate(u) \/ EndUpdate(u)
     PROVE  NumberInv'
  BY <1>10, <1>0
  DEF NumberInv, LastNumber, SetValue, StartUpdate, EndUpdate, UpdStep, StartScan,
      EndScan
<1>11. ASSUME NEW u \in Updater, NEW r \in Rcb, UpdateVisit(u, r)
     PROVE  NumberInv'
  BY <1>11, <1>0 DEF NumberInv, LastNumber, UpdateVisit, Visit, ScanStep
<1>12. ASSUME NEW u \in Updater, NEW r \in Rcb, StartReport(u, r)
     PROVE  NumberInv'
  <2>1. UNCHANGED <<sqNum, numbers>>
    BY <1>12 DEF StartReport
  <2>2. CASE UNCHANGED reports
    BY <2>1, <2>2 DEF NumberInv, LastNumber
  <2>3. ASSUME NEW p \in Report, Started(p)
        PROVE  NumberInv'
    <3>1. \A k \in 1..Len(reports') : reports'[k].st = "locked" =>
            k \in 1..Len(reports) /\ reports'[k] = reports[k]
      BY <2>3, StartedOld
    <3> QED
      BY <2>1, <3>1 DEF NumberInv, LastNumber
  <2> QED
    BY <1>12, <2>2, <2>3, StartReportReports
<1>13. ASSUME NEW k \in 1..Len(reports), LockReport(k)
     PROVE  NumberInv'
  <2>1. PICK q \in Report :
          /\ Replaced(k, q)
          /\ reports[k].st = "started"
          /\ \/ /\ q.st = "locked" /\ q.val = value /\ q.num = sqNum[q.rcb]
                /\ mu' = "report"
             \/ q.st = "dropped" /\ UNCHANGED mu
    BY <1>13, LockReportReports
  <2>2. UNCHANGED <<sqNum, numbers>>
    BY <1>13 DEF LockReport
  <2>3. \A j \in 1..Len(reports') : reports'[j].st = "locked" =>
          \/ j \in 1..Len(reports) /\ reports'[j] = reports[j]
          \/ reports'[j].num = sqNum[reports'[j].rcb]
    BY <1>0, <2>1 DEF Replaced
  <2> QED
    BY <2>2, <2>3 DEF NumberInv, LastNumber
<1>14. ASSUME NEW k \in 1..Len(reports), NumberReport(k)
     PROVE  NumberInv'
  <2>1. PICK q \in Report :
          /\ Replaced(k, q)
          /\ reports[k].st = "locked" /\ q.st = "numbered"
          /\ q.num \in 0..(SqNumModulus - 1) /\ q.rcb \in Rcb
          /\ sqNum' = [sqNum EXCEPT ![q.rcb] = q.num]
          /\ numbers' = [numbers EXCEPT ![q.rcb] = Append(@, q.num)]
    BY <1>14, NumberReportReports
  <2>2. \A j \in 1..Len(reports') : reports'[j].st # "locked"
    BY <1>0, <2>1 DEF MutexInv, ReportMutex, Replaced
  <2>3. PICK s \in Seq(0..(SqNumModulus - 1)) : numbers'[q.rcb] = Append(s, q.num)
    BY <1>0, <2>1
  <2>4. /\ numbers'[q.rcb] # << >>
        /\ numbers'[q.rcb][Len(numbers'[q.rcb])] = q.num
    BY <1>0, <2>1, <2>3, SMTT(60)
  <2>5. sqNum'[q.rcb] = LastNumber(q.rcb)'
    BY <1>0, <2>1, <2>4 DEF LastNumber
  <2>6. \A r \in Rcb : r # q.rcb => sqNum'[r] = sqNum[r] /\ numbers'[r] = numbers[r]
    BY <1>0, <2>1
  <2> QED
    BY <2>2, <2>5, <2>6 DEF NumberInv, LastNumber
<1>15. ASSUME NEW k \in 1..Len(reports), SendReport(k)
     PROVE  NumberInv'
  <2>1. PICK q \in Report : Replaced(k, q) /\ q.st \in {"sent", "dropped"}
    BY <1>15, SendReportReports
  <2>2. UNCHANGED <<sqNum, numbers>>
    BY <1>15 DEF SendReport
  <2> QED
    BY <1>0, <2>1, <2>2 DEF NumberInv, LastNumber, Replaced
<1>16. CASE UNCHANGED vars
  BY <1>16, <1>0 DEF NumberInv, LastNumber, vars
<1> QED
  BY <1>1, <1>2, <1>3, <1>4, <1>5, <1>6, <1>7, <1>8, <1>9, <1>10, <1>11, <1>12, <1>13,
     <1>14, <1>15, <1>16
  DEF Next, Application, AcceptLoop, Handler, WriteVariable, removeConn,
      UpdateAttributeValue, sendReport, TypeOK

\* The next number follows the last one.
LEMMA ConsecutiveStep ==
  ASSUME TypeOK, NumberInv, Consecutive, [Next]_vars
  PROVE  Consecutive'
<1>1. ASSUME Start \/ Stop \/ LockDataModel \/ UnlockDataModel
     PROVE  Consecutive'
  BY <1>1 DEF Consecutive, Start, Stop, LockDataModel, UnlockDataModel
<1>2. ASSUME NEW n \in Loop,
              \/ CallAccept(n)
              \/ AcceptCOTP(n)
              \/ AcceptCOTPFails(n)
              \/ AcceptFails(n)
              \/ AfterError(n)
              \/ Register(n)
     PROVE  Consecutive'
  BY <1>2
  DEF Consecutive, CallAccept, AcceptCOTP, AcceptCOTPFails, AcceptFails, AfterError,
      Register, LoopStep
<1>3. ASSUME NEW n \in Loop, NEW c \in Conn, AcceptTCP(n, c)
     PROVE  Consecutive'
  BY <1>3 DEF Consecutive, AcceptTCP, LoopStep
<1>4. ASSUME NEW c \in Conn,
              \/ Handshake(c)
              \/ Request(c)
              \/ Respond(c)
              \/ WriteData(c)
              \/ Hangup(c)
     PROVE  Consecutive'
  BY <1>4 DEF Consecutive, Handshake, Request, Respond, WriteData, Hangup, ConnStep
<1>5. ASSUME NEW c \in Conn, NEW i \in Item,
              \/ WriteItem(c, i)
              \/ setFieldValue(c, i)
              \/ TestRptEna(c, i)
              \/ Bind(c, i)
              \/ TriggerGI(c, i)
              \/ ResetGI(c, i)
     PROVE  Consecutive'
  BY <1>5
  DEF Consecutive, WriteItem, setFieldValue, TestRptEna, Bind, TriggerGI, ResetGI,
      ConnStep, newReport
<1>6. ASSUME NEW c \in Conn, StartRemove(c) \/ EndRemove(c)
     PROVE  Consecutive'
  BY <1>6 DEF Consecutive, StartRemove, EndRemove, StartScan, ConnStep, EndScan
<1>7. ASSUME NEW c \in Conn, NEW r \in Rcb, RemoveVisit(c, r)
     PROVE  Consecutive'
  BY <1>7 DEF Consecutive, RemoveVisit, Visit, ScanStep
<1>8. ASSUME NEW u \in Updater, SetValue(u) \/ StartUpdate(u) \/ EndUpdate(u)
     PROVE  Consecutive'
  BY <1>8 DEF Consecutive, SetValue, StartUpdate, EndUpdate, UpdStep, StartScan, EndScan
<1>9. ASSUME NEW u \in Updater, NEW r \in Rcb, UpdateVisit(u, r) \/ StartReport(u, r)
     PROVE  Consecutive'
  BY <1>9 DEF Consecutive, UpdateVisit, StartReport, Visit, ScanStep, newReport
<1>10. ASSUME NEW k \in 1..Len(reports), LockReport(k) \/ SendReport(k)
     PROVE  Consecutive'
  BY <1>10, SMTT(60) DEF Consecutive, LockReport, SendReport
<1>11. ASSUME NEW k \in 1..Len(reports), NumberReport(k)
     PROVE  Consecutive'
  <2> SUFFICES ASSUME "SqNum" \notin Field
               PROVE  Consecutive'
    BY DEF Consecutive
  <2>1. PICK q \in Report :
          /\ Replaced(k, q)
          /\ reports[k].st = "locked"
          /\ q.num = nextSqNum(reports[k].num)
          /\ q.num \in 0..(SqNumModulus - 1) /\ q.rcb \in Rcb
          /\ numbers' = [numbers EXCEPT ![q.rcb] = Append(@, q.num)]
    BY <1>11, NumberReportReports
  <2>2. q.num = (LastNumber(q.rcb) + 1) % SqNumModulus
    BY <2>1 DEF NumberInv, Replaced, nextSqNum
  <2>3. numbers \in [Rcb -> Seq(0..(SqNumModulus - 1))]
    BY DEF TypeOK
  <2> DEFINE s == numbers[q.rcb]
             Follows(t, j) == t[j] = ((IF j = 1 THEN 0 ELSE t[j - 1]) + 1) % SqNumModulus
  <2>4. s \in Seq(0..(SqNumModulus - 1)) /\ numbers'[q.rcb] = Append(s, q.num)
    BY <2>1, <2>3
  <2>5. /\ Len(Append(s, q.num)) = Len(s) + 1
        /\ Append(s, q.num)[Len(s) + 1] = q.num
        /\ \A j \in 1..Len(s) : Append(s, q.num)[j] = s[j]
    BY <2>1, <2>4
  <2>6. \A j \in 1..Len(s) : Follows(s, j)
    BY <2>1 DEF Consecutive
  <2>7. \A j \in 1..Len(s) : Follows(Append(s, q.num), j)
    <3> TAKE j \in 1..Len(s)
    <3>1. CASE j = 1
      BY <2>4, <2>5, <2>6, <3>1
    <3>2. CASE j # 1
      <4>1. j - 1 \in 1..Len(s)
        BY <2>4, <3>2
      <4> QED
        BY <2>5, <2>6, <3>2, <4>1
    <3> QED
      BY <3>1, <3>2
  <2>8. Follows(Append(s, q.num), Len(s) + 1)
    <3>1. CASE s = << >>
      BY <2>2, <2>5, <3>1 DEF LastNumber
    <3>2. CASE s # << >>
      <4>1. Len(s) \in 1..Len(s) /\ Len(s) + 1 # 1 /\ (Len(s) + 1) - 1 = Len(s)
        BY <2>4, <3>2
      <4>2. Append(s, q.num)[Len(s)] = LastNumber(q.rcb)
        BY <2>5, <3>2, <4>1 DEF LastNumber
      <4> QED
        BY <2>2, <2>5, <4>1, <4>2
    <3> QED
      BY <3>1, <3>2
  <2> HIDE DEF Follows
  <2>9. \A j \in 1..Len(numbers'[q.rcb]) : Follows(numbers'[q.rcb], j)
    BY <2>4, <2>5, <2>7, <2>8
  <2> USE DEF Follows
  <2>10. \A r \in Rcb : r # q.rcb => numbers'[r] = numbers[r]
    BY <2>1, <2>3
  <2> QED
    BY <2>9, <2>10, SMTT(60) DEF Consecutive
<1>12. CASE UNCHANGED vars
  BY <1>12 DEF Consecutive, vars
<1> QED
  BY <1>1, <1>2, <1>3, <1>4, <1>5, <1>6, <1>7, <1>8, <1>9, <1>10, <1>11, <1>12
  DEF Next, Application, AcceptLoop, Handler, WriteVariable, removeConn,
      UpdateAttributeValue, sendReport, TypeOK

-----------------------------------------------------------------------------
(* General interrogation. *)

\* A handler has one variable in hand.
LEMMA ItemInvStep ==
  ASSUME TypeOK, ItemInv, [Next]_vars
  PROVE  ItemInv'
<1>0. item \in [Conn -> SUBSET Item]
  BY DEF TypeOK
<1>1. ASSUME Start \/ Stop \/ LockDataModel \/ UnlockDataModel
     PROVE  ItemInv'
  BY <1>1, <1>0 DEF ItemInv, Start, Stop, LockDataModel, UnlockDataModel
<1>2. ASSUME NEW n \in Loop,
              \/ CallAccept(n)
              \/ AcceptCOTP(n)
              \/ AcceptCOTPFails(n)
              \/ AcceptFails(n)
              \/ AfterError(n)
              \/ Register(n)
     PROVE  ItemInv'
  BY <1>2, <1>0
  DEF ItemInv, CallAccept, AcceptCOTP, AcceptCOTPFails, AcceptFails, AfterError,
      Register, LoopStep
<1>3. ASSUME NEW n \in Loop, NEW c \in Conn, AcceptTCP(n, c)
     PROVE  ItemInv'
  BY <1>3, <1>0 DEF ItemInv, AcceptTCP, LoopStep
<1>4. ASSUME NEW c \in Conn,
              \/ Handshake(c)
              \/ Request(c)
              \/ Respond(c)
              \/ WriteData(c)
              \/ Hangup(c)
     PROVE  ItemInv'
  BY <1>4, <1>0 DEF ItemInv, Handshake, Request, Respond, WriteData, Hangup, ConnStep
<1>5. ASSUME NEW c \in Conn, NEW i \in Item,
              \/ WriteItem(c, i)
              \/ setFieldValue(c, i)
              \/ TestRptEna(c, i)
              \/ Bind(c, i)
              \/ TriggerGI(c, i)
              \/ ResetGI(c, i)
     PROVE  ItemInv'
  BY <1>5, <1>0
  DEF ItemInv, WriteItem, setFieldValue, TestRptEna, Bind, TriggerGI, ResetGI, ConnStep,
      newReport
<1>6. ASSUME NEW c \in Conn, StartRemove(c) \/ EndRemove(c)
     PROVE  ItemInv'
  BY <1>6, <1>0 DEF ItemInv, StartRemove, EndRemove, StartScan, ConnStep, EndScan
<1>7. ASSUME NEW c \in Conn, NEW r \in Rcb, RemoveVisit(c, r)
     PROVE  ItemInv'
  BY <1>7, <1>0 DEF ItemInv, RemoveVisit, Visit, ScanStep
<1>8. ASSUME NEW u \in Updater, SetValue(u) \/ StartUpdate(u) \/ EndUpdate(u)
     PROVE  ItemInv'
  BY <1>8, <1>0
  DEF ItemInv, SetValue, StartUpdate, EndUpdate, UpdStep, StartScan, EndScan
<1>9. ASSUME NEW u \in Updater, NEW r \in Rcb, UpdateVisit(u, r) \/ StartReport(u, r)
     PROVE  ItemInv'
  BY <1>9, <1>0 DEF ItemInv, UpdateVisit, StartReport, Visit, ScanStep, newReport
<1>10. ASSUME NEW k \in 1..Len(reports),
              \/ LockReport(k)
              \/ NumberReport(k)
              \/ SendReport(k)
     PROVE  ItemInv'
  BY <1>10, <1>0 DEF ItemInv, LockReport, NumberReport, SendReport
<1>11. CASE UNCHANGED vars
  BY <1>11, <1>0 DEF ItemInv, vars
<1> QED
  BY <1>1, <1>2, <1>3, <1>4, <1>5, <1>6, <1>7, <1>8, <1>9, <1>10, <1>11
  DEF Next, Application, AcceptLoop, Handler, WriteVariable, removeConn,
      UpdateAttributeValue, sendReport, TypeOK

\* GI is reset by whoever set it.
LEMMA GIResetStep ==
  ASSUME TypeOK, LoopInv, ItemInv, GIReset, [Next]_vars
  PROVE  GIReset'
<1>0. /\ connPc \in [Conn -> ConnPc] /\ item \in [Conn -> SUBSET Item]
      /\ gi \in [Rcb -> BOOLEAN] /\ loopConn \in [Loop -> Conn \cup {NoConn}]
  BY DEF TypeOK
<1> DEFINE Writing(c, r) == /\ connPc[c] \in {"test", "reset"}
                            /\ \E i \in item[c] : i.rcb = r /\ i.field = "GI"
<1>1. ASSUME Start \/ Stop \/ LockDataModel \/ UnlockDataModel
     PROVE  GIReset'
  BY <1>1 DEF GIReset, Start, Stop, LockDataModel, UnlockDataModel
<1>2. ASSUME NEW n \in Loop,
              \/ CallAccept(n)
              \/ AcceptCOTP(n)
              \/ AcceptFails(n)
              \/ AfterError(n)
     PROVE  GIReset'
  BY <1>2 DEF GIReset, CallAccept, AcceptCOTP, AcceptFails, AfterError, LoopStep
<1>3. ASSUME NEW n \in Loop, AcceptCOTPFails(n)
     PROVE  GIReset'
  <2>1. loopConn[n] \in Conn /\ connPc[loopConn[n]] = "accepting"
    BY <1>3, <1>0 DEF LoopInv, Holds, AcceptCOTPFails, LoopStep
  <2>2. UNCHANGED <<gi, item>>
    BY <1>3 DEF AcceptCOTPFails
  <2>3. \A d \in Conn : connPc[d] \in {"test", "reset"} => connPc'[d] = connPc[d]
    BY <1>3, <1>0, <2>1 DEF AcceptCOTPFails
  <2> QED
    BY <2>2, <2>3 DEF GIReset
<1>4. ASSUME NEW n \in Loop, Register(n)
     PROVE  GIReset'
  <2>1. loopConn[n] \in Conn /\ connPc[loopConn[n]] = "accepting"
    BY <1>4, <1>0 DEF LoopInv, Holds, Register, LoopStep
  <2>2. UNCHANGED <<gi, item>>
    BY <1>4 DEF Register
  <2>3. \A d \in Conn : connPc[d] \in {"test", "reset"} => connPc'[d] = connPc[d]
    BY <1>4, <1>0, <2>1 DEF Register
  <2> QED
    BY <2>2, <2>3 DEF GIReset
<1>5. ASSUME NEW n \in Loop, NEW c \in Conn, AcceptTCP(n, c)
     PROVE  GIReset'
  <2>1. UNCHANGED <<gi, item>>
    BY <1>5 DEF AcceptTCP
  <2>2. \A d \in Conn : connPc[d] \in {"test", "reset"} => connPc'[d] = connPc[d]
    BY <1>5, <1>0 DEF AcceptTCP
  <2> QED
    BY <2>1, <2>2 DEF GIReset
<1>6. ASSUME NEW c \in Conn, WriteData(c)
     PROVE  GIReset'
  BY <1>6 DEF GIReset, WriteData
<1>7. ASSUME NEW c \in Conn, Handshake(c)
     PROVE  GIReset'
  <2>1. UNCHANGED <<gi, item>>
    BY <1>7 DEF Handshake
  <2>2. \A d \in Conn : connPc[d] \in {"test", "reset"} => connPc'[d] = connPc[d]
    BY <1>7, <1>0 DEF Handshake, ConnStep
  <2> QED
    BY <2>1, <2>2 DEF GIReset
<1>8. ASSUME NEW c \in Conn, Request(c)
     PROVE  GIReset'
  <2>1. UNCHANGED <<gi, item>>
    BY <1>8 DEF Request
  <2>2. \A d \in Conn : connPc[d] \in {"test", "reset"} => connPc'[d] = connPc[d]
    BY <1>8, <1>0 DEF Request, ConnStep
  <2> QED
    BY <2>1, <2>2 DEF GIReset
<1>9. ASSUME NEW c \in Conn, Respond(c)
     PROVE  GIReset'
  <2>1. UNCHANGED <<gi, item>>
    BY <1>9 DEF Respond
  <2>2. \A d \in Conn : connPc[d] \in {"test", "reset"} => connPc'[d] = connPc[d]
    BY <1>9, <1>0 DEF Respond, ConnStep
  <2> QED
    BY <2>1, <2>2 DEF GIReset
<1>10. ASSUME NEW c \in Conn, Hangup(c)
     PROVE  GIReset'
  <2>1. UNCHANGED <<gi, item>>
    BY <1>10 DEF Hangup
  <2>2. \A d \in Conn : connPc[d] \in {"test", "reset"} => connPc'[d] = connPc[d]
    BY <1>10, <1>0 DEF Hangup
  <2> QED
    BY <2>1, <2>2 DEF GIReset
<1>11. ASSUME NEW c \in Conn, NEW i \in Item, WriteItem(c, i)
     PROVE  GIReset'
  <2>1. \A r \in Rcb : ~Writing(c, r)
    BY <1>11, <1>0 DEF WriteItem, ConnStep
  <2>2. \A d \in Conn, r \in Rcb : Writing(d, r) => Writing(d, r)'
    <3> TAKE d \in Conn, r \in Rcb
    <3>1. CASE d = c
      BY <2>1, <3>1
    <3>2. CASE d # c
      BY <1>11, <1>0, <3>2 DEF WriteItem, ConnStep
    <3> QED
      BY <3>1, <3>2
  <2> QED
    BY <1>11, <2>2 DEF GIReset, WriteItem
<1>12. ASSUME NEW c \in Conn, NEW i \in Item, setFieldValue(c, i)
     PROVE  GIReset'
  <2>1. \A r \in Rcb : ~Writing(c, r)
    BY <1>12, <1>0 DEF setFieldValue, ConnStep
  <2>2. \A d \in Conn, r \in Rcb : Writing(d, r) => Writing(d, r)'
    <3> TAKE d \in Conn, r \in Rcb
    <3>1. CASE d = c
      BY <2>1, <3>1
    <3>2. CASE d # c
      BY <1>12, <1>0, <3>2 DEF setFieldValue, ConnStep
    <3> QED
      BY <3>1, <3>2
  <2>3. i.rcb \in Rcb /\ i \in item[c] /\ UNCHANGED item
    BY <1>12 DEF setFieldValue, Item
  <2>4. ASSUME NEW r \in Rcb, gi'[r], ~gi[r]
        PROVE  Writing(c, r)'
    <3>1. r = i.rcb /\ i.field = "GI" /\ i.val = 1
      BY <1>12, <1>0, <2>3, <2>4 DEF setFieldValue
    <3>2. connPc'[c] = "test"
      BY <1>12, <1>0, <3>1 DEF setFieldValue, ConnStep
    <3> QED
      BY <2>3, <3>1, <3>2
  <2> QED
    BY <2>2, <2>4 DEF GIReset
<1>13. ASSUME NEW c \in Conn, NEW i \in Item, TestRptEna(c, i)
     PROVE  GIReset'
  <2>1. \A r \in Rcb : ~Writing(c, r)
    BY <1>13, <1>0 DEF TestRptEna, ItemInv
  <2>2. \A d \in Conn, r \in Rcb : Writing(d, r) => Writing(d, r)'
    <3> TAKE d \in Conn, r \in Rcb
    <3>1. CASE d = c
      BY <2>1, <3>1
    <3>2. CASE d # c
      BY <1>13, <1>0, <3>2 DEF TestRptEna, ConnStep
    <3> QED
      BY <3>1, <3>2
  <2> QED
    BY <1>13, <2>2 DEF GIReset, TestRptEna
<1>14. ASSUME NEW c \in Conn, NEW i \in Item, Bind(c, i)
     PROVE  GIReset'
  <2>1. UNCHANGED <<gi, item>>
    BY <1>14 DEF Bind
  <2>2. \A d \in Conn : connPc[d] \in {"test", "reset"} => connPc'[d] = connPc[d]
    BY <1>14, <1>0 DEF Bind
  <2> QED
    BY <2>1, <2>2 DEF GIReset
<1>15. ASSUME NEW c \in Conn, NEW i \in Item, TriggerGI(c, i)
     PROVE  GIReset'
  <2>1. \A d \in Conn : connPc[d] \in {"test", "reset"} => connPc'[d] \in {"test", "reset"}
    BY <1>15, <1>0 DEF TriggerGI, ConnStep
  <2> QED
    BY <1>15, <2>1 DEF GIReset, TriggerGI
<1>16. ASSUME NEW c \in Conn, NEW i \in Item, ResetGI(c, i)
     PROVE  GIReset'
  <2>1. i.rcb \in Rcb /\ UNCHANGED item
    BY <1>16 DEF ResetGI, Item
  <2>2. \A r \in Rcb : r # i.rcb => ~Writing(c, r)
    BY <1>16, <1>0 DEF ResetGI, ItemInv
  <2>3. \A d \in Conn : d # c => connPc'[d] = connPc[d]
    BY <1>16, <1>0 DEF ResetGI, ConnStep
  <2>4. \A r \in Rcb : gi'[r] => r # i.rcb /\ gi[r]
    BY <1>16, <1>0, <2>1 DEF ResetGI
  <2>5. ASSUME NEW r \in Rcb, gi'[r]
        PROVE  \E d \in Conn : Writing(d, r)'
    <3>1. PICK d \in Conn : Writing(d, r)
      BY <2>4, <2>5 DEF GIReset
    <3>2. d # c
      BY <2>2, <2>4, <2>5, <3>1
    <3> QED
      BY <2>1, <2>3, <3>1, <3>2
  <2> QED
    BY <2>5 DEF GIReset
<1>17. ASSUME NEW c \in Conn, StartRemove(c)
     PROVE  GIReset'
  <2>1. UNCHANGED <<gi, item>>
    BY <1>17 DEF StartRemove
  <2>2. \A d \in Conn : connPc[d] \in {"test", "reset"} => connPc'[d] = connPc[d]
    BY <1>17, <1>0 DEF StartRemove, ConnStep
  <2> QED
    BY <2>1, <2>2 DEF GIReset
<1>18. ASSUME NEW c \in Conn, EndRemove(c)
     PROVE  GIReset'
  <2>1. UNCHANGED <<gi, item>>
    BY <1>18 DEF EndRemove
  <2>2. \A d \in Conn : connPc[d] \in {"test", "reset"} => connPc'[d] = connPc[d]
    BY <1>18, <1>0 DEF EndRemove, ConnStep
  <2> QED
    BY <2>1, <2>2 DEF GIReset
<1>19. ASSUME NEW c \in Conn, NEW r \in Rcb, RemoveVisit(c, r)
     PROVE  GIReset'
  BY <1>19 DEF GIReset, RemoveVisit, Visit, ScanStep
<1>20. ASSUME NEW u \in Updater, SetValue(u) \/ StartUpdate(u) \/ EndUpdate(u)
     PROVE  GIReset'
  BY <1>20 DEF GIReset, SetValue, StartUpdate, EndUpdate, UpdStep, StartScan, EndScan
<1>21. ASSUME NEW u \in Updater, NEW r \in Rcb, UpdateVisit(u, r) \/ StartReport(u, r)
     PROVE  GIReset'
  BY <1>21 DEF GIReset, UpdateVisit, StartReport, Visit, ScanStep, newReport
<1>22. ASSUME NEW k \in 1..Len(reports),
              \/ LockReport(k)
              \/ NumberReport(k)
              \/ SendReport(k)
     PROVE  GIReset'
  BY <1>22 DEF GIReset, LockReport, NumberReport, SendReport
<1>23. CASE UNCHANGED vars
  BY <1>23 DEF GIReset, vars
<1> QED
  BY <1>1, <1>2, <1>3, <1>4, <1>5, <1>6, <1>7, <1>8, <1>9, <1>10, <1>11, <1>12, <1>13,
     <1>14, <1>15, <1>16, <1>17, <1>18, <1>19, <1>20, <1>21, <1>22, <1>23
  DEF Next, Application, AcceptLoop, Handler, WriteVariable, removeConn,
      UpdateAttributeValue, sendReport, TypeOK

-----------------------------------------------------------------------------
(* The theorems. *)

\* The first state satisfies every part of ServerInv.
LEMMA InitServerInv ==
  ASSUME Init
  PROVE  ServerInv
<1>1. TypeOK
  <2>1. /\ reports \in Seq(Report) /\ numbers \in [Rcb -> Seq(0..(SqNumModulus - 1))]
        /\ sqNum \in [Rcb -> 0..(SqNumModulus - 1)]
    BY DEF Init
  <2>2. /\ starts \in 0..MaxStarts /\ loopOn \in [Loop -> 0..MaxStarts]
        /\ loopPc \in [Loop -> LoopPc] /\ loopConn \in [Loop -> Conn \cup {NoConn}]
    BY DEF Init, LoopPc
  <2>3. running \in BOOLEAN /\ crashed \in BOOLEAN
    BY DEF Init
  <2>4. /\ conns \subseteq Conn /\ open \subseteq Conn /\ connPc \in [Conn -> ConnPc]
        /\ item \in [Conn -> SUBSET Item] /\ writes \in 0..MaxWrites
    BY DEF Init, ConnPc
  <2>5. /\ mu \in {Free, "application", "update", "remove", "report"}
        /\ scanPc \in {"next", "rptEna", "trgOps", "report", "id", "clear", "disable"}
        /\ todo \subseteq Rcb /\ at \subseteq Rcb
    BY DEF Init
  <2>6. /\ rptEna \in [Rcb -> BOOLEAN] /\ gi \in [Rcb -> BOOLEAN]
        /\ trgOps \in [Rcb -> BOOLEAN] /\ subscriber \in [Rcb -> Conn \cup {NoConn}]
    BY DEF Init
  <2>7. /\ value \in 0..MaxUpdates /\ updPc \in [Updater -> UpdPc]
        /\ updValue \in [Updater -> 0..MaxUpdates]
    BY DEF Init, UpdPc
  <2> QED
    BY <2>1, <2>2, <2>3, <2>4, <2>5, <2>6, <2>7 DEF TypeOK
<1>2. ConnInv /\ ConnLimit
  <2>1. IsFiniteSet({}) /\ Cardinality({}) = 0
    BY FS_EmptySet
  <2> QED
    BY <2>1 DEF Init, ConnInv, ConnLimit, Served
<1>3. LoopInv
  BY DEF Init, LoopInv, Holds
<1>4. MutexInv
  BY DEF Init, MutexInv, RemoveMutex, UpdateMutex, ReportMutex
<1>5. SubscriberInv /\ SubscriberAlive
  BY DEF Init, SubscriberInv, SubscriberAlive
<1>6. TrigInv /\ ReportFresh
  BY DEF Init, TrigInv, ReportFresh
<1>7. NumberInv /\ Consecutive
  BY DEF Init, NumberInv, Consecutive, LastNumber
<1>8. ItemInv /\ GIReset
  BY DEF Init, ItemInv, GIReset
<1> QED
  BY <1>1, <1>2, <1>3, <1>4, <1>5, <1>6, <1>7, <1>8 DEF ServerInv

\* Every step keeps every part of ServerInv.
LEMMA NextServerInv ==
  ASSUME ServerInv, [Next]_vars
  PROVE  ServerInv'
<1> USE DEF ServerInv
<1>1. TypeOK' /\ LoopInv'
  BY TypeOKStep, LoopInvStep
<1>2. ConnInv' /\ ConnLimit'
  BY ConnInvStep, ConnLimitStep
<1>3. MutexInv'
  BY RemoveMutexStep, UpdateMutexStep, ReportMutexStep DEF MutexInv
<1>4. SubscriberInv'
  BY SubscriberInvStep
<1>5. SubscriberAlive'
  BY <1>1, <1>2, <1>4, SubscriberAliveFollows, PTL
<1>6. TrigInv' /\ ReportFresh'
  BY TrigInvStep, ReportFreshStep
<1>7. NumberInv' /\ Consecutive'
  BY NumberInvStep, ConsecutiveStep
<1>8. ItemInv' /\ GIReset'
  BY ItemInvStep, GIResetStep
<1> QED
  BY <1>1, <1>2, <1>3, <1>4, <1>5, <1>6, <1>7, <1>8

\* ServerInv holds in every state of the server.
THEOREM ServerCorrect == Spec => []ServerInv
  BY InitServerInv, NextServerInv, PTL DEF Spec

\* Every variable keeps its type.
THEOREM TypeCorrect == Spec => []TypeOK
<1>1. ServerInv => TypeOK
  BY DEF ServerInv
<1> QED
  BY <1>1, ServerCorrect, PTL

\* acceptLoop lets at most MaxConnections connections in.
THEOREM ConnLimitCorrect == Spec => []ConnLimit
<1>1. ServerInv => ConnLimit
  BY DEF ServerInv
<1> QED
  BY <1>1, ServerCorrect, PTL

\* No BRCB has a removed connection as its subscriber.
THEOREM SubscriberAliveCorrect == Spec => []SubscriberAlive
<1>1. ServerInv => SubscriberAlive
  BY DEF ServerInv
<1> QED
  BY <1>1, ServerCorrect, PTL

\* No report is older than the change it reports.
THEOREM ReportFreshCorrect == Spec => []ReportFresh
<1>1. ServerInv => ReportFresh
  BY DEF ServerInv
<1> QED
  BY <1>1, ServerCorrect, PTL

\* The reports of a BRCB are numbered consecutively.
THEOREM ConsecutiveCorrect == Spec => []Consecutive
<1>1. ServerInv => Consecutive
  BY DEF ServerInv
<1> QED
  BY <1>1, ServerCorrect, PTL

\* GI does not stay TRUE.
THEOREM GIResetCorrect == Spec => []GIReset
<1>1. ServerInv => GIReset
  BY DEF ServerInv
<1> QED
  BY <1>1, ServerCorrect, PTL

\* The reports that a step starts.
NewReportsAlive ==
  \A k \in (Len(reports) + 1)..Len(reports') : connPc[reports'[k].conn] # "gone"

\* A step starts reports only for connections that are not gone.
LEMMA NewReportsAliveStep ==
  ASSUME ServerInv, [Next]_vars
  PROVE  NewReportsAlive
<1>0. TypeOK /\ SubscriberAlive /\ Len(reports) \in Nat
  BY DEF ServerInv, TypeOK
<1>1. ASSUME Start \/ Stop \/ LockDataModel \/ UnlockDataModel
     PROVE  NewReportsAlive
  BY <1>1, <1>0 DEF NewReportsAlive, Start, Stop, LockDataModel, UnlockDataModel
<1>2. ASSUME NEW n \in Loop,
              \/ CallAccept(n)
              \/ AcceptCOTP(n)
              \/ AcceptCOTPFails(n)
              \/ AcceptFails(n)
              \/ AfterError(n)
              \/ Register(n)
     PROVE  NewReportsAlive
  BY <1>2, <1>0
  DEF NewReportsAlive, CallAccept, AcceptCOTP, AcceptCOTPFails, AcceptFails, AfterError,
      Register, LoopStep
<1>3. ASSUME NEW n \in Loop, NEW c \in Conn, AcceptTCP(n, c)
     PROVE  NewReportsAlive
  BY <1>3, <1>0 DEF NewReportsAlive, AcceptTCP, LoopStep
<1>4. ASSUME NEW c \in Conn,
              \/ Handshake(c)
              \/ Request(c)
              \/ Respond(c)
              \/ WriteData(c)
              \/ Hangup(c)
     PROVE  NewReportsAlive
  BY <1>4, <1>0
  DEF NewReportsAlive, Handshake, Request, Respond, WriteData, Hangup, ConnStep
<1>5. ASSUME NEW c \in Conn, NEW i \in Item,
              \/ WriteItem(c, i)
              \/ setFieldValue(c, i)
              \/ TestRptEna(c, i)
              \/ Bind(c, i)
              \/ ResetGI(c, i)
     PROVE  NewReportsAlive
  BY <1>5, <1>0
  DEF NewReportsAlive, WriteItem, setFieldValue, TestRptEna, Bind, ResetGI, ConnStep
<1>6. ASSUME NEW c \in Conn, NEW i \in Item, TriggerGI(c, i)
     PROVE  NewReportsAlive
  <2>1. CASE UNCHANGED reports
    BY <1>0, <2>1 DEF NewReportsAlive
  <2>2. ASSUME NEW p \in Report, Started(p), p.conn = c
        PROVE  NewReportsAlive
    BY <1>6, <1>0, <2>2 DEF NewReportsAlive, Started, TriggerGI, ConnStep
  <2> QED
    BY <1>6, <1>0, <2>1, <2>2, TriggerGIReports
<1>7. ASSUME NEW c \in Conn, StartRemove(c) \/ EndRemove(c)
     PROVE  NewReportsAlive
  BY <1>7, <1>0
  DEF NewReportsAlive, StartRemove, EndRemove, StartScan, ConnStep, EndScan
<1>8. ASSUME NEW c \in Conn, NEW r \in Rcb, RemoveVisit(c, r)
     PROVE  NewReportsAlive
  BY <1>8, <1>0 DEF NewReportsAlive, RemoveVisit, Visit, ScanStep
<1>9. ASSUME NEW u \in Updater, SetValue(u) \/ StartUpdate(u) \/ EndUpdate(u)
     PROVE  NewReportsAlive
  BY <1>9, <1>0
  DEF NewReportsAlive, SetValue, StartUpdate, EndUpdate, UpdStep, StartScan, EndScan
<1>10. ASSUME NEW u \in Updater, NEW r \in Rcb, UpdateVisit(u, r)
     PROVE  NewReportsAlive
  BY <1>10, <1>0 DEF NewReportsAlive, UpdateVisit, Visit, ScanStep
<1>11. ASSUME NEW u \in Updater, NEW r \in Rcb, StartReport(u, r)
     PROVE  NewReportsAlive
  <2>1. CASE UNCHANGED reports
    BY <1>0, <2>1 DEF NewReportsAlive
  <2>2. ASSUME NEW p \in Report, Started(p), subscriber[r] # NoConn,
               p.conn = subscriber[r]
        PROVE  NewReportsAlive
    BY <1>0, <2>2 DEF NewReportsAlive, Started, SubscriberAlive
  <2> QED
    BY <1>11, <1>0, <2>1, <2>2, StartReportReports
<1>12. ASSUME NEW k \in 1..Len(reports), LockReport(k)
     PROVE  NewReportsAlive
  <2>1. PICK q \in Report : Replaced(k, q)
    BY <1>12, <1>0, LockReportReports
  <2> QED
    BY <1>0, <2>1 DEF NewReportsAlive, Replaced
<1>13. ASSUME NEW k \in 1..Len(reports), NumberReport(k)
     PROVE  NewReportsAlive
  <2>1. PICK q \in Report : Replaced(k, q)
    BY <1>13, <1>0, NumberReportReports
  <2> QED
    BY <1>0, <2>1 DEF NewReportsAlive, Replaced
<1>14. ASSUME NEW k \in 1..Len(reports), SendReport(k)
     PROVE  NewReportsAlive
  <2>1. PICK q \in Report : Replaced(k, q)
    BY <1>14, <1>0, SendReportReports
  <2> QED
    BY <1>0, <2>1 DEF NewReportsAlive, Replaced
<1>15. CASE UNCHANGED vars
  BY <1>15, <1>0 DEF NewReportsAlive, vars
<1> QED
  BY <1>1, <1>2, <1>3, <1>4, <1>5, <1>6, <1>7, <1>8, <1>9, <1>10, <1>11, <1>12, <1>13,
     <1>14, <1>15
  DEF Next, Application, AcceptLoop, Handler, WriteVariable, removeConn,
      UpdateAttributeValue, sendReport, TypeOK,
      ServerInv

\* No report is started for a connection that removeConn has finished with.
THEOREM NoReportAfterDisconnectCorrect == Spec => NoReportAfterDisconnect
<1>1. ASSUME ServerInv, [Next]_vars
      PROVE  [NewReportsAlive]_vars
  BY <1>1, NewReportsAliveStep
<1> QED
  BY <1>1, ServerCorrect, PTL DEF Spec, NoReportAfterDisconnect, NewReportsAlive
=============================================================================
