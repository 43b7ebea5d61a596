----------------------------- MODULE IedServer -----------------------------
(***************************************************************************)
(* The IED server (pkg/iec61850/server/server.go): its life cycle, the     *)
(* connections it serves and the reporting of its buffered report control  *)
(* blocks (BRCBs).                                                         *)
(*                                                                         *)
(* The goroutines are the application (Start, Stop, LockDataModel, and     *)
(* UpdateAttributeValue from several goroutines), one acceptLoop per       *)
(* Start, one handler per connection and one sendReport per report.  The   *)
(* mutex mu protects the set of connections.  writeVariable changes a BRCB *)
(* without mu, so its accesses to the BRCB, and those of the three         *)
(* sections under mu that look at BRCBs (UpdateAttributeValue, removeConn, *)
(* sendReport), are steps of their own; every other section is one step.   *)
(***************************************************************************)
EXTENDS Integers, Sequences, FiniteSets

CONSTANTS
  Conn,            \* TCP connections that clients may open, each once
  Rcb,             \* names of the buffered RCBs
  Monitor,         \* the RCBs whose data set holds the updated attribute
  Field,           \* BRCB fields that clients write
  Updater,         \* application goroutines in UpdateAttributeValue
  MaxConnections,  \* Config.MaxConnections
  SqNumModulus,    \* SqNum counts modulo this (2^16 in the code)
  MaxStarts,       \* bound: calls of Start
  MaxUpdates,      \* bound: new values of the attribute
  MaxWrites,       \* bound: BRCB fields written
  NoConn           \* the nil subscriber

ASSUME ServerAssumption ==
  /\ NoConn \notin Conn
  /\ Monitor \subseteq Rcb
  /\ Field \subseteq {"RptEna", "GI", "TrgOps", "SqNum"}
  /\ MaxConnections \in Nat
  /\ SqNumModulus \in Nat \ {0}
  /\ MaxStarts \in Nat /\ MaxUpdates \in Nat /\ MaxWrites \in Nat

VARIABLES
  running,     \* s.running
  starts,      \* calls of Start; the listener of call n is open while it runs
  loopPc,      \* loopPc[n]: where the acceptLoop of Start n is
  loopOn,      \* loopOn[n]: the listener its Accept was called on
  loopConn,    \* loopConn[n]: the connection it holds
  conns,       \* s.conns
  connPc,      \* connPc[c]: where the handler of c is
  open,        \* connections whose socket the server has open
  item,        \* item[c]: the variable the handler of c is writing
  writes,      \* the number of BRCB fields written so far
  mu,          \* who holds s.mu
  scanPc,      \* the loop over the BRCBs of the holder of mu: where it is,
  todo,        \*   the BRCBs it has still to visit,
  at,          \*   and the one it is visiting
  rptEna, subscriber, trgOps, gi, sqNum,  \* the fields of each BRCB
  value,       \* the attribute's value: the number of the latest one
  updPc,       \* updPc[u]: where UpdateAttributeValue is
  updValue,    \* updValue[u]: the value it stores
  reports,     \* the sendReport goroutines in the order they were started
  numbers,     \* history: numbers[r], the sequence numbers given out
  crashed      \* a goroutine has panicked

lifeVars == <<running, starts>>
loopVars == <<loopPc, loopOn, loopConn>>
connVars == <<conns, connPc, open, item, writes>>
scanVars == <<scanPc, todo, at>>
brcbVars == <<rptEna, subscriber, trgOps, gi, sqNum>>
updVars == <<value, updPc, updValue>>
repVars == <<reports, numbers>>
vars == <<running, starts, loopPc, loopOn, loopConn, conns, connPc, open, item, writes,
          mu, scanPc, todo, at, rptEna, subscriber, trgOps, gi, sqNum,
          value, updPc, updValue, reports, numbers, crashed>>

Loop == 1..MaxStarts
Free == "free"

\* One variable of a Write request: a field of a BRCB and the value for it.
\* 1 stands for TRUE, and for a TrgOps with the DataChanged bit.
Item == [rcb : Rcb, field : Field \ {"SqNum"}, val : {0, 1}]
        \cup [rcb : Rcb, field : Field \cap {"SqNum"}, val : 0..(SqNumModulus - 1)]

\* A report goroutine.  trig is auxiliary: the value that caused the report.
Report == [conn : Conn, rcb : Rcb, trig : Nat, val : Nat, num : 0..(SqNumModulus - 1),
           st : {"started", "locked", "numbered", "sent", "dropped"}]

newReport(c, r, v) ==
  [conn |-> c, rcb |-> r, trig |-> v, val |-> 0, num |-> 0, st |-> "started"]

\* NewIedServer and newBRCBState: reporting disabled, nothing numbered.  The
\* trigger options come from the model of the IED.
Init ==
  /\ running = FALSE /\ starts = 0
  /\ loopPc = [n \in Loop |-> "none"]
  /\ loopOn = [n \in Loop |-> 0]
  /\ loopConn = [n \in Loop |-> NoConn]
  /\ conns = {} /\ open = {}
  /\ connPc = [c \in Conn |-> "new"]
  /\ item = [c \in Conn |-> {}]
  /\ writes = 0
  /\ mu = Free /\ scanPc = "next" /\ todo = {} /\ at = {}
  /\ rptEna = [r \in Rcb |-> FALSE]
  /\ subscriber = [r \in Rcb |-> NoConn]
  /\ trgOps \in [Rcb -> BOOLEAN]
  /\ gi = [r \in Rcb |-> FALSE]
  /\ sqNum = [r \in Rcb |-> 0]
  /\ value = 0
  /\ updPc = [u \in Updater |-> "idle"]
  /\ updValue = [u \in Updater |-> 0]
  /\ reports = << >>
  /\ numbers = [r \in Rcb |-> << >>]
  /\ crashed = FALSE

-----------------------------------------------------------------------------
(* The application. *)

\* Start: refused while running; otherwise a listener and an accept loop.
Start ==
  /\ mu = Free /\ ~running /\ starts < MaxStarts
  /\ running' = TRUE
  /\ starts' = starts + 1
  /\ loopPc' = [loopPc EXCEPT ![starts + 1] = "top"]
  /\ UNCHANGED <<loopOn, loopConn, connVars, mu, scanVars, brcbVars, updVars, repVars,
                 crashed>>

\* Stop closes the listener and the sockets of the connections in s.conns.
Stop ==
  /\ mu = Free /\ running
  /\ running' = FALSE
  /\ open' = open \ conns
  /\ UNCHANGED <<starts, loopVars, conns, connPc, item, writes, mu, scanVars, brcbVars,
                 updVars, repVars, crashed>>

\* LockDataModel and UnlockDataModel hand mu to the application.
LockDataModel ==
  /\ mu = Free
  /\ mu' = "application"
  /\ UNCHANGED <<lifeVars, loopVars, connVars, scanVars, brcbVars, updVars, repVars,
                 crashed>>

UnlockDataModel ==
  /\ mu = "application"
  /\ mu' = Free
  /\ UNCHANGED <<lifeVars, loopVars, connVars, scanVars, brcbVars, updVars, repVars,
                 crashed>>

-----------------------------------------------------------------------------
(* acceptLoop. *)

\* Listener n accepts connections from Start n until the Stop after it.
Listening(n) == running /\ n = starts

LoopStep(n, from, to) ==
  /\ loopPc[n] = from
  /\ loopPc' = [loopPc EXCEPT ![n] = to]

\* s.listener.Accept is called, on the listener s.listener holds now.
CallAccept(n) ==
  /\ LoopStep(n, "top", "accept")
  /\ loopOn' = [loopOn EXCEPT ![n] = starts]
  /\ UNCHANGED <<lifeVars, loopConn, connVars, mu, scanVars, brcbVars, updVars, repVars,
                 crashed>>

\* A client connects; Accept goes on to the COTP handshake with it.
AcceptTCP(n, c) ==
  /\ Listening(loopOn[n])
  /\ connPc[c] = "new"
  /\ LoopStep(n, "accept", "cotp")
  /\ loopConn' = [loopConn EXCEPT ![n] = c]
  /\ connPc' = [connPc EXCEPT ![c] = "accepting"]
  /\ open' = open \cup {c}
  /\ UNCHANGED <<lifeVars, loopOn, conns, item, writes, mu, scanVars, brcbVars, updVars,
                 repVars, crashed>>

\* The handshake is done and Accept returns the connection.
AcceptCOTP(n) ==
  /\ LoopStep(n, "cotp", "got")
  /\ UNCHANGED <<lifeVars, loopOn, loopConn, connVars, mu, scanVars, brcbVars, updVars,
                 repVars, crashed>>

\* The handshake fails: the socket is closed and Accept returns an error.
AcceptCOTPFails(n) ==
  /\ LoopStep(n, "cotp", "failed")
  /\ loopConn' = [loopConn EXCEPT ![n] = NoConn]
  /\ connPc' = [connPc EXCEPT ![loopConn[n]] = "gone"]
  /\ open' = open \ {loopConn[n]}
  /\ UNCHANGED <<lifeVars, loopOn, conns, item, writes, mu, scanVars, brcbVars, updVars,
                 repVars, crashed>>

\* The listener is closed and Accept returns an error.
AcceptFails(n) ==
  /\ ~Listening(loopOn[n])
  /\ LoopStep(n, "accept", "failed")
  /\ UNCHANGED <<lifeVars, loopOn, loopConn, connVars, mu, scanVars, brcbVars, updVars,
                 repVars, crashed>>

\* Mutant of AfterError: the loop never ends.
AfterErrorForever(n) ==
  /\ mu = Free
  /\ LoopStep(n, "failed", "top")
  /\ UNCHANGED <<lifeVars, loopOn, loopConn, connVars, mu, scanVars, brcbVars, updVars,
                 repVars, crashed>>

\* After an error the loop ends only if the server is not running.
AfterError(n) ==
  /\ mu = Free
  /\ LoopStep(n, "failed", IF running THEN "top" ELSE "exited")
  /\ UNCHANGED <<lifeVars, loopOn, loopConn, connVars, mu, scanVars, brcbVars, updVars,
                 repVars, crashed>>

\* Mutant of TooMany: off by one.
TooManyOffByOne == Cardinality(conns) > MaxConnections

TooMany == Cardinality(conns) >= MaxConnections

\* The connection is served, or refused because there are too many.
Register(n) ==
  LET c == loopConn[n]
  IN  /\ mu = Free
      /\ LoopStep(n, "got", "top")
      /\ loopConn' = [loopConn EXCEPT ![n] = NoConn]
      /\ \/ /\ ~TooMany
            /\ conns' = conns \cup {c}
            /\ connPc' = [connPc EXCEPT ![c] = "handshake"]
            /\ UNCHANGED open
         \/ /\ TooMany
            /\ connPc' = [connPc EXCEPT ![c] = "refused"]
            /\ open' = open \ {c}
            /\ UNCHANGED conns
      /\ UNCHANGED <<lifeVars, loopOn, item, writes, mu, scanVars, brcbVars, updVars,
                     repVars, crashed>>

-----------------------------------------------------------------------------
(* handle: the goroutine of one connection. *)

ConnStep(c, from, to) ==
  /\ connPc[c] = from
  /\ connPc' = [connPc EXCEPT ![c] = to]

\* The session, presentation, ACSE and MMS handshake succeeds.
Handshake(c) ==
  /\ c \in open
  /\ ConnStep(c, "handshake", "serve")
  /\ UNCHANGED <<lifeVars, loopVars, conns, open, item, writes, mu, scanVars, brcbVars,
                 updVars, repVars, crashed>>

\* Receive returns a request.  A TSDU that does not unwrap is skipped.
Request(c) ==
  /\ c \in open
  /\ ConnStep(c, "serve", "items")
  /\ UNCHANGED <<lifeVars, loopVars, conns, open, item, writes, mu, scanVars, brcbVars,
                 updVars, repVars, crashed>>

\* handleWrite takes the next variable of a Write request, a BRCB field, and
\* writeVariable looks the BRCB up under mu.
WriteItem(c, i) ==
  /\ mu = Free
  /\ writes < MaxWrites
  /\ ConnStep(c, "items", "set")
  /\ item' = [item EXCEPT ![c] = {i}]
  /\ writes' = writes + 1
  /\ UNCHANGED <<lifeVars, loopVars, conns, open, mu, scanVars, brcbVars, updVars,
                 repVars, crashed>>

\* The variable is the attribute: writeVariable stores the value and starts
\* no report.  A write that finds nothing or is denied changes nothing.
WriteData(c) ==
  /\ connPc[c] = "items"
  /\ value < MaxUpdates
  /\ value' = value + 1
  /\ UNCHANGED <<lifeVars, loopVars, connVars, mu, scanVars, brcbVars, updPc, updValue,
                 repVars, crashed>>

\* The response is sent.  Requests of other services only come here.
Respond(c) ==
  /\ c \in open
  /\ ConnStep(c, "items", "serve")
  /\ UNCHANGED <<lifeVars, loopVars, conns, open, item, writes, mu, scanVars, brcbVars,
                 updVars, repVars, crashed>>

\* Mutant of Hangup: removeConn is not deferred.
HangupNoRemove(c) ==
  /\ connPc[c] \in {"handshake", "serve", "items"}
  /\ connPc' = [connPc EXCEPT ![c] = "gone"]
  /\ open' = open \ {c}
  /\ UNCHANGED <<lifeVars, loopVars, conns, item, writes, mu, scanVars, brcbVars, updVars,
                 repVars, crashed>>

\* Receive or Send fails, the handshake is refused, or the request is a
\* Conclude or not understood: handle returns and closes the socket.
Hangup(c) ==
  /\ connPc[c] \in {"handshake", "serve", "items"}
  /\ connPc' = [connPc EXCEPT ![c] = "closing"]
  /\ open' = open \ {c}
  /\ UNCHANGED <<lifeVars, loopVars, conns, item, writes, mu, scanVars, brcbVars,
                 updVars, repVars, crashed>>

-----------------------------------------------------------------------------
(* writeVariable for a BRCB field: no step holds mu. *)

\* setFieldValue.  RptEna and GI have more to do.
setFieldValue(c, i) ==
  /\ i \in item[c]
  /\ ConnStep(c, "set", IF i.field = "RptEna" \/ (i.field = "GI" /\ i.val = 1)
                        THEN "test" ELSE "items")
  /\ rptEna' = [rptEna EXCEPT ![i.rcb] = IF i.field = "RptEna" THEN i.val = 1 ELSE @]
  /\ gi' = [gi EXCEPT ![i.rcb] = IF i.field = "GI" THEN i.val = 1 ELSE @]
  /\ trgOps' = [trgOps EXCEPT ![i.rcb] = IF i.field = "TrgOps" THEN i.val = 1 ELSE @]
  /\ sqNum' = [sqNum EXCEPT ![i.rcb] = IF i.field = "SqNum" THEN i.val ELSE @]
  /\ UNCHANGED <<lifeVars, loopVars, conns, open, item, writes, mu, scanVars,
                 subscriber, updVars, repVars, crashed>>

\* After RptEna was set: isRptEnaTrue is evaluated ...
TestRptEna(c, i) ==
  /\ i \in item[c] /\ i.field = "RptEna"
  /\ ConnStep(c, "test", IF rptEna[i.rcb] THEN "bind" ELSE "unbind")
  /\ UNCHANGED <<lifeVars, loopVars, conns, open, item, writes, mu, scanVars, brcbVars,
                 updVars, repVars, crashed>>

\* ... and the connection becomes the subscriber, or nobody does.
Bind(c, i) ==
  /\ i \in item[c] /\ i.field = "RptEna"
  /\ connPc[c] \in {"bind", "unbind"}
  /\ connPc' = [connPc EXCEPT ![c] = "items"]
  /\ subscriber' = [subscriber EXCEPT ![i.rcb] = IF connPc[c] = "bind" THEN c ELSE NoConn]
  /\ UNCHANGED <<lifeVars, loopVars, conns, open, item, writes, mu, scanVars, rptEna,
                 trgOps, gi, sqNum, updVars, repVars, crashed>>

\* After GI was set: a report is started if reporting is enabled ...
TriggerGI(c, i) ==
  /\ i \in item[c] /\ i.field = "GI"
  /\ ConnStep(c, "test", "reset")
  /\ \/ rptEna[i.rcb] /\ reports' = Append(reports, newReport(c, i.rcb, value))
     \/ ~rptEna[i.rcb] /\ UNCHANGED reports
  /\ UNCHANGED <<lifeVars, loopVars, conns, open, item, writes, mu, scanVars, brcbVars,
                 updVars, numbers, crashed>>

\* Mutant of ResetGI: GI is left alone.
ResetGIMissing(c, i) ==
  /\ i \in item[c] /\ i.field = "GI"
  /\ ConnStep(c, "reset", "items")
  /\ UNCHANGED <<lifeVars, loopVars, conns, open, item, writes, mu, scanVars, brcbVars,
                 updVars, repVars, crashed>>

\* ... and GI is reset.
ResetGI(c, i) ==
  /\ i \in item[c] /\ i.field = "GI"
  /\ ConnStep(c, "reset", "items")
  /\ gi' = [gi EXCEPT ![i.rcb] = FALSE]
  /\ UNCHANGED <<lifeVars, loopVars, conns, open, item, writes, mu, scanVars, rptEna,
                 subscriber, trgOps, sqNum, updVars, repVars, crashed>>

-----------------------------------------------------------------------------
(***************************************************************************)
(* The loops over brcbValues, under mu.  Go visits the entries of a map in *)
(* any order.                                                              *)
(***************************************************************************)

StartScan ==
  /\ mu = Free
  /\ scanPc' = "next" /\ todo' = Rcb /\ at' = {}

\* The next BRCB is visited if it has a subscriber.
Visit(r, to) ==
  /\ scanPc = "next" /\ r \in todo
  /\ todo' = todo \ {r}
  /\ \/ subscriber[r] # NoConn /\ scanPc' = to /\ at' = {r}
     \/ subscriber[r] = NoConn /\ UNCHANGED <<scanPc, at>>

\* The visit of r goes on, or ends.
ScanStep(r, from, to) ==
  /\ scanPc = from /\ r \in at
  /\ scanPc' = to
  /\ UNCHANGED <<todo, at>>

\* Mutants of EndScan: the loop stops early; mu is not released.
EndScanEarly ==
  /\ scanPc = "next"
  /\ mu' = Free
  /\ UNCHANGED scanVars

EndScanLocked ==
  /\ scanPc = "next" /\ todo = {}
  /\ UNCHANGED <<mu, scanVars>>

EndScan ==
  /\ scanPc = "next" /\ todo = {}
  /\ mu' = Free
  /\ UNCHANGED scanVars

-----------------------------------------------------------------------------
(* removeConn. *)

\* The connection leaves s.conns ...
StartRemove(c) ==
  /\ StartScan
  /\ mu' = "remove"
  /\ ConnStep(c, "closing", "removing")
  /\ conns' = conns \ {c}
  /\ UNCHANGED <<lifeVars, loopVars, open, item, writes, brcbVars, updVars, repVars,
                 crashed>>

\* ... and each BRCB whose subscriber it is is freed.  The subscriber is read a
\* second time for its id, a nil pointer if it has gone in between.
RemoveVisit(c, r) ==
  /\ connPc[c] = "removing"
  /\ \/ /\ Visit(r, "id")
        /\ UNCHANGED <<subscriber, rptEna, crashed>>
     \/ /\ ScanStep(r, "id", IF subscriber[r] = c THEN "clear" ELSE "next")
        /\ crashed' = (subscriber[r] = NoConn)
        /\ UNCHANGED <<subscriber, rptEna>>
     \/ /\ ScanStep(r, "clear", "disable")
        /\ subscriber' = [subscriber EXCEPT ![r] = NoConn]
        /\ UNCHANGED <<rptEna, crashed>>
     \/ /\ ScanStep(r, "disable", "next")
        /\ rptEna' = [rptEna EXCEPT ![r] = FALSE]
        /\ UNCHANGED <<subscriber, crashed>>
  /\ UNCHANGED <<lifeVars, loopVars, connVars, mu, trgOps, gi, sqNum, updVars, repVars>>

EndRemove(c) ==
  /\ EndScan
  /\ ConnStep(c, "removing", "gone")
  /\ UNCHANGED <<lifeVars, loopVars, conns, open, item, writes, brcbVars, updVars,
                 repVars, crashed>>

-----------------------------------------------------------------------------
(* UpdateAttributeValue. *)

UpdStep(u, from, to) ==
  /\ updPc[u] = from
  /\ updPc' = [updPc EXCEPT ![u] = to]

\* Mutant of SetValue: the value is not stored.
SetValueMissing(u) ==
  /\ value < MaxUpdates
  /\ UpdStep(u, "idle", "lock")
  /\ updValue' = [updValue EXCEPT ![u] = value + 1]
  /\ UNCHANGED <<lifeVars, loopVars, connVars, mu, scanVars, brcbVars, value, repVars,
                 crashed>>

\* The attribute gets its value before mu is taken.
SetValue(u) ==
  /\ value < MaxUpdates
  /\ UpdStep(u, "idle", "lock")
  /\ value' = value + 1
  /\ updValue' = [updValue EXCEPT ![u] = value + 1]
  /\ UNCHANGED <<lifeVars, loopVars, connVars, mu, scanVars, brcbVars, repVars,
                 crashed>>

StartUpdate(u) ==
  /\ StartScan
  /\ mu' = "update"
  /\ UpdStep(u, "lock", "scan")
  /\ UNCHANGED <<lifeVars, loopVars, connVars, brcbVars, value, updValue, repVars,
                 crashed>>

\* The conditions on BRCB r, read one after the other: it has a subscriber, it
\* is enabled, it reports data changes, its data set holds the attribute.
UpdateVisit(u, r) ==
  /\ updPc[u] = "scan"
  /\ \/ Visit(r, "rptEna")
     \/ ScanStep(r, "rptEna", IF rptEna[r] THEN "trgOps" ELSE "next")
     \/ ScanStep(r, "trgOps", IF trgOps[r] /\ r \in Monitor THEN "report" ELSE "next")
  /\ UNCHANGED <<lifeVars, loopVars, connVars, mu, brcbVars, updVars, repVars, crashed>>

\* The subscriber is read again and a report to it is started.  With no
\* subscriber the report goroutine panics on a nil pointer.
StartReport(u, r) ==
  /\ updPc[u] = "scan"
  /\ ScanStep(r, "report", "next")
  /\ \/ /\ subscriber[r] = NoConn
        /\ crashed' = TRUE
        /\ UNCHANGED reports
     \/ /\ subscriber[r] # NoConn
        /\ reports' = Append(reports, newReport(subscriber[r], r, updValue[u]))
        /\ UNCHANGED crashed
  /\ UNCHANGED <<lifeVars, loopVars, connVars, mu, brcbVars, updVars, numbers>>

EndUpdate(u) ==
  /\ EndScan
  /\ UpdStep(u, "scan", "idle")
  /\ UNCHANGED <<lifeVars, loopVars, connVars, brcbVars, value, updValue, repVars,
                 crashed>>

-----------------------------------------------------------------------------
(* sendReport. *)

\* Under mu: a report to a connection that has left is dropped; otherwise the
\* values are copied and SqNum is read.  num holds the number read.
LockReport(k) ==
  LET p == reports[k]
  IN  /\ p.st = "started"
      /\ mu = Free
      /\ \/ /\ p.conn \in conns
            /\ mu' = "report"
            /\ reports' = [reports EXCEPT ![k] =
                             [p EXCEPT !.st = "locked", !.val = value, !.num = sqNum[p.rcb]]]
         \/ /\ p.conn \notin conns
            /\ reports' = [reports EXCEPT ![k] = [p EXCEPT !.st = "dropped"]]
            /\ UNCHANGED mu
      /\ UNCHANGED <<lifeVars, loopVars, connVars, scanVars, brcbVars, updVars, numbers,
                     crashed>>

\* Mutant of nextSqNum: no wrap-around.
nextSqNumUnbounded(n) == n + 1

\* nextSqNum: the number after a given one.
nextSqNum(n) == (n + 1) % SqNumModulus

\* Mutant of NumberReport: the number is not stored.
NumberReportStale(k) ==
  LET p == reports[k]
      next == nextSqNum(p.num)
  IN  /\ p.st = "locked"
      /\ mu' = Free
      /\ reports' = [reports EXCEPT ![k] = [p EXCEPT !.st = "numbered", !.num = next]]
      /\ numbers' = [numbers EXCEPT ![p.rcb] = Append(@, next)]
      /\ UNCHANGED <<lifeVars, loopVars, connVars, scanVars, brcbVars, updVars, crashed>>

\* The successor is stored and taken for the report; mu is released.
NumberReport(k) ==
  LET p == reports[k]
      next == nextSqNum(p.num)
  IN  /\ p.st = "locked"
      /\ mu' = Free
      /\ sqNum' = [sqNum EXCEPT ![p.rcb] = next]
      /\ reports' = [reports EXCEPT ![k] = [p EXCEPT !.st = "numbered", !.num = next]]
      /\ numbers' = [numbers EXCEPT ![p.rcb] = Append(@, next)]
      /\ UNCHANGED <<lifeVars, loopVars, connVars, scanVars, rptEna, subscriber, trgOps,
                     gi, updVars, crashed>>

\* The report is sent, without mu; the socket may be gone by then.
SendReport(k) ==
  LET p == reports[k]
  IN  /\ p.st = "numbered"
      /\ \E st \in {"sent", "dropped"} :
           /\ st = "sent" => p.conn \in open
           /\ reports' = [reports EXCEPT ![k] = [p EXCEPT !.st = st]]
      /\ UNCHANGED <<lifeVars, loopVars, connVars, mu, scanVars, brcbVars, updVars,
                     numbers, crashed>>

-----------------------------------------------------------------------------
Application == Start \/ Stop \/ LockDataModel \/ UnlockDataModel

AcceptLoop(n) ==
  \/ CallAccept(n) \/ AcceptCOTP(n) \/ AcceptCOTPFails(n)
  \/ AcceptFails(n) \/ AfterError(n) \/ Register(n)
  \/ \E c \in Conn : AcceptTCP(n, c)

WriteVariable(c) ==
  \E i \in item[c] :
    setFieldValue(c, i) \/ TestRptEna(c, i) \/ Bind(c, i) \/ TriggerGI(c, i) \/ ResetGI(c, i)

removeConn(c) ==
  \/ StartRemove(c) \/ EndRemove(c)
  \/ \E r \in Rcb : RemoveVisit(c, r)

Handler(c) ==
  \/ Handshake(c) \/ Request(c) \/ Respond(c) \/ WriteData(c) \/ Hangup(c)
  \/ \E i \in Item : WriteItem(c, i)
  \/ WriteVariable(c)
  \/ removeConn(c)

UpdateAttributeValue(u) ==
  \/ SetValue(u) \/ StartUpdate(u) \/ EndUpdate(u)
  \/ \E r \in Rcb : UpdateVisit(u, r) \/ StartReport(u, r)

sendReport(k) == LockReport(k) \/ NumberReport(k) \/ SendReport(k)

Next ==
  /\ ~crashed
  /\ \/ Application
     \/ \E n \in Loop : AcceptLoop(n)
     \/ \E c \in Conn : Handler(c)
     \/ \E u \in Updater : UpdateAttributeValue(u)
     \/ \E k \in 1..Len(reports) : sendReport(k)

(***************************************************************************)
(* A goroutine that can go on does, and one that waits for mu gets it if   *)
(* mu is released again and again (sync.Mutex hands itself over to a       *)
(* starving waiter).  Accept on a closed listener, and Receive and Send on *)
(* a closed socket, fail.  The application unlocks what it locked.         *)
(* Clients, and otherwise the application, need not do anything; nor is a  *)
(* COTP handshake or a Send fair, for they wait for the peer.              *)
(***************************************************************************)
Steps == ~crashed
MaxReports == MaxWrites + MaxUpdates * Cardinality(Rcb)

Fairness ==
  /\ WF_vars(Steps /\ UnlockDataModel)
  /\ \A n \in Loop :
       /\ WF_vars(Steps /\ (CallAccept(n) \/ AcceptFails(n)))
       /\ SF_vars(Steps /\ (AfterError(n) \/ Register(n)))
  /\ \A c \in Conn :
       /\ WF_vars(Steps /\ WriteVariable(c))
       /\ WF_vars(Steps /\ c \notin open /\ Hangup(c))
       /\ SF_vars(Steps /\ StartRemove(c))
       /\ WF_vars(Steps /\ (EndRemove(c) \/ \E r \in Rcb : RemoveVisit(c, r)))
  /\ \A u \in Updater :
       /\ SF_vars(Steps /\ StartUpdate(u))
       /\ WF_vars(Steps /\ (EndUpdate(u)
                    \/ \E r \in Rcb : UpdateVisit(u, r) \/ StartReport(u, r)))
  /\ \A k \in 1..MaxReports :
       /\ SF_vars(Steps /\ k <= Len(reports) /\ LockReport(k))
       /\ WF_vars(Steps /\ k <= Len(reports) /\ NumberReport(k))

Spec == Init /\ [][Next]_vars /\ Fairness

-----------------------------------------------------------------------------
(* Properties. *)

\* Where an accept loop, a handler and an updater can be.
LoopPc == {"none", "top", "accept", "cotp", "got", "failed", "exited"}
ConnPc == {"new", "accepting", "refused", "handshake", "serve", "items", "set", "test",
           "bind", "unbind", "reset", "closing", "removing", "gone"}
UpdPc == {"idle", "lock", "scan"}

\* Every variable of the server keeps its type.
TypeOK ==
  /\ running \in BOOLEAN /\ starts \in 0..MaxStarts
  /\ loopPc \in [Loop -> LoopPc]
  /\ loopOn \in [Loop -> 0..MaxStarts]
  /\ loopConn \in [Loop -> Conn \cup {NoConn}]
  /\ conns \subseteq Conn /\ open \subseteq Conn
  /\ connPc \in [Conn -> ConnPc]
  /\ item \in [Conn -> SUBSET Item]
  /\ writes \in 0..MaxWrites
  /\ mu \in {Free, "application", "update", "remove", "report"}
  /\ scanPc \in {"next", "rptEna", "trgOps", "report", "id", "clear", "disable"}
  /\ todo \subseteq Rcb /\ at \subseteq Rcb
  /\ rptEna \in [Rcb -> BOOLEAN] /\ gi \in [Rcb -> BOOLEAN]
  /\ trgOps \in [Rcb -> BOOLEAN]
  /\ subscriber \in [Rcb -> Conn \cup {NoConn}]
  /\ sqNum \in [Rcb -> 0..(SqNumModulus - 1)]
  /\ value \in 0..MaxUpdates
  /\ updPc \in [Updater -> UpdPc]
  /\ updValue \in [Updater -> 0..MaxUpdates]
  /\ reports \in Seq(Report)
  /\ numbers \in [Rcb -> Seq(0..(SqNumModulus - 1))]
  /\ crashed \in BOOLEAN

\* acceptLoop never lets more than MaxConnections connections in, however many
\* accept loops Start and Stop have left behind.
ConnLimit == Cardinality(conns) <= MaxConnections

\* The comment in removeConn ("so no further reports are queued after
\* disconnect"), as a fact about BRCBs: once removeConn is through, no BRCB has
\* the connection as its subscriber, whatever other clients wrote meanwhile.
SubscriberAlive ==
  \A r \in Rcb : subscriber[r] # NoConn => connPc[subscriber[r]] # "gone"

\* The same comment, as a fact about reports: no report is started for a
\* connection that removeConn has finished with.
NoReportAfterDisconnect ==
  [][\A k \in (Len(reports) + 1)..Len(reports') :
       connPc[reports'[k].conn] # "gone"]_vars

\* sendReport copies the values after UpdateAttributeValue has stored the new
\* one: a report is never older than the change it reports.
ReportFresh ==
  \A k \in 1..Len(reports) :
    reports[k].st \in {"locked", "numbered", "sent"} => reports[k].val >= reports[k].trig

\* Unless clients write SqNum, the reports of a BRCB are numbered
\* consecutively, modulo 2^16, whichever connections and goroutines send them.
Consecutive ==
  "SqNum" \notin Field =>
    \A r \in Rcb : \A k \in 1..Len(numbers[r]) :
      numbers[r][k] = ((IF k = 1 THEN 0 ELSE numbers[r][k - 1]) + 1) % SqNumModulus

\* The comment in writeVariable ("Always reset GI to false after triggering"):
\* GI is TRUE only while a handler is writing it.
GIReset ==
  \A r \in Rcb : gi[r] =>
    \E c \in Conn : /\ connPc[c] \in {"test", "reset"}
                    /\ \E i \in item[c] : i.rcb = r /\ i.field = "GI"

\* A connection whose socket is closed, by Stop or by its handler, is removed.
Removed ==
  \A c \in Conn :
    (c \in conns /\ c \notin open) ~> (c \notin conns \/ crashed)

\* Every report started is numbered or dropped.
ReportsProceed ==
  \A k \in 1..MaxReports :
    (k <= Len(reports)) ~>
      (crashed \/ (k <= Len(reports) /\ reports[k].st \notin {"started", "locked"}))

\* After Stop, and until the next Start, the accept loops end, except one that
\* is in the COTP handshake with a client.
LoopsEnd ==
  \A n \in Loop :
    (~running /\ loopPc[n] # "cotp") ~>
      (running \/ crashed \/ loopPc[n] \in {"none", "exited"})

-----------------------------------------------------------------------------
(* What a comment of the code says and the code does not do. *)

\* UpdateAttributeValue "triggers reports on any subscribed BRCB" and removeConn
\* frees the BRCBs; neither panics.
NoPanic == ~crashed

-----------------------------------------------------------------------------
(***************************************************************************)
(* The inductive invariant behind the safety properties.                   *)
(***************************************************************************)

\* A connection is in s.conns while its handler runs, up to removeConn.
Served == {"handshake", "serve", "items", "set", "test", "bind", "unbind", "reset",
           "closing"}
ConnInv ==
  /\ IsFiniteSet(conns)
  /\ \A c \in Conn : c \in conns <=> connPc[c] \in Served

\* An accept loop owns the connection it has accepted and not yet registered.
Holds(n) == loopPc[n] \in {"cotp", "got"}
LoopInv ==
  /\ \A n \in Loop :
       Holds(n) => loopConn[n] # NoConn /\ connPc[loopConn[n]] = "accepting"
  /\ \A n, m \in Loop : Holds(n) /\ Holds(m) /\ loopConn[n] = loopConn[m] => n = m

\* At most one goroutine is in a section that mu protects: of the handlers in
\* removeConn, the updaters in UpdateAttributeValue, the reports in sendReport.
RemoveMutex ==
  \A c \in Conn : connPc[c] = "removing" =>
    mu = "remove" /\ \A d \in Conn : connPc[d] = "removing" => c = d
UpdateMutex ==
  \A u \in Updater : updPc[u] = "scan" =>
    mu = "update" /\ \A v \in Updater : updPc[v] = "scan" => u = v
ReportMutex ==
  \A k \in 1..Len(reports) : reports[k].st = "locked" =>
    mu = "report" /\ \A j \in 1..Len(reports) : reports[j].st = "locked" => k = j
MutexInv == RemoveMutex /\ UpdateMutex /\ ReportMutex

\* A subscriber is being served, or removeConn has yet to come to the BRCB.
SubscriberInv ==
  /\ \A r, q \in at : r = q
  /\ \A r \in Rcb : subscriber[r] # NoConn =>
       \/ subscriber[r] \in conns
       \/ /\ connPc[subscriber[r]] = "removing"
          /\ r \in todo \/ (r \in at /\ scanPc \in {"id", "clear"})

\* Nothing is reported before it was stored.
TrigInv ==
  /\ \A u \in Updater : updValue[u] <= value
  /\ \A k \in 1..Len(reports) : reports[k].trig <= value

\* SqNum holds the last number given out, and so does a report about to take
\* the next one.
LastNumber(r) == IF numbers[r] = << >> THEN 0 ELSE numbers[r][Len(numbers[r])]
NumberInv ==
  "SqNum" \notin Field =>
    /\ \A r \in Rcb : sqNum[r] = LastNumber(r)
    /\ \A k \in 1..Len(reports) :
         reports[k].st = "locked" => reports[k].num = sqNum[reports[k].rcb]

\* A handler writes one variable at a time.
ItemInv == \A c \in Conn : \A i, j \in item[c] : i = j

ServerInv ==
  /\ TypeOK /\ ConnInv /\ LoopInv /\ MutexInv /\ SubscriberInv
  /\ TrigInv /\ NumberInv /\ ItemInv
  /\ ConnLimit /\ SubscriberAlive /\ ReportFresh /\ Consecutive /\ GIReset
=============================================================================
