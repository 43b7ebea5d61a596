-------------------------------- MODULE Cotp --------------------------------
(***************************************************************************)
(* One COTP connection (pkg/cotp/cotp.go): the CR/CC handshake with its    *)
(* TPDU-size negotiation, and the data phase, in which Send cuts a TSDU    *)
(* into DT segments and Receive puts the segments together until EOT.      *)
(*                                                                         *)
(* Send takes no lock.  Each segment is one Write on the TCP connection,   *)
(* which the Go runtime makes atomic, but a second goroutine may write     *)
(* between two segments.  Task is the set of goroutines of one side that   *)
(* share the Conn: callers of sendAndReceive in the client; the handler    *)
(* and the sendReport goroutines of a connection in the server.            *)
(***************************************************************************)
EXTENDS Integers, Sequences

CONSTANTS
  Task,        \* goroutines that call Send on the same Conn
  SizeCode,    \* values Options.TPDUSizeCode is configured with
  Byte,        \* octets
  Payload,     \* TSDUs the users of the connection send
  MaxSends,    \* bound: Sends started per side
  MaxInFlight  \* bound: segments the TCP buffers of one direction hold

\* A TPDU holds 2^code octets, three of them the DT header.  Codes below 2
\* leave no room for data; above 15 the TPKT length overflows 16 bits.
ASSUME SizeCodeAssumption == SizeCode \subseteq 2..15
ASSUME PayloadAssumption == Payload \subseteq Seq(Byte)
ASSUME BoundAssumption == MaxSends \in Nat /\ MaxInFlight \in Nat

Side == {"client", "server"}
Peer(s) == IF s = "client" THEN "server" ELSE "client"

VARIABLES
  phase,         \* phase[s]: progress of Connect / Accept at side s
  tpduSizeCode,  \* tpduSizeCode[s]: opts.TPDUSizeCode of side s
  offer,         \* TPDU-size option of the CR or CC on its way from s; 0: none
  wire,          \* wire[s]: DT segments s has written and the peer not read
  sending,       \* sending[s]: the tasks inside the loop of Send
  rest,          \* rest[s][t]: what Send of task t has still to write
  tsdu,          \* tsdu[s]: octets from s collected by the peer's Receive
  sent,          \* history: TSDUs whose first segment s has written
  rcvd           \* history: TSDUs from s that Receive has returned

handshakeVars == <<phase, tpduSizeCode, offer>>
sendVars == <<sending, rest, sent>>
vars == <<phase, tpduSizeCode, offer, wire, sending, rest, tsdu, sent, rcvd>>

\* The number of user octets in a full TPDU.
MaxChunk(code) == 2^code - 3

(***************************************************************************)
(* A DT segment.  num and off are auxiliary: the number of the TSDU it     *)
(* belongs to and the octets of that TSDU in earlier segments.  Only the   *)
(* properties and the proof look at them, never Receive.                   *)
(***************************************************************************)
Segment == [data : Seq(Byte), eot : BOOLEAN, num : Nat, off : Nat]

\* The unsent part of a TSDU, with the same two auxiliary fields.
Remainder == [data : Seq(Byte), num : Nat, off : Nat]
Nothing == [data |-> << >>, num |-> 0, off |-> 0]

\* Mutants of buildDTSegment: EOT is always set, or never.
buildDTSegmentEot(data, eot, num, off) ==
  [data |-> data, eot |-> TRUE, num |-> num, off |-> off]

buildDTSegmentNoEot(data, eot, num, off) ==
  [data |-> data, eot |-> FALSE, num |-> num, off |-> off]

buildDTSegment(data, eot, num, off) ==
  [data |-> data, eot |-> eot, num |-> num, off |-> off]

Init ==
  /\ phase = [s \in Side |-> "idle"]
  /\ tpduSizeCode \in [Side -> SizeCode]
  /\ offer = [s \in Side |-> 0]
  /\ wire = [s \in Side |-> << >>]
  /\ sending = [s \in Side |-> {}]
  /\ rest = [s \in Side |-> [t \in Task |-> Nothing]]
  /\ tsdu = [s \in Side |-> << >>]
  /\ sent = [s \in Side |-> << >>]
  /\ rcvd = [s \in Side |-> << >>]

-----------------------------------------------------------------------------
(* The handshake. *)

\* Connect, first half: the client writes a CR that proposes its own size.
SendCR ==
  /\ phase["client"] = "idle"
  /\ phase' = [phase EXCEPT !["client"] = "connecting"]
  /\ offer' = [offer EXCEPT !["client"] = tpduSizeCode["client"]]
  /\ UNCHANGED <<tpduSizeCode, wire, sendVars, tsdu, rcvd>>

\* Mutants of parseCR: the option is ignored; the size code is shifted.
parseCRIgnored(own, proposed) == own
parseCRShifted(own, proposed) == IF proposed < own THEN proposed ELSE own + 1

\* The size the server uses after parseCR: the smaller of the two.
parseCR(own, proposed) == IF proposed < own THEN proposed ELSE own

\* Accept: the server reads the CR, negotiates, and answers with a CC that
\* carries the negotiated size.
Accept ==
  /\ phase["server"] = "idle"
  /\ offer["client"] # 0
  /\ LET size == parseCR(tpduSizeCode["server"], offer["client"])
     IN  /\ tpduSizeCode' = [tpduSizeCode EXCEPT !["server"] = size]
         /\ offer' = [client |-> 0, server |-> size]
  /\ phase' = [phase EXCEPT !["server"] = "open"]
  /\ UNCHANGED <<wire, sendVars, tsdu, rcvd>>

\* The size the client uses after parseCC: the option in the CC is not read.
parseCC(own, confirmed) == own

\* Connect, second half: the client reads the CC.
ReadCC ==
  /\ phase["client"] = "connecting"
  /\ offer["server"] # 0
  /\ tpduSizeCode' = [tpduSizeCode EXCEPT
                        !["client"] = parseCC(@, offer["server"])]
  /\ offer' = [offer EXCEPT !["server"] = 0]
  /\ phase' = [phase EXCEPT !["client"] = "open"]
  /\ UNCHANGED <<wire, sendVars, tsdu, rcvd>>

-----------------------------------------------------------------------------
(* The data phase. *)

\* sendRaw puts one segment on the TCP connection.  It blocks while the
\* buffers are full.  A write to a peer that has gone may still succeed.
sendRaw(s, segment) ==
  /\ phase[s] = "open"
  /\ Len(wire[s]) < MaxInFlight
  /\ wire' = [wire EXCEPT ![s] = Append(@, segment)]

\* One turn of the loop in Send, when task t has r left to write: either all
\* of it fits the last segment and Send returns, or a full segment is written
\* and the octets after it are left.
SendLast(s, t, r) ==
  /\ Len(r.data) <= MaxChunk(tpduSizeCode[s])
  /\ sendRaw(s, buildDTSegment(r.data, TRUE, r.num, r.off))
  /\ sending' = [sending EXCEPT ![s] = @ \ {t}]
  /\ rest' = [rest EXCEPT ![s][t] = Nothing]

SendFull(s, t, r) ==
  LET maxChunk == MaxChunk(tpduSizeCode[s])
  IN  /\ Len(r.data) > maxChunk
      /\ sendRaw(s, buildDTSegment(SubSeq(r.data, 1, maxChunk), FALSE, r.num, r.off))
      /\ sending' = [sending EXCEPT ![s] = @ \cup {t}]
      /\ rest' = [rest EXCEPT ![s][t] =
                    [data |-> SubSeq(r.data, maxChunk + 1, Len(r.data)),
                     num |-> r.num, off |-> r.off + maxChunk]]

SendSegment(s, t, r) == SendLast(s, t, r) \/ SendFull(s, t, r)

\* Send is called and writes the first segment.
SendFirst(s, t) ==
  /\ t \notin sending[s]
  /\ Len(sent[s]) < MaxSends
  /\ \E p \in Payload :
       /\ SendSegment(s, t, [data |-> p, num |-> Len(sent[s]) + 1, off |-> 0])
       /\ sent' = [sent EXCEPT ![s] = Append(@, p)]
  /\ UNCHANGED <<handshakeVars, tsdu, rcvd>>

\* Send goes round its loop.
SendNext(s, t) ==
  /\ t \in sending[s]
  /\ SendSegment(s, t, rest[s][t])
  /\ UNCHANGED <<handshakeVars, tsdu, sent, rcvd>>

\* sendRaw fails: the connection is closed here or at the peer.  Send
\* returns the error and the segments it has written stay written.
SendFail(s, t) ==
  /\ t \in sending[s]
  /\ \E e \in Side : phase[e] = "closed"
  /\ sending' = [sending EXCEPT ![s] = @ \ {t}]
  /\ rest' = [rest EXCEPT ![s][t] = Nothing]
  /\ UNCHANGED <<handshakeVars, wire, tsdu, sent, rcvd>>

\* The peer of s reads one segment (readTPKT, parseDT): one turn of the loop
\* in Receive, which returns the collected octets when EOT is set.
Receive(s) ==
  LET segment == Head(wire[s])
      data == tsdu[s] \o segment.data
  IN  /\ phase[Peer(s)] = "open"
      /\ wire[s] # << >>
      /\ wire' = [wire EXCEPT ![s] = Tail(@)]
      /\ tsdu' = [tsdu EXCEPT ![s] = IF segment.eot THEN << >> ELSE data]
      /\ rcvd' = [rcvd EXCEPT ![s] = IF segment.eot THEN Append(@, data) ELSE @]
      /\ UNCHANGED <<handshakeVars, sendVars>>

\* Close at either side.  What the side has not read is lost, and a Receive
\* under way fails and drops what it had collected.  Connect and Accept that
\* fail close the TCP connection too.
Close(s) ==
  /\ phase[s] # "closed"
  /\ phase' = [phase EXCEPT ![s] = "closed"]
  /\ tsdu' = [tsdu EXCEPT ![Peer(s)] = << >>]
  /\ UNCHANGED <<tpduSizeCode, offer, wire, sendVars, rcvd>>

Next ==
  \/ SendCR
  \/ Accept
  \/ ReadCC
  \/ \E s \in Side :
       \/ \E t \in Task : SendFirst(s, t) \/ SendNext(s, t) \/ SendFail(s, t)
       \/ Receive(s)
       \/ Close(s)

(***************************************************************************)
(* A goroutine inside Send goes on writing, or fails, once it can; a       *)
(* Connect under way reads the CC; both ends keep calling Receive, for     *)
(* handle and readLoop are loops around it.  Nobody has to call Send or    *)
(* Close.                                                                  *)
(***************************************************************************)
Fairness ==
  /\ WF_vars(ReadCC)
  /\ \A s \in Side :
       /\ WF_vars(Receive(s))
       /\ \A t \in Task : WF_vars(SendNext(s, t)) /\ WF_vars(SendFail(s, t))

Spec == Init /\ [][Next]_vars /\ Fairness

-----------------------------------------------------------------------------
(* Properties. *)

\* Every variable of the connection keeps its type.
TypeOK ==
  /\ phase \in [Side -> {"idle", "connecting", "open", "closed"}]
  /\ tpduSizeCode \in [Side -> SizeCode]
  /\ offer \in [Side -> SizeCode \cup {0}]
  /\ wire \in [Side -> Seq(Segment)]
  /\ sending \in [Side -> SUBSET Task]
  /\ rest \in [Side -> [Task -> Remainder]]
  /\ tsdu \in [Side -> Seq(Byte)]
  /\ sent \in [Side -> Seq(Payload)]
  /\ rcvd \in [Side -> Seq(Seq(Byte))]

\* When Send is never interrupted between two segments: one goroutine sends,
\* or no TSDU needs a second segment.
OneTask == \A t, u \in Task : t = u
NoSegmentation ==
  \A p \in Payload, code \in SizeCode : Len(p) <= MaxChunk(code)
Uninterrupted == OneTask \/ NoSegmentation

\* What Receive has returned is a prefix of what was handed to Send: no TSDU
\* is lost, split, merged, repeated or overtaken, whatever segments, failed
\* Sends and closed connections lie in between.
Integrity ==
  \A s \in Side :
    /\ Len(rcvd[s]) <= Len(sent[s])
    /\ \A i \in 1..Len(rcvd[s]) : rcvd[s][i] = sent[s][i]

\* The comment on Receive ("reads one complete COTP TSDU"): whatever it
\* returns is a TSDU that some Send was given, not a mixture of several.
WholeTsdus ==
  \A s \in Side : \A i \in 1..Len(rcvd[s]) :
    \E j \in 1..Len(sent[s]) : rcvd[s][i] = sent[s][j]

\* After the negotiation no segment of the server is larger than the TPDU
\* size the client proposed, nor larger than the one the server started with.
ServerHonoursSize ==
  \A i \in 1..Len(wire["server"]) :
    /\ Len(wire["server"][i].data) <= MaxChunk(tpduSizeCode["client"])
    /\ Len(wire["server"][i].data) <= MaxChunk(tpduSizeCode["server"])

\* The connection implements the TSDU channel: segments, sizes, phases and
\* buffers are hidden.
Channel == INSTANCE TsduChannel
  WITH Side <- Side, Payload <- Payload, sent <- sent, rcvd <- rcvd
ChannelSpec == Channel!Spec

\* A TSDU whose first segment was written arrives, unless an end closes.
Delivered ==
  \A s \in Side : \A k \in 1..MaxSends :
    (Len(sent[s]) >= k) ~>
      (Len(rcvd[s]) >= k \/ \E e \in Side : phase[e] = "closed")

-----------------------------------------------------------------------------
(***************************************************************************)
(* Why Integrity holds when Send is uninterrupted.  Read as one stream,    *)
(* the octets that Receive holds, the segments in flight and the remainder *)
(* of the Send under way are consecutive pieces of the TSDUs sent.  A      *)
(* position in the stream is a TSDU number and an offset in that TSDU.     *)
(* Once the reader has closed, nothing is read and the stream is void.     *)
(***************************************************************************)
Pos(num, off) == [num |-> num, off |-> off]

\* The position of a segment and the one after it.
StartOf(g) == Pos(g.num, g.off)
EndOf(g) == IF g.eot THEN Pos(g.num + 1, 0) ELSE Pos(g.num, g.off + Len(g.data))

\* Where the peer's Receive, the first unwritten octet and the wire's end are.
ReaderPos(s) == Pos(Len(rcvd[s]) + 1, Len(tsdu[s]))
WriterPos(s) ==
  IF sending[s] = {} THEN Pos(Len(sent[s]) + 1, 0)
  ELSE Pos(Len(sent[s]), rest[s][CHOOSE t \in sending[s] : TRUE].off)
WireEnd(s) == IF wire[s] = << >> THEN ReaderPos(s) ELSE EndOf(wire[s][Len(wire[s])])

\* data is the piece of number num of the TSDUs ts that follows off octets.
Piece(ts, num, off, data) ==
  /\ num \in 1..Len(ts)
  /\ off + Len(data) <= Len(ts[num])
  /\ \A i \in 1..Len(data) : data[i] = ts[num][off + i]

\* A segment carries the piece its labels say, and EOT marks the last one.
SegmentTrue(ts, g) ==
  /\ Piece(ts, g.num, g.off, g.data)
  /\ g.eot <=> (g.off + Len(g.data) = Len(ts[g.num]))

SegmentsTrue(s) == \A i \in 1..Len(wire[s]) : SegmentTrue(sent[s], wire[s][i])

\* The remainder of the last TSDU.
RemainderTrue(ts, r) ==
  /\ r.num = Len(ts)
  /\ r.data # << >>
  /\ Piece(ts, r.num, r.off, r.data)
  /\ r.off + Len(r.data) = Len(ts[r.num])

\* At most one Send is under way, and it has octets of the last TSDU left.
OneSending(s) ==
  \A t \in sending[s] :
    /\ \A u \in sending[s] : t = u
    /\ RemainderTrue(sent[s], rest[s][t])

\* The pieces follow each other from the reader to the writer.
Contiguous(s) ==
  /\ wire[s] # << >> => StartOf(wire[s][1]) = ReaderPos(s)
  /\ \A i \in 1..(Len(wire[s]) - 1) : StartOf(wire[s][i + 1]) = EndOf(wire[s][i])
  /\ phase[s] # "closed" => WireEnd(s) = WriterPos(s)

\* What Receive has collected is the beginning of the next TSDU.
ReaderTrue(s) == tsdu[s] # << >> => Piece(sent[s], Len(rcvd[s]) + 1, 0, tsdu[s])

\* With NoSegmentation no task is ever inside the loop.
Unsegmented == ~OneTask => \A s \in Side : sending[s] = {}

\* One direction of the connection.
DirectionInv(s) ==
  /\ OneSending(s)
  /\ phase[Peer(s)] # "closed" => SegmentsTrue(s) /\ Contiguous(s) /\ ReaderTrue(s)

\* The inductive invariant behind Integrity.
StreamInv ==
  /\ TypeOK
  /\ Integrity
  /\ Unsegmented
  /\ \A s \in Side : DirectionInv(s)
=============================================================================
