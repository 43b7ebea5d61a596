----------------------------- MODULE CotpProofs -----------------------------
(***************************************************************************)
(* Proofs about Cotp, for every set of goroutines, every configured TPDU   *)
(* size, every set of payloads and every bound.                            *)
(***************************************************************************)
EXTENDS Cotp, SequenceTheorems, TLAPS

\* The octets per segment, for the codes that make sense.
LEMMA ChunkTable ==
  /\ MaxChunk(2) = 1
  /\ MaxChunk(3) = 5
  /\ MaxChunk(4) = 13
  /\ MaxChunk(5) = 29
  /\ MaxChunk(6) = 61
  /\ MaxChunk(7) = 125
  /\ MaxChunk(8) = 253
  /\ MaxChunk(9) = 509
  /\ MaxChunk(10) = 1021
  /\ MaxChunk(11) = 2045
  /\ MaxChunk(12) = 4093
  /\ MaxChunk(13) = 8189
  /\ MaxChunk(14) = 16381
  /\ MaxChunk(15) = 32765
BY DEF MaxChunk

\* Every segment has room for at least one octet, so the loop in Send ends.
LEMMA ChunkPositive ==
  \A code \in 2..15 : MaxChunk(code) \in Nat /\ MaxChunk(code) >= 1
<1> SUFFICES ASSUME NEW code \in 2..15
             PROVE  MaxChunk(code) \in Nat /\ MaxChunk(code) >= 1
  OBVIOUS
<1>1. \/ code = 2 \/ code = 3 \/ code = 4 \/ code = 5 \/ code = 6 \/ code = 7
      \/ code = 8 \/ code = 9 \/ code = 10 \/ code = 11 \/ code = 12
      \/ code = 13 \/ code = 14 \/ code = 15
  OBVIOUS
<1> QED
  BY <1>1, ChunkTable

\* A smaller size code means smaller segments.
LEMMA ChunkMonotone ==
  \A c, d \in 2..15 : c <= d => MaxChunk(c) <= MaxChunk(d)
<1> SUFFICES ASSUME NEW c \in 2..15, NEW d \in 2..15, c <= d
             PROVE  MaxChunk(c) <= MaxChunk(d)
  OBVIOUS
<1>1. \/ c = 2 \/ c = 3 \/ c = 4 \/ c = 5 \/ c = 6 \/ c = 7
      \/ c = 8 \/ c = 9 \/ c = 10 \/ c = 11 \/ c = 12
      \/ c = 13 \/ c = 14 \/ c = 15
  OBVIOUS
<1>2. \/ d = 2 \/ d = 3 \/ d = 4 \/ d = 5 \/ d = 6 \/ d = 7
      \/ d = 8 \/ d = 9 \/ d = 10 \/ d = 11 \/ d = 12
      \/ d = 13 \/ d = 14 \/ d = 15
  OBVIOUS
<1> QED
  BY <1>1, <1>2, ChunkTable

-----------------------------------------------------------------------------
\* What the model keeps of one turn of the loop in Send: a segment g with the
\* first octets of r goes on the wire.  If it holds all of r it has EOT and
\* Send returns; otherwise Send is left with the octets q after it.
SegmentWritten(s, t, r, g) ==
  /\ phase[s] = "open"
  /\ wire' = [wire EXCEPT ![s] = Append(@, g)]
  /\ g.num = r.num /\ g.off = r.off
  /\ Len(g.data) <= MaxChunk(tpduSizeCode[s])
  /\ Len(g.data) <= Len(r.data)
  /\ \A i \in 1..Len(g.data) : g.data[i] = r.data[i]

LastWritten(s, t, r, g) ==
  /\ g.eot
  /\ Len(g.data) = Len(r.data)
  /\ sending' = [sending EXCEPT ![s] = @ \ {t}]
  /\ rest' = [rest EXCEPT ![s][t] = Nothing]

MoreToWrite(s, t, r, g, q) ==
  /\ ~g.eot
  /\ Len(g.data) >= 1
  /\ Len(q.data) = Len(r.data) - Len(g.data)
  /\ Len(q.data) >= 1
  /\ q.num = r.num /\ q.off = r.off + Len(g.data)
  /\ \A i \in 1..Len(q.data) : q.data[i] = r.data[Len(g.data) + i]
  /\ sending' = [sending EXCEPT ![s] = @ \cup {t}]
  /\ rest' = [rest EXCEPT ![s][t] = q]

\* One turn of the loop does that, and goes round again only for a TSDU that
\* is longer than a segment.
LEMMA SendSegmentEffect ==
  ASSUME TypeOK, NEW s \in Side, NEW t \in Task, NEW r \in Remainder,
         SendSegment(s, t, r)
  PROVE  \E g \in Segment :
           /\ SegmentWritten(s, t, r, g)
           /\ \/ LastWritten(s, t, r, g)
              \/ /\ Len(r.data) > MaxChunk(tpduSizeCode[s])
                 /\ \E q \in Remainder : MoreToWrite(s, t, r, g, q)
<1> DEFINE m == MaxChunk(tpduSizeCode[s])
<1>1. m \in Nat /\ m >= 1
  BY ChunkPositive, SizeCodeAssumption DEF TypeOK
<1>2. r.data \in Seq(Byte) /\ r.num \in Nat /\ r.off \in Nat
  BY DEF Remainder
<1> HIDE DEF m
<1>3. CASE SendLast(s, t, r)
  <2> DEFINE g == buildDTSegment(r.data, TRUE, r.num, r.off)
  <2>1. g \in Segment
    BY <1>2 DEF buildDTSegment, Segment
  <2>2. SegmentWritten(s, t, r, g) /\ LastWritten(s, t, r, g)
    BY <1>1, <1>2, <1>3
       DEF SendLast, sendRaw, buildDTSegment, SegmentWritten, LastWritten
  <2> QED
    BY <2>1, <2>2
<1>4. CASE SendFull(s, t, r)
  <2> DEFINE g == buildDTSegment(SubSeq(r.data, 1, m), FALSE, r.num, r.off)
             q == [data |-> SubSeq(r.data, m + 1, Len(r.data)),
                   num |-> r.num, off |-> r.off + m]
  <2>0. Len(r.data) > m
    BY <1>4 DEF SendFull, m
  <2>1. /\ SubSeq(r.data, 1, m) \in Seq(Byte)
        /\ Len(SubSeq(r.data, 1, m)) = m
        /\ \A i \in 1..m : SubSeq(r.data, 1, m)[i] = r.data[i]
    BY <1>1, <1>2, <2>0
  <2>2. /\ SubSeq(r.data, m + 1, Len(r.data)) \in Seq(Byte)
        /\ Len(SubSeq(r.data, m + 1, Len(r.data))) = Len(r.data) - m
        /\ \A i \in 1..(Len(r.data) - m) :
             SubSeq(r.data, m + 1, Len(r.data))[i] = r.data[m + i]
    BY <1>1, <1>2, <2>0
  <2>3. g \in Segment /\ q \in Remainder
    BY <1>1, <1>2, <2>1, <2>2 DEF buildDTSegment, Segment, Remainder
  <2>4. SegmentWritten(s, t, r, g)
    BY <1>1, <1>2, <1>4, <2>0, <2>1
       DEF SendFull, sendRaw, buildDTSegment, SegmentWritten, m
  <2>5. MoreToWrite(s, t, r, g, q)
    BY <1>1, <1>2, <1>4, <2>0, <2>1, <2>2, SMTT(60)
       DEF SendFull, buildDTSegment, MoreToWrite, m
  <2> QED
    BY <1>1, <1>2, <1>4, <2>0, <2>3, <2>4, <2>5 DEF m
<1> QED
  BY <1>3, <1>4 DEF SendSegment

-----------------------------------------------------------------------------
(* Type correctness. *)

\* A turn of the loop in Send keeps the types of what it writes.
LEMMA SendSegmentTypes ==
  ASSUME TypeOK, NEW s \in Side, NEW t \in Task, NEW r \in Remainder,
         SendSegment(s, t, r)
  PROVE  /\ wire' \in [Side -> Seq(Segment)]
         /\ sending' \in [Side -> SUBSET Task]
         /\ rest' \in [Side -> [Task -> Remainder]]
<1>1. PICK g \in Segment :
           /\ SegmentWritten(s, t, r, g)
           /\ \/ LastWritten(s, t, r, g)
              \/ \E q \in Remainder : MoreToWrite(s, t, r, g, q)
  BY SendSegmentEffect
<1>2. Nothing \in Remainder
  BY DEF Nothing, Remainder
<1>3. wire' \in [Side -> Seq(Segment)]
  BY <1>1 DEF TypeOK, SegmentWritten
<1>4. sending' \in [Side -> SUBSET Task] /\ rest' \in [Side -> [Task -> Remainder]]
  <2>1. ASSUME NEW q \in Remainder, rest' = [rest EXCEPT ![s][t] = q]
        PROVE  rest' \in [Side -> [Task -> Remainder]]
    BY <2>1 DEF TypeOK
  <2>2. CASE LastWritten(s, t, r, g)
    BY <1>2, <2>1, <2>2 DEF TypeOK, LastWritten
  <2>3. ASSUME NEW q \in Remainder, MoreToWrite(s, t, r, g, q)
        PROVE  /\ sending' \in [Side -> SUBSET Task]
               /\ rest' \in [Side -> [Task -> Remainder]]
    BY <2>1, <2>3 DEF TypeOK, MoreToWrite
  <2> QED
    BY <1>1, <2>2, <2>3
<1> QED
  BY <1>3, <1>4

\* The initial state is well typed.
LEMMA TypeInit == Init => TypeOK
<1>1. Nothing \in Remainder
  BY DEF Nothing, Remainder
<1>2. /\ << >> \in Seq(Segment) /\ << >> \in Seq(Byte)
      /\ << >> \in Seq(Payload) /\ << >> \in Seq(Seq(Byte))
  OBVIOUS
<1> SUFFICES ASSUME Init
             PROVE  TypeOK
  OBVIOUS
<1>3. wire \in [Side -> Seq(Segment)]
  BY <1>2 DEF Init
<1>4. rest \in [Side -> [Task -> Remainder]]
  BY <1>1 DEF Init
<1>5. tsdu \in [Side -> Seq(Byte)]
  BY <1>2 DEF Init
<1>6. sent \in [Side -> Seq(Payload)]
  BY <1>2 DEF Init
<1>7. rcvd \in [Side -> Seq(Seq(Byte))]
  BY <1>2 DEF Init
<1>8. /\ phase \in [Side -> {"idle", "connecting", "open", "closed"}]
      /\ offer \in [Side -> SizeCode \cup {0}]
      /\ sending \in [Side -> SUBSET Task]
  BY DEF Init
<1> QED
  BY <1>3, <1>4, <1>5, <1>6, <1>7, <1>8 DEF Init, TypeOK

\* Every step keeps the types.
LEMMA TypeNext == TypeOK /\ [Next]_vars => TypeOK'
<1> SUFFICES ASSUME TypeOK, [Next]_vars
             PROVE  TypeOK'
  OBVIOUS
<1>0. Side = {"client", "server"} /\ \A s \in Side : Peer(s) \in Side
  BY DEF Side, Peer
<1>1. CASE SendCR
  BY <1>0, <1>1 DEF SendCR, sendVars, TypeOK
<1>2. CASE Accept
  <2>1. offer["client"] \in SizeCode /\ tpduSizeCode["server"] \in SizeCode
    BY <1>0, <1>2 DEF Accept, TypeOK
  <2>2. parseCR(tpduSizeCode["server"], offer["client"]) \in SizeCode
    BY <2>1 DEF parseCR
  <2> QED
    BY <1>0, <1>2, <2>2 DEF Accept, sendVars, TypeOK
<1>3. CASE ReadCC
  BY <1>0, <1>3 DEF ReadCC, parseCC, sendVars, TypeOK
<1>4. ASSUME NEW s \in Side, NEW t \in Task, SendFirst(s, t)
      PROVE  TypeOK'
  <2>1. PICK p \in Payload :
          /\ SendSegment(s, t, [data |-> p, num |-> Len(sent[s]) + 1, off |-> 0])
          /\ sent' = [sent EXCEPT ![s] = Append(@, p)]
    BY <1>4 DEF SendFirst
  <2>2. [data |-> p, num |-> Len(sent[s]) + 1, off |-> 0] \in Remainder
    BY PayloadAssumption DEF Remainder, TypeOK
  <2>3. sent' \in [Side -> Seq(Payload)]
    BY <2>1 DEF TypeOK
  <2> QED
    BY <1>4, <2>1, <2>2, <2>3, SendSegmentTypes
       DEF SendFirst, handshakeVars, TypeOK
<1>5. ASSUME NEW s \in Side, NEW t \in Task, SendNext(s, t)
      PROVE  TypeOK'
  <2>1. rest[s][t] \in Remainder
    BY DEF TypeOK
  <2> QED
    BY <1>5, <2>1, SendSegmentTypes DEF SendNext, handshakeVars, TypeOK
<1>6. ASSUME NEW s \in Side, NEW t \in Task, SendFail(s, t)
      PROVE  TypeOK'
  <2>1. Nothing \in Remainder
    BY DEF Nothing, Remainder
  <2> QED
    BY <1>6, <2>1 DEF SendFail, handshakeVars, TypeOK
<1>7. ASSUME NEW s \in Side, Receive(s)
      PROVE  TypeOK'
  <2>1. Head(wire[s]) \in Segment /\ Tail(wire[s]) \in Seq(Segment)
    BY <1>7 DEF Receive, TypeOK
  <2>2. tsdu[s] \o Head(wire[s]).data \in Seq(Byte)
    BY <2>1 DEF Segment, TypeOK
  <2> QED
    BY <1>7, <2>1, <2>2, SMTT(60) DEF Receive, handshakeVars, sendVars, TypeOK
<1>8. ASSUME NEW s \in Side, Close(s)
      PROVE  TypeOK'
  BY <1>0, <1>8 DEF Close, sendVars, TypeOK
<1>9. CASE UNCHANGED vars
  BY <1>9 DEF vars, TypeOK
<1> QED
  BY <1>1, <1>2, <1>3, <1>4, <1>5, <1>6, <1>7, <1>8, <1>9 DEF Next

\* The connection keeps its types: the CR/CC handshake never leaves a size
\* outside the configured ones, Send and Receive only move octets.
THEOREM TypeCorrect == Spec => []TypeOK
BY TypeInit, TypeNext, PTL DEF Spec

-----------------------------------------------------------------------------
(* Facts about sequences. *)

\* Taking the head off a queue.
LEMMA TailFacts ==
  ASSUME NEW S, NEW w \in Seq(S), w # << >>
  PROVE  /\ Head(w) \in S /\ Head(w) = w[1] /\ Tail(w) \in Seq(S)
         /\ Len(w) \in Nat /\ Len(w) >= 1
         /\ Len(Tail(w)) = Len(w) - 1
         /\ \A i \in 1..Len(Tail(w)) : Tail(w)[i] = w[i + 1]
         /\ Tail(w) = << >> <=> Len(w) = 1
<1>1. /\ Head(w) \in S /\ Head(w) = w[1] /\ Tail(w) \in Seq(S)
      /\ Len(w) \in Nat /\ Len(w) >= 1
      /\ Len(Tail(w)) = Len(w) - 1
      /\ \A i \in 1..Len(Tail(w)) : Tail(w)[i] = w[i + 1]
  OBVIOUS
<1>2. Tail(w) = << >> <=> Len(Tail(w)) = 0
  BY <1>1, EmptySeq
<1>3. Tail(w) = << >> <=> Len(w) = 1
  BY <1>1, <1>2
<1> QED
  BY <1>1, <1>3

\* Adding to the end of a queue.
LEMMA AppendFacts ==
  ASSUME NEW S, NEW w \in Seq(S), NEW e \in S
  PROVE  /\ Append(w, e) \in Seq(S)
         /\ Len(w) \in Nat /\ Len(Append(w, e)) = Len(w) + 1
         /\ Append(w, e)[Len(w) + 1] = e
         /\ \A i \in 1..Len(w) : Append(w, e)[i] = w[i]
OBVIOUS

\* The first octets a of a TSDU m and the octets d after them make the longer
\* beginning a \o d of m, and m itself when the lengths agree.
LEMMA JoinFacts ==
  ASSUME NEW S, NEW a \in Seq(S), NEW d \in Seq(S), NEW m \in Seq(S),
         Len(a) + Len(d) <= Len(m),
         \A i \in 1..Len(a) : a[i] = m[i],
         \A i \in 1..Len(d) : d[i] = m[Len(a) + i]
  PROVE  /\ a \o d \in Seq(S)
         /\ Len(a \o d) = Len(a) + Len(d)
         /\ \A i \in 1..Len(a \o d) : (a \o d)[i] = m[i]
         /\ Len(a) + Len(d) = Len(m) => a \o d = m
<1>1. /\ a \o d \in Seq(S)
      /\ Len(a \o d) = Len(a) + Len(d)
  OBVIOUS
<1>2. ASSUME NEW i \in 1..Len(a \o d)
      PROVE  (a \o d)[i] = m[i]
  <2>1. CASE i <= Len(a)
    BY <2>1
  <2>2. CASE ~(i <= Len(a))
    <3>1. i - Len(a) \in 1..Len(d) /\ Len(a) + (i - Len(a)) = i
      BY <1>1, <2>2
    <3>2. (a \o d)[i] = d[i - Len(a)]
      BY <1>1, <2>2
    <3> QED
      BY <3>1, <3>2
  <2> QED
    BY <2>1, <2>2
<1> QED
  BY <1>1, <1>2, SeqEqual

-----------------------------------------------------------------------------
(* Integrity. *)

\* A direction none of whose variables change keeps its invariant, whether the
\* reader stays or closes.
LEMMA DirectionUnchanged ==
  ASSUME NEW s \in Side, DirectionInv(s),
         wire'[s] = wire[s], sending'[s] = sending[s], rest'[s] = rest[s],
         tsdu'[s] = tsdu[s], sent'[s] = sent[s], rcvd'[s] = rcvd[s],
         phase'[Peer(s)] # "closed" => phase[Peer(s)] # "closed",
         phase'[s] # "closed" => phase[s] # "closed"
  PROVE  DirectionInv(s)'
<1>1. OneSending(s)'
  BY DEF DirectionInv, OneSending
<1>2. SegmentsTrue(s) => SegmentsTrue(s)'
  BY DEF SegmentsTrue
<1>3. Contiguous(s) => Contiguous(s)'
  BY DEF Contiguous, ReaderPos, WriterPos, WireEnd
<1>4. ReaderTrue(s) => ReaderTrue(s)'
  BY DEF ReaderTrue
<1> QED
  BY <1>1, <1>2, <1>3, <1>4 DEF DirectionInv

\* The heart of Send: when the remainder r of the last TSDU starts where the
\* wire ends, writing a segment of it keeps the stream consecutive.
LEMMA SegmentStep ==
  ASSUME TypeOK, TypeOK', NEW s \in Side, NEW t \in Task, NEW r \in Remainder,
         NEW g \in Segment,
         DirectionInv(s),
         SegmentWritten(s, t, r, g),
         \/ LastWritten(s, t, r, g)
         \/ \E q \in Remainder : MoreToWrite(s, t, r, g, q),
         phase' = phase, tsdu' = tsdu, rcvd' = rcvd,
         Len(sent[s]) <= Len(sent'[s]),
         \A n \in 1..Len(sent[s]) : sent'[s][n] = sent[s][n],
         sending[s] \subseteq {t},
         r.num = Len(sent'[s]),
         Piece(sent'[s], r.num, r.off, r.data),
         r.off + Len(r.data) = Len(sent'[s][r.num]),
         WriterPos(s) = Pos(r.num, r.off)
  PROVE  DirectionInv(s)'
<1>1. /\ g.data \in Seq(Byte) /\ g.num \in Nat /\ g.off \in Nat /\ g.eot \in BOOLEAN
      /\ r.data \in Seq(Byte) /\ r.num \in Nat /\ r.off \in Nat
  BY DEF Segment, Remainder
<1>2. /\ wire'[s] = Append(wire[s], g)
      /\ wire[s] \in Seq(Segment)
      /\ Len(wire'[s]) = Len(wire[s]) + 1
      /\ wire'[s][Len(wire[s]) + 1] = g
      /\ \A i \in 1..Len(wire[s]) : wire'[s][i] = wire[s][i]
  BY DEF TypeOK, SegmentWritten
<1>3. /\ sent[s] \in Seq(Payload) /\ sent'[s] \in Seq(Payload)
      /\ \A n \in 1..Len(sent'[s]) : sent'[s][n] \in Seq(Byte)
      /\ \A n \in 1..Len(sent[s]) : sent[s][n] \in Seq(Byte)
  BY PayloadAssumption DEF TypeOK
<1>4. SegmentTrue(sent'[s], g)
  <2>1. Len(g.data) \in Nat /\ Len(r.data) \in Nat /\ Len(g.data) <= Len(r.data)
    BY <1>1 DEF SegmentWritten
  <2>2. /\ r.num \in 1..Len(sent'[s]) /\ Len(sent'[s][r.num]) \in Nat
        /\ g.num = r.num /\ g.off = r.off
    BY <1>3 DEF SegmentWritten, Piece
  <2>3. Piece(sent'[s], g.num, g.off, g.data)
    BY <1>1, <2>1, <2>2 DEF SegmentWritten, Piece
  <2>4. CASE LastWritten(s, t, r, g)
    BY <1>1, <2>1, <2>2, <2>3, <2>4 DEF LastWritten, SegmentTrue
  <2>5. ASSUME NEW q \in Remainder, MoreToWrite(s, t, r, g, q)
        PROVE  SegmentTrue(sent'[s], g)
    <3>1. ~g.eot /\ Len(g.data) < Len(r.data)
      BY <2>1, <2>5 DEF MoreToWrite, Remainder
    <3> QED
      BY <1>1, <2>1, <2>2, <2>3, <3>1 DEF SegmentTrue
  <2> QED
    BY <2>4, <2>5
<1>6. OneSending(s)'
  <2>1. CASE LastWritten(s, t, r, g)
    <3>1. sending'[s] = {}
      BY <2>1 DEF LastWritten, TypeOK
    <3> QED
      BY <3>1 DEF OneSending
  <2>2. ASSUME NEW q \in Remainder, MoreToWrite(s, t, r, g, q)
        PROVE  OneSending(s)'
    <3>1. sending'[s] = {t} /\ rest'[s][t] = q
      BY <2>2 DEF MoreToWrite, TypeOK
    <3>2. q.data \in Seq(Byte) /\ q.num \in Nat /\ q.off \in Nat
      BY DEF Remainder
    <3>3. Len(g.data) \in Nat /\ Len(r.data) \in Nat /\ Len(q.data) \in Nat
      BY <1>1, <3>2, SMTT(60)
    <3>4. /\ q.num = r.num /\ q.off = r.off + Len(g.data)
          /\ Len(q.data) = Len(r.data) - Len(g.data) /\ Len(q.data) >= 1
      BY <2>2, Zenon DEF MoreToWrite
    <3>5. \A i \in 1..Len(q.data) : q.data[i] = r.data[Len(g.data) + i]
      BY <2>2, Zenon DEF MoreToWrite
    <3>6. r.num \in 1..Len(sent'[s]) /\ Len(sent'[s][r.num]) \in Nat
      BY <1>3 DEF Piece
    <3>9. q.off + Len(q.data) = Len(sent'[s][q.num])
      <4>1. q.off + Len(q.data) = r.off + Len(r.data)
        BY <3>4 DEF Remainder, Segment
      <4>2. Len(sent'[s][q.num]) = Len(sent'[s][r.num])
        BY <3>4
      <4> QED
        BY <4>1, <4>2
    <3>7. Piece(sent'[s], q.num, q.off, q.data)
      <4>1. ASSUME NEW i \in 1..Len(q.data)
            PROVE  q.data[i] = sent'[s][q.num][q.off + i]
        <5>1. Len(g.data) + i \in 1..Len(r.data)
          BY <3>3, <3>4
        <5>2. r.data[Len(g.data) + i] = sent'[s][r.num][r.off + (Len(g.data) + i)]
          BY <5>1 DEF Piece
        <5>3. r.off + (Len(g.data) + i) = q.off + i
          BY <1>1, <3>3, <3>4
        <5> QED
          BY <3>4, <3>5, <5>2, <5>3
      <4> QED
        BY <1>1, <3>3, <3>4, <3>6, <3>9, <4>1 DEF Piece
    <3>10. q.data # << >>
      BY <3>4 DEF Remainder
    <3>8. RemainderTrue(sent'[s], q)
      BY <3>4, <3>7, <3>9, <3>10 DEF RemainderTrue
    <3> QED
      BY <3>1, <3>8 DEF OneSending
  <2> QED
    BY <2>1, <2>2
<1>7. ASSUME phase[Peer(s)] # "closed"
      PROVE  SegmentsTrue(s)'
  <2> SUFFICES ASSUME NEW i \in 1..Len(wire'[s])
               PROVE  SegmentTrue(sent'[s], wire'[s][i])
    BY DEF SegmentsTrue
  <2>1. CASE i = Len(wire[s]) + 1
    BY <1>2, <1>4, <2>1
  <2>2. CASE i \in 1..Len(wire[s])
    <3>1. SegmentTrue(sent[s], wire[s][i])
      BY <1>7, <2>2 DEF DirectionInv, SegmentsTrue
    <3>2. wire[s][i].num \in 1..Len(sent[s])
      BY <3>1 DEF SegmentTrue, Piece
    <3>3. sent'[s][wire[s][i].num] = sent[s][wire[s][i].num]
      BY <3>2, SMTT(60)
    <3>4. wire[s][i].num \in 1..Len(sent'[s])
      BY <1>3, <3>2
    <3>5. SegmentTrue(sent'[s], wire[s][i])
      BY <3>1, <3>3, <3>4 DEF SegmentTrue, Piece
    <3> QED
      BY <1>2, <2>2, <3>5
  <2> QED
    BY <1>2, <2>1, <2>2
<1>8. ASSUME phase[Peer(s)] # "closed"
      PROVE  Contiguous(s)'
  <2>1. Contiguous(s)
    BY <1>8 DEF DirectionInv
  <2>2. WireEnd(s) = StartOf(g)
    BY <2>1 DEF Contiguous, SegmentWritten, StartOf
  <2>3. ReaderPos(s)' = ReaderPos(s)
    BY DEF ReaderPos
  <2>4. StartOf(wire'[s][1]) = ReaderPos(s)
    <3>1. CASE wire[s] = << >>
      BY <1>2, <2>2, <3>1 DEF WireEnd
    <3>2. CASE wire[s] # << >>
      BY <1>2, <2>1, <3>2 DEF Contiguous
    <3> QED
      BY <3>1, <3>2
  <2>5. ASSUME NEW i \in 1..(Len(wire'[s]) - 1)
        PROVE  StartOf(wire'[s][i + 1]) = EndOf(wire'[s][i])
    <3>1. CASE i = Len(wire[s])
      BY <1>2, <2>2, <3>1 DEF WireEnd
    <3>2. CASE i \in 1..(Len(wire[s]) - 1)
      BY <1>2, <2>1, <3>2 DEF Contiguous
    <3> QED
      BY <1>2, <3>1, <3>2
  <2>6. WireEnd(s)' = EndOf(g)
    BY <1>2 DEF WireEnd
  <2>7. WriterPos(s)' = EndOf(g)
    <3>1. CASE LastWritten(s, t, r, g)
      <4>1. sending'[s] = {}
        BY <3>1 DEF LastWritten, TypeOK
      <4> QED
        BY <3>1, <4>1 DEF WriterPos, EndOf, LastWritten, SegmentWritten
    <3>2. ASSUME NEW q \in Remainder, MoreToWrite(s, t, r, g, q)
          PROVE  WriterPos(s)' = EndOf(g)
      <4>1. sending'[s] = {t} /\ rest'[s][t] = q
        BY <3>2 DEF MoreToWrite, TypeOK
      <4>2. (CHOOSE u \in sending'[s] : TRUE) = t
        BY <4>1
      <4> QED
        BY <1>1, <3>2, <4>1, <4>2, ZenonT(60) DEF WriterPos, EndOf, Pos, MoreToWrite, SegmentWritten
    <3> QED
      BY <3>1, <3>2
  <2> QED
    BY <2>3, <2>4, <2>5, <2>6, <2>7 DEF Contiguous
<1>9. ASSUME phase[Peer(s)] # "closed"
      PROVE  ReaderTrue(s)'
  <2>1. ReaderTrue(s)
    BY <1>9 DEF DirectionInv
  <2> QED
    BY <1>3, <2>1, SMTT(60) DEF ReaderTrue, Piece
<1> QED
  BY <1>6, <1>7, <1>8, <1>9 DEF DirectionInv

\* The heart of Receive: the head of the wire starts where the reader is, so
\* the collected octets stay the beginning of the next TSDU, and with EOT they
\* are all of it.
LEMMA ReceiveStep ==
  ASSUME StreamInv, NEW s \in Side, Receive(s), TypeOK'
  PROVE  DirectionInv(s)' /\ Integrity'
<1> DEFINE h == Head(wire[s])
           n == Len(rcvd[s]) + 1
           data == tsdu[s] \o h.data
<1>1. /\ wire[s] \in Seq(Segment) /\ wire[s] # << >> /\ h \in Segment /\ h = wire[s][1]
      /\ tsdu[s] \in Seq(Byte) /\ rcvd[s] \in Seq(Seq(Byte)) /\ n \in Nat
      /\ sent[s] \in Seq(Payload)
      /\ \A k \in 1..Len(sent[s]) : sent[s][k] \in Seq(Byte)
  BY PayloadAssumption DEF Receive, StreamInv, TypeOK
<1>2. /\ wire'[s] = Tail(wire[s])
      /\ Len(wire'[s]) = Len(wire[s]) - 1
      /\ \A i \in 1..Len(wire'[s]) : wire'[s][i] = wire[s][i + 1]
      /\ wire'[s] = << >> <=> Len(wire[s]) = 1
  <2>1. wire'[s] = Tail(wire[s])
    BY DEF Receive, StreamInv, TypeOK
  <2>2. /\ Len(Tail(wire[s])) = Len(wire[s]) - 1
        /\ \A i \in 1..Len(Tail(wire[s])) : Tail(wire[s])[i] = wire[s][i + 1]
        /\ Tail(wire[s]) = << >> <=> Len(wire[s]) = 1
    BY <1>1, TailFacts
  <2> QED
    BY <2>1, <2>2
<1>3. /\ SegmentsTrue(s) /\ Contiguous(s) /\ ReaderTrue(s) /\ OneSending(s)
      /\ phase' = phase /\ sent' = sent /\ sending' = sending /\ rest' = rest
  BY DEF Receive, StreamInv, DirectionInv, handshakeVars, sendVars
<1>4. h.num = n /\ h.off = Len(tsdu[s]) /\ SegmentTrue(sent[s], h)
  BY <1>1, <1>3, SMTT(60) DEF SegmentsTrue, Contiguous, StartOf, ReaderPos, Pos
<1>5. /\ n \in 1..Len(sent[s])
      /\ Len(tsdu[s]) + Len(h.data) <= Len(sent[s][n])
      /\ h.eot <=> (Len(tsdu[s]) + Len(h.data) = Len(sent[s][n]))
      /\ \A i \in 1..Len(h.data) : h.data[i] = sent[s][n][Len(tsdu[s]) + i]
  BY <1>4 DEF SegmentTrue, Piece
<1>6. \A i \in 1..Len(tsdu[s]) : tsdu[s][i] = sent[s][n][i]
  BY <1>1, <1>3 DEF ReaderTrue, Piece
<1>7. h.data \in Seq(Byte) /\ h.eot \in BOOLEAN
  BY <1>1 DEF Segment
<1> HIDE DEF h, n
<1>8. /\ data \in Seq(Byte)
      /\ Len(data) = Len(tsdu[s]) + Len(h.data)
      /\ \A i \in 1..Len(data) : data[i] = sent[s][n][i]
      /\ Len(tsdu[s]) + Len(h.data) = Len(sent[s][n]) => data = sent[s][n]
  <2>1. sent[s][n] \in Seq(Byte)
    BY <1>1, <1>5
  <2> QED
    BY <1>1, <1>5, <1>6, <1>7, <2>1, JoinFacts
<1>9. /\ h.eot => tsdu'[s] = << >> /\ rcvd'[s] = Append(rcvd[s], data)
      /\ ~h.eot => tsdu'[s] = data /\ rcvd'[s] = rcvd[s]
      /\ \A u \in Side : u # s => tsdu'[u] = tsdu[u] /\ rcvd'[u] = rcvd[u]
  BY ZenonT(60) DEF Receive, StreamInv, TypeOK, h
<1> HIDE DEF data
<1>10. ReaderPos(s)' = EndOf(h)
  <2>1. CASE h.eot
    <3>1. Len(rcvd'[s]) = n /\ Len(tsdu'[s]) = 0
      BY <1>1, <1>8, <1>9, <2>1 DEF n
    <3> QED
      BY <1>4, <2>1, <3>1 DEF ReaderPos, EndOf
  <2>2. CASE ~h.eot
    BY <1>4, <1>8, <1>9, <2>2 DEF ReaderPos, EndOf, n
  <2> QED
    BY <2>1, <2>2
<1>11. ReaderTrue(s)'
  <2>1. CASE h.eot
    BY <1>9, <2>1 DEF ReaderTrue
  <2>2. CASE ~h.eot
    <3>1. Piece(sent[s], n, 0, data)
      <4>0. /\ Len(data) \in Nat /\ Len(sent[s][n]) \in Nat
            /\ Len(data) <= Len(sent[s][n])
        <5>1. data \in Seq(Byte) /\ sent[s][n] \in Seq(Byte)
          BY <1>1, <1>5, <1>8
        <5>2. Len(data) <= Len(sent[s][n])
          BY <1>5, <1>8, Zenon
        <5> QED
          BY <5>1, <5>2
      <4>1. ASSUME NEW i \in 1..Len(data)
            PROVE  data[i] = sent[s][n][0 + i]
        <5>1. 0 + i = i
          BY <4>0
        <5> QED
          BY <1>8, <5>1
      <4>2. 0 + Len(data) <= Len(sent[s][n])
        BY <4>0
      <4> QED
        BY <1>5, <4>1, <4>2 DEF Piece
    <3> QED
      BY <1>3, <1>9, <2>2, <3>1 DEF ReaderTrue, n
  <2> QED
    BY <2>1, <2>2
<1>12. Integrity'
  <2>1. Integrity
    BY DEF StreamInv
  <2>2. CASE ~h.eot
    <3>1. rcvd' = rcvd
      BY <2>2 DEF Receive, h, StreamInv, TypeOK
    <3> QED
      BY <1>3, <2>1, <3>1 DEF Integrity
  <2>3. CASE h.eot
    <3>1. data = sent[s][n]
      BY <1>5, <1>8, <2>3
    <3>2. /\ Len(rcvd'[s]) = n /\ rcvd'[s][n] = data
          /\ \A i \in 1..Len(rcvd[s]) : rcvd'[s][i] = rcvd[s][i]
      <4>1. /\ Len(Append(rcvd[s], data)) = Len(rcvd[s]) + 1
            /\ Append(rcvd[s], data)[Len(rcvd[s]) + 1] = data
            /\ \A i \in 1..Len(rcvd[s]) : Append(rcvd[s], data)[i] = rcvd[s][i]
        BY <1>1, <1>8, AppendFacts
      <4>2. rcvd'[s] = Append(rcvd[s], data)
        BY <1>9, <2>3
      <4> QED
        BY <4>1, <4>2 DEF n
    <3>4. ASSUME NEW u \in Side
          PROVE  /\ Len(rcvd'[u]) <= Len(sent'[u])
                 /\ \A i \in 1..Len(rcvd'[u]) : rcvd'[u][i] = sent'[u][i]
      <4>1. CASE u = s
        <5>1. ASSUME NEW i \in 1..Len(rcvd'[s])
              PROVE  rcvd'[s][i] = sent[s][i]
          <6>1. CASE i = n
            BY <3>1, <3>2, <6>1
          <6>2. CASE i \in 1..Len(rcvd[s])
            BY <2>1, <3>2, <6>2 DEF Integrity
          <6> QED
            BY <1>1, <3>2, <6>1, <6>2 DEF n
        <5> QED
          BY <1>1, <1>3, <1>5, <3>2, <4>1, <5>1
      <4>2. CASE u # s
        BY <1>3, <1>9, <2>1, <4>2 DEF Integrity
      <4> QED
        BY <4>1, <4>2
    <3> QED
      BY <3>4 DEF Integrity
  <2> QED
    BY <2>2, <2>3
<1>13. SegmentsTrue(s)'
  <2> SUFFICES ASSUME NEW i \in 1..Len(wire'[s])
               PROVE  SegmentTrue(sent[s], wire'[s][i])
    BY <1>3 DEF SegmentsTrue
  <2>1. i + 1 \in 1..Len(wire[s])
    BY <1>1, <1>2
  <2> QED
    BY <1>2, <1>3, <2>1 DEF SegmentsTrue
<1>14. Contiguous(s)'
  <2>1. ASSUME wire'[s] # << >>
        PROVE  StartOf(wire'[s][1]) = ReaderPos(s)'
    <3>1. Len(wire'[s]) \in Nat /\ Len(wire'[s]) >= 1
      BY <1>1, <1>2, <2>1, SMTT(60)
    <3>2. wire'[s][1] = wire[s][1 + 1] /\ 1 \in 1..(Len(wire[s]) - 1)
      BY <1>1, <1>2, <3>1
    <3>3. StartOf(wire[s][1 + 1]) = EndOf(wire[s][1])
      BY <1>3, <3>2 DEF Contiguous
    <3> QED
      BY <1>1, <1>10, <3>2, <3>3
  <2>2. ASSUME NEW i \in 1..(Len(wire'[s]) - 1)
        PROVE  StartOf(wire'[s][i + 1]) = EndOf(wire'[s][i])
    <3>1. i + 1 \in 1..(Len(wire[s]) - 1)
      BY <1>1, <1>2
    <3>2. wire'[s][i] = wire[s][i + 1] /\ wire'[s][i + 1] = wire[s][(i + 1) + 1]
      BY <1>1, <1>2
    <3> QED
      BY <1>3, <3>1, <3>2 DEF Contiguous
  <2>3. WireEnd(s)' = WireEnd(s)
    <3>1. CASE wire'[s] = << >>
      BY <1>1, <1>2, <1>10, <3>1 DEF WireEnd
    <3>2. CASE wire'[s] # << >>
      <4>1. Len(wire'[s]) \in 1..Len(wire'[s])
        BY <1>1, <1>2, <3>2
      <4>2. wire'[s][Len(wire'[s])] = wire[s][Len(wire[s])]
        BY <1>1, <1>2, <4>1
      <4> QED
        BY <1>1, <3>2, <4>2 DEF WireEnd
    <3> QED
      BY <3>1, <3>2
  <2>4. WriterPos(s)' = WriterPos(s)
    BY <1>3 DEF WriterPos
  <2> QED
    BY <1>3, <2>1, <2>2, <2>3, <2>4 DEF Contiguous
<1>15. OneSending(s)'
  BY <1>3 DEF OneSending
<1> QED
  BY <1>11, <1>12, <1>13, <1>14, <1>15 DEF DirectionInv

\* The first segment of a TSDU: nobody else is inside Send, so the wire ends
\* where the TSDU starts.
LEMMA SendFirstStep ==
  ASSUME Uninterrupted, StreamInv, TypeOK',
         NEW s \in Side, NEW t \in Task, SendFirst(s, t)
  PROVE  StreamInv'
<1>1. PICK p \in Payload :
        /\ SendSegment(s, t, [data |-> p, num |-> Len(sent[s]) + 1, off |-> 0])
        /\ sent' = [sent EXCEPT ![s] = Append(@, p)]
  BY DEF SendFirst
<1> DEFINE r == [data |-> p, num |-> Len(sent[s]) + 1, off |-> 0]
<1>2. /\ TypeOK /\ t \notin sending[s] /\ sent[s] \in Seq(Payload)
      /\ phase' = phase /\ tsdu' = tsdu /\ rcvd' = rcvd
      /\ r \in Remainder /\ p \in Seq(Byte)
  BY PayloadAssumption, SMTT(60) DEF StreamInv, TypeOK, SendFirst, handshakeVars, Remainder
<1>3. sending[s] = {}
  <2>1. CASE OneTask
    BY <1>2, <2>1 DEF OneTask, TypeOK
  <2>2. CASE ~OneTask
    BY <2>2 DEF StreamInv, Unsegmented
  <2> QED
    BY <2>1, <2>2
<1>4. /\ sent'[s] = Append(sent[s], p)
      /\ \A u \in Side : u # s => sent'[u] = sent[u]
  BY <1>1, <1>2 DEF TypeOK
<1>5. /\ Len(sent[s]) \in Nat /\ Len(sent'[s]) = Len(sent[s]) + 1
      /\ sent'[s][Len(sent[s]) + 1] = p
      /\ \A k \in 1..Len(sent[s]) : sent'[s][k] = sent[s][k]
  <2>1. /\ Len(sent[s]) \in Nat /\ Len(Append(sent[s], p)) = Len(sent[s]) + 1
        /\ Append(sent[s], p)[Len(sent[s]) + 1] = p
        /\ \A k \in 1..Len(sent[s]) : Append(sent[s], p)[k] = sent[s][k]
    BY <1>2, AppendFacts
  <2> QED
    BY <1>4, <2>1
<1>6. PICK g \in Segment :
        /\ SegmentWritten(s, t, r, g)
        /\ \/ LastWritten(s, t, r, g)
           \/ /\ Len(r.data) > MaxChunk(tpduSizeCode[s])
              /\ \E q \in Remainder : MoreToWrite(s, t, r, g, q)
  BY <1>1, <1>2, SendSegmentEffect
<1>7. /\ r.num = Len(sent'[s])
      /\ Piece(sent'[s], r.num, r.off, r.data)
      /\ r.off + Len(r.data) = Len(sent'[s][r.num])
  <2>1. Len(p) \in Nat
    BY <1>2
  <2>2. \A i \in 1..Len(p) : p[i] = p[0 + i]
    BY <2>1
  <2> QED
    BY <1>5, <2>1, <2>2 DEF Piece
<1>8. WriterPos(s) = Pos(r.num, r.off)
  BY <1>3 DEF WriterPos
<1> HIDE DEF r
<1>9. DirectionInv(s)'
  <2>1. DirectionInv(s) /\ sending[s] \subseteq {t} /\ Len(sent[s]) <= Len(sent'[s])
    BY <1>3, <1>5 DEF StreamInv
  <2> QED
    BY <1>2, <1>5, <1>6, <1>7, <1>8, <2>1, SegmentStep
<1>10. /\ \A u \in Side : u # s => /\ wire'[u] = wire[u]
                                   /\ sending'[u] = sending[u]
                                   /\ rest'[u] = rest[u]
  BY <1>2, <1>6 DEF TypeOK, SegmentWritten, LastWritten, MoreToWrite
<1>11. ASSUME NEW u \in Side, u # s
       PROVE  DirectionInv(u)'
  BY <1>2, <1>4, <1>10, <1>11, DirectionUnchanged DEF StreamInv
<1>12. Integrity'
  <2> SUFFICES ASSUME NEW u \in Side
               PROVE  /\ Len(rcvd'[u]) <= Len(sent'[u])
                      /\ \A i \in 1..Len(rcvd'[u]) : rcvd'[u][i] = sent'[u][i]
    BY DEF Integrity
  <2>1. /\ Len(rcvd[u]) <= Len(sent[u]) /\ rcvd'[u] = rcvd[u]
        /\ \A i \in 1..Len(rcvd[u]) : rcvd[u][i] = sent[u][i]
    BY <1>2 DEF StreamInv, Integrity
  <2>2. CASE u # s
    BY <1>4, <2>1, <2>2
  <2>3. CASE u = s
    <3>1. Len(rcvd[s]) \in Nat
      BY <1>2 DEF TypeOK
    <3> QED
      BY <1>5, <2>1, <2>3, <3>1
  <2> QED
    BY <2>2, <2>3
<1>13. Unsegmented'
  <2> SUFFICES ASSUME ~OneTask, NEW u \in Side
               PROVE  sending'[u] = {}
    BY DEF Unsegmented
  <2>1. Len(r.data) <= MaxChunk(tpduSizeCode[s])
    BY <1>2 DEF Uninterrupted, NoSegmentation, TypeOK, r
  <2>2. Len(r.data) \in Nat /\ MaxChunk(tpduSizeCode[s]) \in Nat
    <3>1. tpduSizeCode[s] \in 2..15
      BY <1>2, SizeCodeAssumption DEF TypeOK
    <3>2. r.data = p
      BY DEF r
    <3>3. Len(p) \in Nat
      BY <1>2
    <3> QED
      BY <3>1, <3>2, <3>3, ChunkPositive
  <2>3. LastWritten(s, t, r, g)
    BY <1>6, <2>1, <2>2
  <2> QED
    BY <1>2, <2>3 DEF StreamInv, Unsegmented, LastWritten, TypeOK
<1> QED
  BY <1>9, <1>11, <1>12, <1>13 DEF StreamInv

\* A later segment: the wire ends where the remainder of this Send starts.
LEMMA SendNextStep ==
  ASSUME StreamInv, TypeOK', NEW s \in Side, NEW t \in Task, SendNext(s, t)
  PROVE  StreamInv'
<1> DEFINE r == rest[s][t]
<1>1. /\ TypeOK /\ t \in sending[s] /\ r \in Remainder
      /\ phase' = phase /\ tsdu' = tsdu /\ rcvd' = rcvd /\ sent' = sent
      /\ SendSegment(s, t, r)
  BY DEF StreamInv, TypeOK, SendNext, handshakeVars
<1>2. /\ sending[s] = {t}
      /\ RemainderTrue(sent[s], r)
  BY <1>1 DEF StreamInv, DirectionInv, OneSending
<1>3. PICK g \in Segment :
        /\ SegmentWritten(s, t, r, g)
        /\ \/ LastWritten(s, t, r, g)
           \/ \E q \in Remainder : MoreToWrite(s, t, r, g, q)
  BY <1>1, SendSegmentEffect
<1>4. WriterPos(s) = Pos(r.num, r.off)
  <2>1. (CHOOSE u \in sending[s] : TRUE) = t
    BY <1>2
  <2> QED
    BY <1>2, <2>1 DEF WriterPos, RemainderTrue
<1>5. /\ r.num = Len(sent'[s])
      /\ Piece(sent'[s], r.num, r.off, r.data)
      /\ r.off + Len(r.data) = Len(sent'[s][r.num])
  BY <1>1, <1>2 DEF RemainderTrue
<1>6. /\ DirectionInv(s) /\ sending[s] \subseteq {t}
      /\ Len(sent[s]) <= Len(sent'[s])
      /\ \A k \in 1..Len(sent[s]) : sent'[s][k] = sent[s][k]
  <2>1. Len(sent[s]) \in Nat
    BY <1>1 DEF TypeOK
  <2> QED
    BY <1>1, <1>2, <2>1 DEF StreamInv
<1> HIDE DEF r
<1>7. DirectionInv(s)'
  BY <1>1, <1>3, <1>4, <1>5, <1>6, SegmentStep
<1>8. /\ \A u \in Side : u # s => /\ wire'[u] = wire[u]
                                  /\ sending'[u] = sending[u]
                                  /\ rest'[u] = rest[u]
  BY <1>1, <1>3, ZenonT(60) DEF TypeOK, SegmentWritten, LastWritten, MoreToWrite
<1>9. ASSUME NEW u \in Side, u # s
      PROVE  DirectionInv(u)'
  BY <1>1, <1>8, <1>9, DirectionUnchanged DEF StreamInv
<1>10. Integrity'
  BY <1>1 DEF StreamInv, Integrity
<1>11. Unsegmented'
  BY <1>1 DEF StreamInv, Unsegmented
<1> QED
  BY <1>7, <1>9, <1>10, <1>11 DEF StreamInv

\* A Send that fails leaves the stream cut short, but then nobody reads it or
\* nobody writes to it any more.
LEMMA SendFailStep ==
  ASSUME StreamInv, TypeOK', NEW s \in Side, NEW t \in Task, SendFail(s, t)
  PROVE  StreamInv'
<1>1. /\ TypeOK /\ t \in sending[s]
      /\ phase' = phase /\ wire' = wire /\ tsdu' = tsdu /\ rcvd' = rcvd /\ sent' = sent
      /\ sending'[s] = sending[s] \ {t}
      /\ \A u \in Side : u # s => sending'[u] = sending[u] /\ rest'[u] = rest[u]
  BY DEF StreamInv, TypeOK, SendFail, handshakeVars
<1>2. sending'[s] = {}
  BY <1>1 DEF StreamInv, DirectionInv, OneSending
<1>3. phase[s] = "closed" \/ phase[Peer(s)] = "closed"
  BY DEF SendFail, Side, Peer
<1>4. DirectionInv(s)'
  <2>1. OneSending(s)'
    BY <1>2 DEF OneSending
  <2>2. ASSUME phase[Peer(s)] # "closed"
        PROVE  SegmentsTrue(s)' /\ Contiguous(s)' /\ ReaderTrue(s)'
    BY <1>1, <1>3, <2>2
       DEF StreamInv, DirectionInv, SegmentsTrue, Contiguous, ReaderTrue, ReaderPos
  <2> QED
    BY <1>1, <2>1, <2>2 DEF DirectionInv
<1>5. ASSUME NEW u \in Side, u # s
      PROVE  DirectionInv(u)'
  BY <1>1, <1>5, DirectionUnchanged DEF StreamInv
<1>6. Integrity'
  BY <1>1 DEF StreamInv, Integrity
<1>7. Unsegmented'
  BY <1>1 DEF StreamInv, Unsegmented
<1> QED
  BY <1>4, <1>5, <1>6, <1>7 DEF StreamInv

\* The initial state of a connection.
LEMMA StreamInit == Init => StreamInv
<1> SUFFICES ASSUME Init
             PROVE  StreamInv
  OBVIOUS
<1>1. TypeOK
  BY TypeInit
<1>2. /\ \A s \in Side : wire[s] = << >> /\ sending[s] = {} /\ tsdu[s] = << >>
      /\ \A s \in Side : sent[s] = << >> /\ rcvd[s] = << >>
  BY DEF Init
<1>3. ASSUME NEW s \in Side
      PROVE  DirectionInv(s)
  <2>1. OneSending(s) /\ ReaderTrue(s)
    BY <1>2 DEF OneSending, ReaderTrue
  <2>2. Len(wire[s]) = 0 /\ Len(rcvd[s]) = 0 /\ Len(sent[s]) = 0 /\ Len(tsdu[s]) = 0
    BY <1>2
  <2>3. SegmentsTrue(s)
    BY <2>2 DEF SegmentsTrue
  <2>4. WireEnd(s) = WriterPos(s)
    BY <1>2, <2>2 DEF WireEnd, WriterPos, ReaderPos
  <2>5. Contiguous(s)
    BY <1>2, <2>2, <2>4 DEF Contiguous
  <2> QED
    BY <2>1, <2>3, <2>5 DEF DirectionInv
<1>4. Integrity
  <2>1. \A s \in Side : Len(rcvd[s]) = 0 /\ Len(sent[s]) = 0
    BY <1>2
  <2> QED
    BY <2>1 DEF Integrity
<1>5. Unsegmented
  BY <1>2 DEF Unsegmented
<1> QED
  BY <1>1, <1>3, <1>4, <1>5 DEF StreamInv

\* Every step keeps the stream consecutive when Send is uninterrupted.
LEMMA StreamNext ==
  ASSUME Uninterrupted
  PROVE  StreamInv /\ [Next]_vars => StreamInv'
<1> SUFFICES ASSUME StreamInv, [Next]_vars
             PROVE  StreamInv'
  OBVIOUS
<1>0. TypeOK /\ TypeOK'
  BY TypeNext DEF StreamInv
<1>1. ASSUME wire' = wire, sending' = sending, rest' = rest, sent' = sent, rcvd' = rcvd,
             tsdu' = tsdu,
             \A s \in Side : phase'[s] # "closed" => phase[s] # "closed"
      PROVE  StreamInv'
  <2>1. ASSUME NEW s \in Side
        PROVE  DirectionInv(s)'
    <3>1. Peer(s) \in Side
      BY DEF Peer, Side
    <3> QED
      BY <1>1, <3>1, DirectionUnchanged DEF StreamInv
  <2>2. Integrity' /\ Unsegmented'
    BY <1>1 DEF StreamInv, Integrity, Unsegmented
  <2> QED
    BY <1>0, <2>1, <2>2 DEF StreamInv
<1>2. CASE SendCR
  BY <1>0, <1>1, <1>2 DEF SendCR, sendVars, Side, TypeOK
<1>3. CASE Accept
  BY <1>0, <1>1, <1>3 DEF Accept, sendVars, Side, TypeOK
<1>4. CASE ReadCC
  BY <1>0, <1>1, <1>4 DEF ReadCC, sendVars, Side, TypeOK
<1>5. ASSUME NEW s \in Side, NEW t \in Task,
             SendFirst(s, t) \/ SendNext(s, t) \/ SendFail(s, t)
      PROVE  StreamInv'
  BY <1>0, <1>5, SendFirstStep, SendNextStep, SendFailStep
<1>6. ASSUME NEW s \in Side, Receive(s)
      PROVE  StreamInv'
  <2>1. DirectionInv(s)' /\ Integrity'
    BY <1>0, <1>6, ReceiveStep
  <2>2. ASSUME NEW u \in Side, u # s
        PROVE  DirectionInv(u)'
    <3>1. /\ wire'[u] = wire[u] /\ tsdu'[u] = tsdu[u] /\ rcvd'[u] = rcvd[u]
          /\ phase' = phase /\ sending' = sending /\ rest' = rest /\ sent' = sent
      BY <1>0, <1>6, <2>2 DEF Receive, TypeOK, handshakeVars, sendVars
    <3> QED
      BY <3>1, DirectionUnchanged DEF StreamInv
  <2>3. Unsegmented'
    BY <1>6 DEF Receive, sendVars, StreamInv, Unsegmented
  <2> QED
    BY <1>0, <2>1, <2>2, <2>3 DEF StreamInv
<1>7. ASSUME NEW s \in Side, Close(s)
      PROVE  StreamInv'
  <2>1. /\ Peer(s) \in Side /\ Peer(Peer(s)) = s
        /\ \A u \in Side : u = s \/ u = Peer(s)
    BY DEF Peer, Side
  <2>2. /\ wire' = wire /\ sending' = sending /\ rest' = rest
        /\ sent' = sent /\ rcvd' = rcvd
        /\ phase'[s] = "closed"
        /\ \A u \in Side : u # s => phase'[u] = phase[u]
        /\ \A u \in Side : u # Peer(s) => tsdu'[u] = tsdu[u]
    BY <1>0, <1>7, <2>1 DEF Close, TypeOK, sendVars
  <2>3. Integrity' /\ Unsegmented'
    BY <2>2 DEF StreamInv, Integrity, Unsegmented
  <2>4. DirectionInv(Peer(s))'
    <3>1. OneSending(Peer(s))'
      BY <2>1, <2>2 DEF StreamInv, DirectionInv, OneSending
    <3> QED
      BY <2>1, <2>2, <3>1 DEF DirectionInv
  <2>5. ASSUME s # Peer(s)
        PROVE  DirectionInv(s)'
    <3>1. /\ tsdu'[s] = tsdu[s] /\ DirectionInv(s)
          /\ phase'[Peer(s)] # "closed" => phase[Peer(s)] # "closed"
      BY <2>1, <2>2, <2>5 DEF StreamInv
    <3> QED
      BY <2>2, <3>1, DirectionUnchanged
  <2>6. s # Peer(s)
    BY DEF Peer, Side
  <2>7. \A u \in Side : DirectionInv(u)'
    <3>1. TAKE u \in Side
    <3>2. CASE u = s
      BY <2>5, <2>6, <3>2
    <3>3. CASE u = Peer(s)
      BY <2>4, <3>3
    <3> QED
      BY <2>1, <3>2, <3>3
  <2> QED
    BY <1>0, <2>3, <2>7 DEF StreamInv
<1>8. CASE UNCHANGED vars
  BY <1>1, <1>8 DEF vars
<1> QED
  BY <1>2, <1>3, <1>4, <1>5, <1>6, <1>7, <1>8 DEF Next

\* The stream invariant holds of every connection whose Sends are
\* uninterrupted: one sending goroutine, or TSDUs of one segment.
THEOREM StreamCorrect ==
  ASSUME Uninterrupted
  PROVE  Spec => []StreamInv
BY StreamInit, StreamNext, PTL DEF Spec

\* Segmentation and reassembly deliver exactly the TSDUs sent, in order, for
\* every payload length, TPDU size and loss of the connection, as long as no
\* two goroutines interleave the segments of their Sends.
THEOREM IntegrityCorrect ==
  ASSUME Uninterrupted
  PROVE  Spec => []Integrity
<1>1. StreamInv => Integrity
  BY DEF StreamInv
<1> QED
  BY <1>1, StreamCorrect, PTL

-----------------------------------------------------------------------------
(* The connection implements the TSDU channel. *)

\* A Receive that returns delivers the next TSDU of the channel; one that goes
\* round its loop changes nothing the channel shows.
LEMMA ReceiveDelivers ==
  ASSUME StreamInv, StreamInv', NEW s \in Side, Receive(s)
  PROVE  Channel!Deliver(s) \/ UNCHANGED Channel!chanVars
<1>1. /\ sent' = sent /\ rcvd \in [Side -> Seq(Seq(Byte))]
      /\ rcvd[s] \in Seq(Seq(Byte)) /\ sent[s] \in Seq(Payload)
      /\ Head(wire[s]) \in Segment /\ tsdu[s] \in Seq(Byte)
  BY DEF Receive, sendVars, StreamInv, TypeOK
<1> DEFINE data == tsdu[s] \o Head(wire[s]).data
<1>2. data \in Seq(Byte)
  BY <1>1 DEF Segment
<1>3. \/ rcvd' = [rcvd EXCEPT ![s] = Append(@, data)]
      \/ rcvd' = rcvd
  BY <1>1 DEF Receive
<1> HIDE DEF data
<1>4. CASE rcvd' = [rcvd EXCEPT ![s] = Append(@, data)]
  <2>1. rcvd'[s] = Append(rcvd[s], data)
    BY <1>1, <1>4
  <2>2. /\ Len(rcvd[s]) \in Nat /\ Len(Append(rcvd[s], data)) = Len(rcvd[s]) + 1
        /\ Append(rcvd[s], data)[Len(rcvd[s]) + 1] = data
    BY <1>1, <1>2, AppendFacts
  <2>3. Len(rcvd'[s]) = Len(rcvd[s]) + 1 /\ rcvd'[s][Len(rcvd[s]) + 1] = data
    BY <2>1, <2>2
  <2>4. Len(sent[s]) \in Nat
    BY <1>1
  <2>5. /\ Len(rcvd'[s]) <= Len(sent[s])
        /\ \A i \in 1..Len(rcvd'[s]) : rcvd'[s][i] = sent[s][i]
    BY <1>1 DEF StreamInv, Integrity
  <2>6. Len(rcvd[s]) < Len(sent[s]) /\ data = sent[s][Len(rcvd[s]) + 1]
    BY <2>2, <2>3, <2>4, <2>5
  <2> QED
    BY <1>1, <1>4, <2>6 DEF Channel!Deliver
<1>5. CASE rcvd' = rcvd
  BY <1>1, <1>5 DEF Channel!chanVars
<1> QED
  BY <1>3, <1>4, <1>5

\* Seen through sent and rcvd, every step is a step of the channel or none.
LEMMA ChannelStep ==
  ASSUME StreamInv, StreamInv', [Next]_vars
  PROVE  [Channel!Next]_Channel!chanVars
<1>1. CASE SendCR \/ Accept \/ ReadCC
  BY <1>1 DEF SendCR, Accept, ReadCC, sendVars, Channel!chanVars
<1>2. ASSUME NEW s \in Side, NEW t \in Task, SendFirst(s, t)
      PROVE  Channel!Next
  BY <1>2 DEF SendFirst, Channel!Next, Channel!Submit
<1>3. ASSUME NEW s \in Side, NEW t \in Task, SendNext(s, t) \/ SendFail(s, t)
      PROVE  UNCHANGED Channel!chanVars
  BY <1>3 DEF SendNext, SendFail, Channel!chanVars
<1>4. ASSUME NEW s \in Side, Receive(s)
      PROVE  Channel!Next \/ UNCHANGED Channel!chanVars
  BY <1>4, ReceiveDelivers DEF Channel!Next
<1>5. ASSUME NEW s \in Side, Close(s)
      PROVE  UNCHANGED Channel!chanVars
  BY <1>5 DEF Close, sendVars, Channel!chanVars
<1>6. CASE UNCHANGED vars
  BY <1>6 DEF vars, Channel!chanVars
<1> QED
  BY <1>1, <1>2, <1>3, <1>4, <1>5, <1>6 DEF Next

\* A COTP connection with uninterrupted Sends implements the FIFO channel of
\* whole TSDUs that the session layer above it takes it for.
THEOREM ChannelCorrect ==
  ASSUME Uninterrupted
  PROVE  Spec => ChannelSpec
<1>1. Init => Channel!Init
  BY DEF Init, Channel!Init
<1>2. StreamInv /\ StreamInv' /\ [Next]_vars => [Channel!Next]_Channel!chanVars
  BY ChannelStep
<1>3. Spec => []StreamInv
  BY StreamCorrect
<1> QED
  BY <1>1, <1>2, <1>3, PTL DEF Spec, ChannelSpec, Channel!Spec

-----------------------------------------------------------------------------
(* The TPDU size. *)

\* Behind ServerHonoursSize: the CR carries the client's size, the server
\* writes nothing before it has negotiated, and from then on its size is at
\* most the client's.
SizeInv ==
  /\ TypeOK
  /\ offer["client"] \in {0, tpduSizeCode["client"]}
  /\ phase["server"] = "idle" => wire["server"] = << >>
  /\ phase["server"] = "open" \/ wire["server"] # << >> =>
       tpduSizeCode["server"] <= tpduSizeCode["client"]
  /\ \A i \in 1..Len(wire["server"]) :
       Len(wire["server"][i].data) <= MaxChunk(tpduSizeCode["server"])

\* A segment written by the server obeys the size the server has by then.
LEMMA SizeSend ==
  ASSUME SizeInv, NEW s \in Side, NEW t \in Task, NEW r \in Remainder,
         SendSegment(s, t, r), UNCHANGED handshakeVars, TypeOK'
  PROVE  SizeInv'
<1>1. PICK g \in Segment : SegmentWritten(s, t, r, g)
  BY SendSegmentEffect DEF SizeInv
<1>2. /\ offer' = offer /\ tpduSizeCode' = tpduSizeCode /\ phase' = phase
      /\ TypeOK /\ "server" \in Side /\ "client" \in Side
  BY DEF handshakeVars, SizeInv, Side
<1>3. CASE s # "server"
  <2>1. wire'["server"] = wire["server"]
    BY <1>1, <1>2, <1>3 DEF SegmentWritten, TypeOK
  <2> QED
    BY <1>2, <2>1 DEF SizeInv
<1>4. CASE s = "server"
  <2>1. /\ wire'[s] = Append(wire[s], g) /\ wire[s] \in Seq(Segment)
        /\ phase[s] = "open" /\ Len(g.data) <= MaxChunk(tpduSizeCode[s])
    BY <1>1, <1>2 DEF SegmentWritten, TypeOK
  <2>2. /\ Len(wire[s]) \in Nat /\ Len(wire'[s]) = Len(wire[s]) + 1
        /\ wire'[s][Len(wire[s]) + 1] = g
        /\ \A i \in 1..Len(wire[s]) : wire'[s][i] = wire[s][i]
    BY <2>1, AppendFacts
  <2>3. ASSUME NEW i \in 1..Len(wire'[s])
        PROVE  Len(wire'[s][i].data) <= MaxChunk(tpduSizeCode[s])
    <3>1. CASE i = Len(wire[s]) + 1
      BY <2>1, <2>2, <3>1
    <3>2. CASE i \in 1..Len(wire[s])
      BY <1>4, <2>2, <3>2 DEF SizeInv
    <3> QED
      BY <2>2, <3>1, <3>2
  <2> QED
    BY <1>2, <1>4, <2>1, <2>3 DEF SizeInv
<1> QED
  BY <1>3, <1>4

\* Every step keeps the size invariant.
LEMMA SizeNext == SizeInv /\ [Next]_vars => SizeInv'
<1> SUFFICES ASSUME SizeInv, [Next]_vars
             PROVE  SizeInv'
  OBVIOUS
<1>0. /\ TypeOK /\ TypeOK' /\ "server" \in Side /\ "client" \in Side
      /\ SizeCode \subseteq Int
  BY TypeNext, SizeCodeAssumption DEF SizeInv, Side
<1>1. CASE SendCR
  BY <1>0, <1>1 DEF SendCR, SizeInv, TypeOK, sendVars
<1>2. CASE Accept
  <2>1. offer["client"] = tpduSizeCode["client"]
    BY <1>2 DEF Accept, SizeInv
  <2>2. tpduSizeCode["server"] \in Int /\ tpduSizeCode["client"] \in Int
    BY <1>0 DEF TypeOK
  <2>3. parseCR(tpduSizeCode["server"], offer["client"]) <= tpduSizeCode["client"]
    BY <2>1, <2>2 DEF parseCR
  <2>4. /\ tpduSizeCode'["server"] = parseCR(tpduSizeCode["server"], offer["client"])
        /\ tpduSizeCode'["client"] = tpduSizeCode["client"]
        /\ offer'["client"] = 0 /\ phase'["server"] = "open"
        /\ wire'["server"] = << >>
    BY <1>0, <1>2 DEF Accept, SizeInv, TypeOK
  <2> QED
    BY <1>0, <2>3, <2>4 DEF SizeInv
<1>3. CASE ReadCC
  BY <1>0, <1>3 DEF ReadCC, parseCC, SizeInv, TypeOK, sendVars
<1>4. ASSUME NEW s \in Side, NEW t \in Task, SendFirst(s, t)
      PROVE  SizeInv'
  <2>1. PICK p \in Payload :
          SendSegment(s, t, [data |-> p, num |-> Len(sent[s]) + 1, off |-> 0])
    BY <1>4 DEF SendFirst
  <2>2. [data |-> p, num |-> Len(sent[s]) + 1, off |-> 0] \in Remainder
    BY <1>0, PayloadAssumption DEF Remainder, TypeOK
  <2> QED
    BY <1>0, <1>4, <2>1, <2>2, SizeSend DEF SendFirst
<1>5. ASSUME NEW s \in Side, NEW t \in Task, SendNext(s, t)
      PROVE  SizeInv'
  <2>1. rest[s][t] \in Remainder
    BY <1>0 DEF TypeOK
  <2> QED
    BY <1>0, <1>5, <2>1, SizeSend DEF SendNext
<1>6. ASSUME NEW s \in Side, NEW t \in Task, SendFail(s, t)
      PROVE  SizeInv'
  BY <1>0, <1>6 DEF SendFail, handshakeVars, SizeInv
<1>7. ASSUME NEW s \in Side, Receive(s)
      PROVE  SizeInv'
  <2>1. /\ offer' = offer /\ tpduSizeCode' = tpduSizeCode /\ phase' = phase
        /\ wire[s] \in Seq(Segment) /\ wire[s] # << >> /\ wire'[s] = Tail(wire[s])
        /\ s # "server" => wire'["server"] = wire["server"]
    BY <1>0, <1>7 DEF Receive, handshakeVars, TypeOK
  <2>2. CASE s # "server"
    BY <1>0, <2>1, <2>2 DEF SizeInv
  <2>3. CASE s = "server"
    <3>1. /\ Len(wire[s]) \in Nat /\ Len(Tail(wire[s])) = Len(wire[s]) - 1
          /\ \A i \in 1..Len(Tail(wire[s])) : Tail(wire[s])[i] = wire[s][i + 1]
      BY <2>1, TailFacts
    <3>2. ASSUME NEW i \in 1..Len(wire'[s])
          PROVE  Len(wire'[s][i].data) <= MaxChunk(tpduSizeCode[s])
      <4>1. i + 1 \in 1..Len(wire[s]) /\ wire'[s][i] = wire[s][i + 1]
        BY <2>1, <3>1
      <4> QED
        BY <2>3, <4>1 DEF SizeInv
    <3> QED
      BY <1>0, <2>1, <2>3, <3>2 DEF SizeInv
  <2> QED
    BY <2>2, <2>3
<1>8. ASSUME NEW s \in Side, Close(s)
      PROVE  SizeInv'
  BY <1>0, <1>8 DEF Close, SizeInv, TypeOK
<1>9. CASE UNCHANGED vars
  BY <1>0, <1>9 DEF vars, SizeInv
<1> QED
  BY <1>1, <1>2, <1>3, <1>4, <1>5, <1>6, <1>7, <1>8, <1>9 DEF Next

\* No segment the server writes is larger than the TPDU the client proposed,
\* for any two configured sizes and however many goroutines send.
THEOREM ServerSizeCorrect == Spec => []ServerHonoursSize
<1>1. Init => SizeInv
  <2> SUFFICES ASSUME Init
               PROVE  SizeInv
    OBVIOUS
  <2>1. /\ TypeOK /\ "server" \in Side /\ "client" \in Side
    BY TypeInit DEF Side
  <2>2. /\ wire["server"] = << >> /\ phase["server"] = "idle" /\ offer["client"] = 0
        /\ Len(wire["server"]) = 0
    BY <2>1 DEF Init
  <2> QED
    BY <2>1, <2>2 DEF SizeInv
<1>2. SizeInv => ServerHonoursSize
  <2> SUFFICES ASSUME SizeInv, NEW i \in 1..Len(wire["server"])
               PROVE  /\ Len(wire["server"][i].data) <= MaxChunk(tpduSizeCode["client"])
                      /\ Len(wire["server"][i].data) <= MaxChunk(tpduSizeCode["server"])
    BY DEF ServerHonoursSize
  <2>1. /\ TypeOK /\ "server" \in Side /\ "client" \in Side
    BY DEF SizeInv, Side
  <2>2. wire["server"] \in Seq(Segment) /\ wire["server"] # << >>
    <3>1. wire["server"] \in Seq(Segment)
      BY <2>1 DEF TypeOK
    <3>2. Len(wire["server"]) # 0
      BY <3>1
    <3> QED
      BY <3>1, <3>2, EmptySeq
  <2>3. wire["server"][i] \in Segment
    BY <2>2
  <2>4. Len(wire["server"][i].data) \in Nat
    BY <2>3 DEF Segment
  <2>5. tpduSizeCode["server"] \in 2..15 /\ tpduSizeCode["client"] \in 2..15
    BY <2>1, SizeCodeAssumption DEF TypeOK
  <2>6. MaxChunk(tpduSizeCode["server"]) <= MaxChunk(tpduSizeCode["client"])
    BY <2>2, <2>5, ChunkMonotone DEF SizeInv
  <2>7. Len(wire["server"][i].data) <= MaxChunk(tpduSizeCode["server"])
    BY DEF SizeInv
  <2>8. /\ MaxChunk(tpduSizeCode["server"]) \in Nat
        /\ MaxChunk(tpduSizeCode["client"]) \in Nat
    BY <2>5, ChunkPositive
  <2>9. ASSUME NEW len \in Nat, NEW c \in Nat, NEW d \in Nat, len <= c, c <= d
        PROVE  len <= d
    BY <2>9
  <2> QED
    BY <2>4, <2>6, <2>7, <2>8, <2>9
<1> QED
  BY <1>1, <1>2, SizeNext, PTL DEF Spec
=============================================================================
