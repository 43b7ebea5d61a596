----------------------------- MODULE GooseFrame -----------------------------
(***************************************************************************)
(* One GOOSE message from EncodeGOOSEFrame through the raw sockets and the *)
(* Ethernet between them to handleFrame and DecodeGOOSEFrame (pkg/goose),  *)
(* octet for octet.                                                        *)
(*                                                                         *)
(* The network may pad a frame to the minimum size or cut it short; the    *)
(* receiving socket reads at most its buffer.                              *)
(***************************************************************************)
EXTENDS MmsValue

CONSTANTS
  Pdus,        \* a sequence of the GOOSE PDUs that may be published
  Addresses,   \* the PhyComAddress parameters of the publisher
  Qualities,   \* quality flags to be carried as bit strings
  Cuts,        \* lengths to which the network may cut a frame
  Padding      \* octets the network may add to a frame

ASSUME /\ \A q \in Qualities : q \in 0..8191
       /\ Cuts \subseteq Nat
       /\ Padding \in Nat

VARIABLES
  pdu, comm, quality,   \* what is published
  wire,                 \* the frame, or <<>> before it is sent
  network,              \* "unsent", "whole", "padded" or "cut"
  got                   \* what handleFrame made of it; None before

vars == <<pdu, comm, quality, wire, network, got>>

None == [ok |-> FALSE, panic |-> FALSE, none |-> TRUE]

RecvBuffer == 4096

(* encodeUint32Minimal is UnsignedBytes, encodeCtx a context TLV.          *)
EncodePDU(p) ==
  LET ctx(n, c) == EncodeTLV(Context, FALSE, n, c)
      num(n, v) == ctx(n, UnsignedBytes(v))
      flag(n, b) == ctx(n, <<Bit(b, 255)>>)
  IN EncodeTLV(Application, TRUE, 1,
       ctx(0, p.goCBRef) \o num(1, p.timeAllowedToLive) \o ctx(2, p.dataSet)
       \o (IF p.goID = <<>> THEN <<>> ELSE ctx(3, p.goID))
       \o ctx(4, encodeUTCTime(p.t)) \o num(5, p.stNum) \o num(6, p.sqNum)
       \o flag(7, p.test) \o num(8, p.confRev) \o flag(9, p.ndsCom)
       \o num(10, p.numDatSetEntries)
       \o EncodeTLV(Context, TRUE, 11, encodeElements(p.allData)))

EncodeGOOSEFrame(c, p) ==
  With(EncodePDU(p), LAMBDA b :
    c.dst \o c.src
    \o (IF c.vlanID # 0 \/ c.vlanPriority # 0
        THEN <<129, 0>> \o Fixed(2, c.vlanPriority * 8192 + c.vlanID) ELSE <<>>)
    \o <<136, 184>> \o Fixed(2, c.appID) \o Fixed(2, 8 + Len(b))
    \o <<0, 0, 0, 0>> \o b)

(* decodeUint32 drops what does not fit 32 bits; the model's numbers do.   *)
decodeUint32(content) == Number(256, 0, content)

(* The fields of a body: of several with a tag the last counts, of none    *)
(* the zero value.                                                         *)
PduOf(tlvs) ==
  LET at(n) == {k \in DOMAIN tlvs : tlvs[k].class = Context /\ tlvs[k].tag = n}
      content(n) == IF at(n) = {} THEN <<>> ELSE tlvs[Max(at(n))].value
      flag(n) == content(n) # <<>> /\ Head(content(n)) # 0
      time == decodeUTCTime(content(4))
      data == decodeElements(content(11))
  IN IF ~data.ok THEN Fail
     ELSE Decoded(
       [goCBRef |-> content(0), timeAllowedToLive |-> decodeUint32(content(1)),
        dataSet |-> content(2), goID |-> content(3),
        t |-> IF time.ok THEN time.val ELSE UTCTime(0, 0, 0, 0),
        stNum |-> decodeUint32(content(5)), sqNum |-> decodeUint32(content(6)),
        test |-> flag(7), confRev |-> decodeUint32(content(8)),
        ndsCom |-> flag(9), numDatSetEntries |-> decodeUint32(content(10)),
        allData |-> data.vals], 1)

DecodePDU(buf) ==
  IF Len(buf) < 2 \/ buf[1] # 97 THEN Fail
  ELSE With(DecodeLength(buf, 2), LAMBDA l :
         IF ~l.ok THEN Fail
         ELSE IF l.pos + l.val > Len(buf) + 1 THEN Fail
         ELSE With(ParseAll(SubSeq(buf, l.pos, l.pos + l.val - 1)), LAMBDA all :
                IF all.ok THEN PduOf(all.tlvs) ELSE Fail))

(* The length field must be that of the frame.                             *)
MutDecodeGOOSEFrame(buf) ==
  IF Len(buf) < 8 THEN Fail
  ELSE LET totalLen == buf[3] * 256 + buf[4] IN
       IF totalLen # Len(buf) THEN Fail
       ELSE With(DecodePDU(SubSeq(buf, 9, totalLen)), LAMBDA p :
              IF p.ok THEN Decoded([appID |-> buf[1] * 256 + buf[2], pdu |-> p.val], 1)
              ELSE Fail)

DecodeGOOSEFrame(buf) ==
  IF Len(buf) < 8 THEN Fail
  ELSE LET totalLen == buf[3] * 256 + buf[4] IN
       IF totalLen < 8 \/ totalLen > Len(buf) THEN Fail
       ELSE With(DecodePDU(SubSeq(buf, 9, totalLen)), LAMBDA p :
              IF p.ok THEN Decoded([appID |-> buf[1] * 256 + buf[2], pdu |-> p.val], 1)
              ELSE Fail)

(* handleFrame up to the call of dispatch.                                 *)
handleFrame(frame) ==
  IF Len(frame) < 14 THEN Fail
  ELSE LET type(i) == frame[i] * 256 + frame[i + 1]
           vlan == type(13) = 33024
       IN IF vlan /\ 18 > Len(frame) THEN Fail
          ELSE LET at == IF vlan THEN 17 ELSE 13
               IN IF type(at) # 35000 THEN Fail
                  ELSE With(SubSeq(frame, at + 2, Len(frame)), DecodeGOOSEFrame)

Init ==
  /\ quality \in Qualities
  /\ \E k \in DOMAIN Pdus :
       pdu = [Pdus[k] EXCEPT !.allData = Append(@, NewQuality(quality))]
  /\ comm \in Addresses
  /\ wire = <<>>
  /\ network = "unsent"
  /\ got = None

(* Publish: the frame goes to the socket.                                  *)
Send ==
  /\ network = "unsent"
  /\ wire' = EncodeGOOSEFrame(comm, pdu)
  /\ network' = "whole"
  /\ UNCHANGED <<pdu, comm, quality, got>>

Pad ==
  /\ network = "whole" /\ got = None
  /\ wire' = wire \o [k \in 1..Padding |-> 0]
  /\ network' = "padded"
  /\ UNCHANGED <<pdu, comm, quality, got>>

Cut(n) ==
  /\ network = "whole" /\ got = None
  /\ n < Len(wire)
  /\ wire' = SubSeq(wire, 1, n)
  /\ network' = "cut"
  /\ UNCHANGED <<pdu, comm, quality, got>>

(* rawRecvLoop: Recvfrom into the buffer, and handleFrame when it read     *)
(* anything.                                                               *)
Receive ==
  /\ network # "unsent" /\ got = None
  /\ wire # <<>>
  /\ got' = With(SubSeq(wire, 1, Min({Len(wire), RecvBuffer})), handleFrame)
  /\ UNCHANGED <<pdu, comm, quality, wire, network>>

Next == Send \/ Pad \/ Receive \/ \E n \in Cuts : Cut(n)

Spec == Init /\ [][Next]_vars
-----------------------------------------------------------------------------
Published ==
  [appID |-> comm.appID,
   pdu |-> [pdu EXCEPT !.t.accuracy = 0,
                       !.allData = [k \in DOMAIN @ |-> OnTheWire(@[k])]]]

(* What a receiver decodes from a frame, whole, padded, cut by the network *)
(* or by the 4096 octets of rawRecvLoop, is the published message: every   *)
(* field, every data set value, and the application identifier; or it is   *)
(* nothing.  A length field that wrapped at 65536 is no exception.  The    *)
(* quality flags a subscriber reads from the last value are the ones       *)
(* NewQuality was given, although the octets are reversed on the wire.     *)
GooseExact ==
  got.ok =>
    /\ got.val = Published
    /\ QualityFromValue(got.val.pdu.allData[Len(got.val.pdu.allData)]) = quality

(* A message that reaches the receiver whole and fits its buffer is        *)
(* decoded, with or without a VLAN tag and whatever the Ethernet padding.  *)
GooseDelivered ==
  (network \in {"whole", "padded"} /\ got # None /\ Len(wire) <= RecvBuffer) => got.ok

(* The BER primitives on the numbers of the message, in both signs: the    *)
(* integer encoding decodes to its number, agrees with EncodeBigInt, is    *)
(* the shortest, and is refused when cut; lengths and tags of that size    *)
(* decode to themselves, and LengthSize counts the octets.                 *)
BerExact ==
  \A n \in {pdu.stNum, -pdu.stNum, pdu.sqNum} :
    LET c == encodeIntegerBytes(n)
        tlv == EncodeTLV(Universal, FALSE, 2, c)
        m == IF n < 0 THEN -n ELSE n
        tag == EncodeTag(Application, TRUE, m)
    IN /\ DecodeInteger(c).val = n
       /\ c = BigIntBytes(n)
       /\ Len(c) > 1 => DecodeInteger(Tail(c)).val # n
       /\ n >= 0 => DecodeUint32(UnsignedBytes(n)).val = n
       /\ ParseTLV(tlv, 1).val.value = c
       /\ \A k \in 0..(Len(tlv) - 1) : ~ParseTLV(SubSeq(tlv, 1, k), 1).ok
       /\ DecodeLength(EncodeLength(m), 1).val = m
       /\ LengthSize(m) = Len(EncodeLength(m))
       /\ DecodeTag(tag, 1) = Decoded([class |-> Application, constructed |-> TRUE,
                                       number |-> m], Len(tag) + 1)
=============================================================================
