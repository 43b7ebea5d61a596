------------------------------ MODULE MmsValue ------------------------------
(***************************************************************************)
(* MMS values and their octets: Value of pkg/mms/types.go, EncodeValue and *)
(* DecodeValue of pkg/mms/encode.go, and the quality bit string.           *)
(*                                                                         *)
(* A value is a record with its type and what the type needs.  Strings are *)
(* sequences of octets.  A float is given by the octets of its IEEE 754    *)
(* form, four when float32 holds it exactly and eight otherwise: the test  *)
(* float64(float32(v)) = v is thereby made when the value is chosen.       *)
(***************************************************************************)
EXTENDS Ber

Atom(t, x) == [typ |-> t, v |-> x]
NewBoolean(b) == Atom("boolean", b)
NewInteger(n) == Atom("integer", n)
NewUnsigned(n) == Atom("unsigned", n)
NewBitString(octets, n) == [typ |-> "bitString", v |-> octets, size |-> n]
NewStructure(members) == Atom("structure", members)
NewArray(elements) == Atom("array", elements)
NewDataAccessError(code) == Atom("dataAccessError", code)

(* A number in w octets, most significant first.                           *)
Fixed(w, n) == [k \in 1..w |-> (n \div 256^(w - k)) % 256]

Bit(b, weight) == IF b THEN weight ELSE 0

encodeUTCTime(t) ==
  Fixed(4, t.seconds) \o Fixed(3, t.fractions)
    \o <<Bit(t.leapKnown, 128) + Bit(t.failure, 64) + Bit(t.notSynchronized, 32)>>

UTCTime(s, f, q, accuracy) ==
  [seconds |-> s, fractions |-> f, leapKnown |-> q \div 128 = 1,
   failure |-> (q \div 64) % 2 = 1, notSynchronized |-> (q \div 32) % 2 = 1,
   accuracy |-> accuracy]

decodeUTCTime(buf) ==
  IF Len(buf) < 8 THEN Fail
  ELSE Decoded(UTCTime(Number(256, 0, SubSeq(buf, 1, 4)),
                       Number(256, 0, SubSeq(buf, 5, 7)), buf[8], buf[8] % 32), 9)

encodeBinaryTime(t) ==
  Fixed(4, t.milliseconds) \o (IF t.size = 6 THEN Fixed(2, t.days) ELSE <<>>)

decodeBinaryTime(buf) ==
  CASE Len(buf) = 4 -> Decoded([milliseconds |-> Number(256, 0, buf), days |-> 0,
                                size |-> 4], 5)
    [] Len(buf) = 6 -> Decoded([milliseconds |-> Number(256, 0, SubSeq(buf, 1, 4)),
                                days |-> Number(256, 0, SubSeq(buf, 5, 6)),
                                size |-> 6], 7)
    [] OTHER -> Fail

(* A bit string of |size| bits: the count of unused bits, then the octets, *)
(* cut or filled up with zeros.                                            *)
encodeBitString(v) ==
  LET size == IF v.size < 0 THEN -v.size ELSE v.size
      n == (size + 7) \div 8
  IN <<8 * n - size>> \o [k \in 1..n |-> IF k <= Len(v.v) THEN v.v[k] ELSE 0]

(* The unused bits are counted in the wrong direction.                     *)
MutDecodeBitString(content) ==
  IF content = <<>> THEN NewBitString(<<>>, 0)
  ELSE NewBitString(Tail(content), 8 * (Len(content) - 1) + Head(content))

decodeBitString(content) ==
  IF content = <<>> THEN NewBitString(<<>>, 0)
  ELSE NewBitString(Tail(content), 8 * (Len(content) - 1) - Head(content))

TagOf ==
  [boolean |-> 131, bitString |-> 132, integer |-> 133, unsigned |-> 134,
   float |-> 135, octetString |-> 137, visibleString |-> 138, binaryTime |-> 140,
   string |-> 144, utcTime |-> 145, array |-> 161, structure |-> 162,
   dataAccessError |-> 128]

RECURSIVE EncodeValue(_), DecodeValue(_, _)

encodeElements(elements) ==
  FoldLeft(LAMBDA acc, e : acc \o EncodeValue(e), <<>>, elements)

(* encodeUnsignedContent is UnsignedBytes: no leading zeros, a sign octet. *)
Content(v) ==
  CASE v.typ = "boolean" -> <<Bit(v.v, 255)>>
    [] v.typ = "integer" -> encodeIntegerBytes(v.v)
    [] v.typ = "unsigned" -> UnsignedBytes(v.v)
    [] v.typ = "float" -> <<IF Len(v.v) = 4 THEN 8 ELSE 11>> \o v.v
    [] v.typ = "bitString" -> encodeBitString(v)
    [] v.typ = "utcTime" -> encodeUTCTime(v.v)
    [] v.typ = "binaryTime" -> encodeBinaryTime(v.v)
    [] v.typ \in {"array", "structure"} -> encodeElements(v.v)
    [] v.typ = "dataAccessError" -> <<v.v>>
    [] OTHER -> v.v

EncodeValue(v) ==
  With(Content(v), LAMBDA c : <<TagOf[v.typ]>> \o EncodeLength(Len(c)) \o c)

decodeElements(buf) ==
  LET from[i \in Nat] ==
        IF i > Len(buf) THEN [ok |-> TRUE, vals |-> <<>>]
        ELSE With(DecodeValue(buf, i), LAMBDA one :
               IF ~one.ok THEN Fail
               ELSE With(from[one.pos], LAMBDA rest :
                      IF rest.ok THEN [ok |-> TRUE, vals |-> <<one.val>> \o rest.vals]
                      ELSE Fail))
  IN from[1]

(* The value of a content under a tag; the DataAccessError tag is unknown. *)
ValueOf(tag, c) ==
  LET typs == {t \in DOMAIN TagOf \ {"dataAccessError"} : TagOf[t] = tag}
      t == CHOOSE x \in typs : TRUE
      map(r) == IF r.ok THEN Decoded(Atom(t, r.val), 1) ELSE Fail
  IN IF typs = {} THEN Fail ELSE
     CASE t = "boolean" -> map(DecodeBoolean(c))
       [] t = "integer" -> map(DecodeInteger(c))
       [] t = "unsigned" -> Decoded(NewUnsigned(Number(256, 0, c)), 1)
       [] t = "float" -> IF Len(c) \in {5, 9} THEN Decoded(Atom(t, Tail(c)), 1) ELSE Fail
       [] t = "bitString" -> Decoded(decodeBitString(c), 1)
       [] t = "utcTime" -> map(decodeUTCTime(c))
       [] t = "binaryTime" -> map(decodeBinaryTime(c))
       [] t \in {"array", "structure"} ->
            With(decodeElements(c), LAMBDA r :
              IF r.ok THEN Decoded(Atom(t, r.vals), 1) ELSE Fail)
       [] OTHER -> Decoded(Atom(t, c), 1)

DecodeValue(buf, i) ==
  With(DecodeLength(buf, i + 1), LAMBDA l :
    IF i > Len(buf) \/ ~l.ok THEN Fail
    ELSE IF l.pos + l.val > Len(buf) + 1 THEN Fail
    ELSE With(ValueOf(buf[i], SubSeq(buf, l.pos, l.pos + l.val - 1)), LAMBDA v :
           IF v.ok THEN Decoded(v.val, l.pos + l.val) ELSE Fail))

(* What a value is after it was encoded and decoded: EncodeValue writes    *)
(* neither the sign of a bit string's size, which says that the size is    *)
(* fixed, nor the accuracy class of a time stamp.                          *)
RECURSIVE OnTheWire(_)
OnTheWire(v) ==
  CASE v.typ = "bitString" -> [v EXCEPT !.size = IF @ < 0 THEN -@ ELSE @]
    [] v.typ = "utcTime" -> [v EXCEPT !.v.accuracy = 0]
    [] v.typ \in {"array", "structure"} ->
         [v EXCEPT !.v = [k \in DOMAIN @ |-> OnTheWire(@[k])]]
    [] OTHER -> v

(* Quality: bit n of the number is bit n of the bit string, so the octets  *)
(* are reversed.                                                           *)
Reverse8(b) == Number(2, 0, [k \in 1..8 |-> (b \div 2^(k - 1)) % 2])

NewQuality(q) == NewBitString(<<Reverse8(q % 256), Reverse8((q \div 256) % 256)>>, 13)

QualityFromValue(v) ==
  IF v.typ # "bitString" \/ v.v = <<>> THEN 0
  ELSE Reverse8(v.v[1]) + (IF Len(v.v) > 1 THEN 256 * Reverse8(v.v[2]) ELSE 0)
=============================================================================
