-------------------------------- MODULE Ber --------------------------------
(***************************************************************************)
(* The Basic Encoding Rules of pkg/asn1ber: tags, lengths, integers, TLVs. *)
(*                                                                         *)
(* Octets are the integers 0..255 and a buffer is a sequence of octets.    *)
(* Positions count from 1 where the code's offsets count from 0.  A parser *)
(* returns a record whose field ok is FALSE where the code returns an      *)
(* error.  The module has no RECURSIVE operator: the code's loops over     *)
(* digits are recursive functions or folds.                                *)
(***************************************************************************)
EXTENDS Integers, SequencesExt

Universal == 0
Application == 64
Context == 128
Private == 192
Constructed == 32

(* An error, a slice past the end of a buffer, and a decoded value with    *)
(* the position after it.                                                  *)
Fail == [ok |-> FALSE, panic |-> FALSE]
Panic == [ok |-> FALSE, panic |-> TRUE]
Decoded(v, i) == [ok |-> TRUE, val |-> v, pos |-> i]

(* F(v); TLC evaluates v once, where a nested use of F would evaluate it   *)
(* at every mention.                                                       *)
With(v, F(_)) == CHOOSE r \in {F(x) : x \in {v}} : TRUE

(* p, and when it is no error the parser next on what it found.            *)
Then(p, next(_)) == With(p, LAMBDA r : IF r.ok THEN next(r.val) ELSE r)

(* The slice of n octets at i: Go panics when it leaves the buffer.        *)
Slice(buf, i, n) ==
  IF i + n > Len(buf) + 1 THEN Panic ELSE Decoded(SubSeq(buf, i, i + n - 1), i + n)

(* The digits of n to a base, most significant first; none for zero.       *)
Digits(base, n) ==
  LET d[m \in 0..n] ==
        IF m = 0 THEN <<>> ELSE Append(d[m \div base], m % base)
  IN d[n]

(* The number whose digits to a base are s, continuing from init.          *)
Number(base, init, s) ==
  LET to[k \in 0..Len(s)] == IF k = 0 THEN init ELSE to[k - 1] * base + s[k]
  IN to[Len(s)]

(* Base 128, the top bit set on every octet but the last.                  *)
Base128(n) ==
  LET s == Digits(128, n)
  IN [k \in DOMAIN s |-> IF k < Len(s) THEN s[k] + 128 ELSE s[k]]

EncodeTag(class, constructed, number) ==
  LET b == class + (IF constructed THEN Constructed ELSE 0)
  IN IF number < 31 THEN <<b + number>> ELSE <<b + 31>> \o Base128(number)

DecodeTag(buf, i) ==
  IF i > Len(buf) THEN Fail
  ELSE
    LET b == buf[i]
        low == b % 32
        ends == {j \in (i + 1)..Len(buf) : buf[j] < 128}
        last == Min(ends)
        tag(n) == [class |-> b - (b % 64),
                   constructed |-> (b \div 32) % 2 = 1,
                   number |-> n]
    IN CASE low < 31 -> Decoded(tag(low), i + 1)
         [] low = 31 /\ ends = {} -> Fail
         [] OTHER ->
              Decoded(tag(Number(128, 0, [k \in 1..(last - i) |-> buf[i + k] % 128])),
                      last + 1)

(* Lengths: one octet below 128, else a count and up to four octets.       *)
EncodeLength(length) ==
  IF length < 128 THEN <<length>>
  ELSE LET s == Digits(256, length) IN <<128 + Len(s)>> \o s

LengthSize(length) ==
  CASE length < 128 -> 1
    [] 128 <= length /\ length <= 255 -> 2
    [] 255 < length /\ length <= 65535 -> 3
    [] 65535 < length /\ length <= 16777215 -> 4
    [] OTHER -> 5

(* The long form is accepted for the numbers of octets in counts; each     *)
(* layer has a decoder of its own with other counts.                       *)
LengthAmong(counts, buf, i) ==
  IF i > Len(buf) THEN Fail
  ELSE LET b == buf[i]
           n == b - 128
       IN CASE b < 128 -> Decoded(b, i + 1)
            [] b >= 128 /\ (n \notin counts \/ i + n > Len(buf)) -> Fail
            [] OTHER -> Decoded(Number(256, 0, SubSeq(buf, i + 1, i + n)), i + n + 1)

DecodeLength(buf, i) == LengthAmong(1..4, buf, i)

EncodeTLV(class, constructed, tag, value) ==
  With(value, LAMBDA v :
    EncodeTag(class, constructed, tag) \o EncodeLength(Len(v)) \o v)

ParseTLV(buf, i) ==
  With(DecodeTag(buf, i), LAMBDA t :
    IF ~t.ok THEN Fail
    ELSE With(DecodeLength(buf, t.pos), LAMBDA l :
           IF ~l.ok \/ l.pos + l.val > Len(buf) + 1 THEN Fail
           ELSE Decoded([class |-> t.val.class, constructed |-> t.val.constructed,
                         tag |-> t.val.number,
                         value |-> SubSeq(buf, l.pos, l.pos + l.val - 1)],
                        l.pos + l.val)))

(* Every TLV of buf, from the first octet to the last.                     *)
ParseAll(buf) ==
  LET from[i \in 1..(Len(buf) + 1)] ==
        IF i > Len(buf) THEN [ok |-> TRUE, tlvs |-> <<>>]
        ELSE LET one == ParseTLV(buf, i) IN
             IF ~one.ok THEN Fail
             ELSE LET rest == from[one.pos] IN
                  IF ~rest.ok THEN Fail
                  ELSE [ok |-> TRUE, tlvs |-> <<one.val>> \o rest.tlvs]
  IN from[1]

(* The TLVs of buf up to the first that does not parse, where the loops    *)
(* that end with break leave off.                                          *)
TLVsOf(buf) ==
  LET from[i \in 1..(Len(buf) + 1)] ==
        IF i > Len(buf) THEN <<>>
        ELSE With(ParseTLV(buf, i), LAMBDA one :
               IF one.ok THEN <<one.val>> \o from[one.pos] ELSE <<>>)
  IN from[1]

EncodeBoolean(v) == EncodeTLV(Universal, FALSE, 1, <<IF v THEN 255 ELSE 0>>)

DecodeBoolean(content) ==
  IF content = <<>> THEN Fail ELSE Decoded(content[1] # 0, 2)

(* The octets of v down to the sign: what the loop tmp >>= 8 collects.     *)
SignedDigits(v) ==
  LET d[m \in Int] ==
        IF m \in {0, -1} THEN <<>> ELSE Append(d[m \div 256], m % 256)
  IN d[v]

(* The sign octet is forgotten for positive numbers.                       *)
MutEncodeIntegerBytes(v) ==
  LET out == SignedDigits(v) IN
  CASE out = <<>> -> <<v % 256>>
    [] v < 0 /\ out # <<>> /\ out[1] < 128 -> <<255>> \o out
    [] OTHER -> out

encodeIntegerBytes(v) ==
  LET out == SignedDigits(v) IN
  CASE out = <<>> -> <<v % 256>>
    [] v < 0 /\ out # <<>> /\ out[1] < 128 -> <<255>> \o out
    [] v >= 0 /\ out # <<>> /\ out[1] >= 128 -> <<0>> \o out
    [] OTHER -> out

DecodeInteger(content) ==
  IF content = <<>> THEN Fail
  ELSE Decoded(Number(256, IF content[1] >= 128 THEN -1 ELSE 0, content),
               Len(content) + 1)

DecodeUint32(content) ==
  IF Len(content) \notin 1..5 THEN Fail
  ELSE Decoded(Number(256, 0, content), Len(content) + 1)

(* The content of EncodeUnsigned: no leading zeros but for a sign octet.   *)
UnsignedBytes(v) ==
  LET s == IF v = 0 THEN <<0>> ELSE Digits(256, v)
  IN IF s[1] >= 128 THEN <<0>> \o s ELSE s

(* The content of EncodeBigInt: the magnitude, complemented octet by octet *)
(* with a carry from the right when the number is negative.                *)
BigIntBytes(v) ==
  LET mag == Digits(256, IF v < 0 THEN -v ELSE v)
      carry(k) == IF \A j \in (k + 1)..Len(mag) : mag[j] = 0 THEN 1 ELSE 0
      neg == [k \in DOMAIN mag |-> (255 - mag[k] + carry(k)) % 256]
  IN CASE v = 0 -> <<0>>
       [] v < 0 -> IF neg[1] < 128 THEN <<255>> \o neg ELSE neg
       [] v > 0 -> IF mag[1] >= 128 THEN <<0>> \o mag ELSE mag
=============================================================================
