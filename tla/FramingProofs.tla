--------------------------- MODULE FramingProofs ----------------------------
(***************************************************************************)
(* What the framing of a data PDU computes: lemmas about the length        *)
(* octets, the search for an element and the blocks of ISO presentation,   *)
(* for buffers of any content and length. Lengths are read by a recursive  *)
(* function and elements are found by another; both are shown to exist by  *)
(* induction on sets of naturals, which the least-element theorem for <    *)
(* gives.                                                                  *)
(***************************************************************************)
EXTENDS Framing, TLAPS, WellFoundedInduction

(* Induction on the naturals as a fact about sets: the least element of a  *)
(* complement has no predecessor outside the set.                          *)
LEMMA SetInduction ==
  ASSUME NEW S \in SUBSET Nat, 0 \in S, \A n \in S : n + 1 \in S
  PROVE  S = Nat
<1> SUFFICES ASSUME Nat \ S # {} PROVE FALSE
  OBVIOUS
<1>1. PICK x \in Nat \ S : \A y \in Nat \ S : ~(<<y, x>> \in OpToRel(<, Nat))
  <2>1. Nat \ S \subseteq Nat
    OBVIOUS
  <2> QED
    BY <2>1, NatLessThanWellFounded, WFMin, Zenon
<1>2. x - 1 \in Nat \ S
  <2>1. x # 0 /\ x - 1 \in Nat
    OBVIOUS
  <2> QED
    BY <2>1
<1>3. <<x - 1, x>> \in OpToRel(<, Nat)
  BY <1>2 DEF OpToRel
<1> QED
  BY <1>1, <1>2, <1>3, Zenon

(* A recursion on Nat that stops in halt with value h, goes on at g[j] > j *)
(* otherwise, and has stopped at end.                                      *)
Progress(end, halt, X, h, g) ==
  /\ end \in Nat /\ halt \in SUBSET Nat /\ h \in [Nat -> X] /\ g \in [Nat -> Nat]
  /\ \A j \in Nat : j >= end => j \in halt
  /\ \A j \in Nat \ halt : g[j] > j

(* Such a recursion has a solution.                                        *)
Solvable(halt, X, h, g) ==
  \E f \in [Nat -> X] : \A j \in Nat : f[j] = IF j \in halt THEN h[j] ELSE f[g[j]]

(* A recursive function whose argument grows until a bound exists: by      *)
(* induction on the distance to the bound.                                 *)
LEMMA ForwardRecursion ==
  ASSUME NEW end, NEW halt, NEW X, NEW h, NEW g, Progress(end, halt, X, h, g)
  PROVE  Solvable(halt, X, h, g)
<1> USE DEF Progress
<1> DEFINE Good(f, n) ==
             \A j \in Nat : j + n >= end => f[j] = IF j \in halt THEN h[j] ELSE f[g[j]]
           S == {n \in Nat : \E f \in [Nat -> X] : Good(f, n)}
<1>1. 0 \in S
  <2>1. Good(h, 0)
    OBVIOUS
  <2> QED
    BY <2>1
<1>2. ASSUME NEW n \in S PROVE n + 1 \in S
  <2>1. PICK f \in [Nat -> X] : Good(f, n)
    OBVIOUS
  <2> DEFINE e == [j \in Nat |-> IF j + n >= end THEN f[j]
                                 ELSE IF j \in halt THEN h[j] ELSE f[g[j]]]
  <2>2. e \in [Nat -> X]
    OBVIOUS
  <2>3. Good(e, n + 1)
    <3> SUFFICES ASSUME NEW j \in Nat, j + (n + 1) >= end
                 PROVE  e[j] = IF j \in halt THEN h[j] ELSE e[g[j]]
      OBVIOUS
    <3>1. e[j] = IF j \in halt THEN h[j] ELSE f[g[j]]
      BY <2>1
    <3>2. j \notin halt => g[j] \in Nat /\ g[j] + n >= end
      OBVIOUS
    <3>3. j \notin halt => e[g[j]] = f[g[j]]
      BY <3>2
    <3> QED
      BY <3>1, <3>3
  <2>4. n + 1 \in Nat
    OBVIOUS
  <2> HIDE DEF e, Good
  <2> QED
    BY <2>2, <2>3, <2>4
<1>3. end \in S
  <2>1. S \in SUBSET Nat
    OBVIOUS
  <2> HIDE DEF S
  <2> QED
    BY <1>1, <1>2, <2>1, SetInduction
<1>4. PICK f \in [Nat -> X] : Good(f, end)
  BY <1>3
<1>5. \A j \in Nat : j + end >= end
  OBVIOUS
<1> QED
  BY <1>4, <1>5 DEF Solvable

(* An octet.                                                               *)
Octet == 0..255

(* The recursive function in Number exists: base 256, by induction on the  *)
(* number of digits.                                                       *)
LEMMA NumberRecursion ==
  ASSUME NEW s \in Seq(Nat)
  PROVE  \E f \in [0..Len(s) -> Nat] :
           /\ \A k \in 0..Len(s) : f[k] = IF k = 0 THEN 0 ELSE f[k - 1] * 256 + s[k]
           /\ Number(256, 0, s) = f[Len(s)]
<1> DEFINE N == Len(s)
           Good(f, n) == \A k \in 0..n : f[k] = IF k = 0 THEN 0 ELSE f[k - 1] * 256 + s[k]
           S == {n \in Nat : n <= N => \E f \in [0..n -> Nat] : Good(f, n)}
<1>0. N \in Nat /\ \A k \in 1..N : s[k] \in Nat
  OBVIOUS
<1> HIDE DEF N
<1>1. 0 \in S
  <2> DEFINE f == [k \in 0..0 |-> 0]
  <2>1. f \in [0..0 -> Nat] /\ Good(f, 0)
    OBVIOUS
  <2> QED
    BY <2>1, ZenonT(60)
<1>2. ASSUME NEW n \in S PROVE n + 1 \in S
  <2>0. n \in Nat /\ n + 1 \in Nat
    OBVIOUS
  <2>1. SUFFICES ASSUME n + 1 <= N PROVE \E f \in [0..(n + 1) -> Nat] : Good(f, n + 1)
    BY <2>0
  <2>2. PICK f \in [0..n -> Nat] : Good(f, n)
    BY <2>0, <2>1, <1>0, SMTT(60)
  <2> DEFINE e == [k \in 0..(n + 1) |-> IF k <= n THEN f[k] ELSE f[n] * 256 + s[n + 1]]
  <2>3. s[n + 1] \in Nat /\ f[n] \in Nat /\ f[n] * 256 + s[n + 1] \in Nat
    BY <2>0, <2>1, <1>0, SMTT(60)
  <2>4. e \in [0..(n + 1) -> Nat]
    BY <2>0, <2>3
  <2>5. Good(e, n + 1)
    <3> SUFFICES ASSUME NEW k \in 0..(n + 1)
                 PROVE  e[k] = IF k = 0 THEN 0 ELSE e[k - 1] * 256 + s[k]
      OBVIOUS
    <3>1. CASE k <= n
      <4>1. e[k] = f[k] /\ k \in 0..n
        BY <2>0, <3>1
      <4>2. k # 0 => e[k - 1] = f[k - 1]
        BY <2>0, <3>1
      <4> QED
        BY <2>2, <4>1, <4>2
    <3>2. CASE k = n + 1
      <4>1. e[k] = f[n] * 256 + s[n + 1] /\ e[k - 1] = f[n]
        BY <2>0, <3>2
      <4> QED
        BY <4>1, <3>2, <2>0
    <3> QED
      BY <3>1, <3>2, <2>0
  <2> HIDE DEF e, Good
  <2> QED
    BY <2>4, <2>5
<1>3. N \in S
  <2>1. S \in SUBSET Nat
    OBVIOUS
  <2> HIDE DEF S
  <2> QED
    BY <1>0, <1>1, <1>2, <2>1, SetInduction
<1>4. PICK f \in [0..N -> Nat] : Good(f, N)
  <2>1. N <= N
    BY <1>0
  <2> HIDE DEF Good
  <2> QED
    BY <1>3, <2>1
<1> DEFINE body(d) == [k \in 0..N |-> IF k = 0 THEN 0 ELSE d[k - 1] * 256 + s[k]]
           to == CHOOSE d : d = body(d)
<1>5. f = body(f)
  BY <1>4
<1>6. to = body(to)
  <2> HIDE DEF body
  <2> QED
    BY <1>5
<1>7. Number(256, 0, s) = to[N]
  BY DEF Number, N
<1>8. \A k \in 0..N : to[k] = IF k = 0 THEN 0 ELSE to[k - 1] * 256 + s[k]
  <2> HIDE DEF to
  <2> QED
    BY <1>6
<1>9. to[N] = f[N]
  <2> DEFINE T == {n \in Nat : n <= N => to[n] = f[n]}
  <2> HIDE DEF to
  <2>1. 0 \in T
    BY <1>4, <1>8, <1>0
  <2>2. ASSUME NEW n \in T PROVE n + 1 \in T
    <3> SUFFICES ASSUME n + 1 <= N PROVE to[n + 1] = f[n + 1]
      OBVIOUS
    <3>1. to[n] = f[n] /\ n + 1 \in 0..N /\ (n + 1) - 1 = n /\ n + 1 # 0
      BY <1>0
    <3> QED
      BY <3>1, <1>4, <1>8
  <2>3. T \in SUBSET Nat
    OBVIOUS
  <2> HIDE DEF T
  <2>4. N \in T
    BY <2>1, <2>2, <2>3, <1>0, SetInduction
  <2> QED
    BY <2>4, <1>0 DEF T
<1> QED
  BY <1>4, <1>7, <1>9, ZenonT(60) DEF N

(* A length of one octet.                                                  *)
LEMMA Number1 ==
  ASSUME NEW a \in Nat PROVE Number(256, 0, <<a>>) = a
<1>1. <<a>> \in Seq(Nat) /\ Len(<<a>>) = 1
  OBVIOUS
<1>2. PICK f \in [0..1 -> Nat] :
           /\ \A k \in 0..1 : f[k] = IF k = 0 THEN 0 ELSE f[k - 1] * 256 + <<a>>[k]
           /\ Number(256, 0, <<a>>) = f[1]
  BY <1>1, NumberRecursion, ZenonT(60)
<1>3. f[0] = 0 /\ f[1] = f[0] * 256 + a
  BY <1>2
<1> QED
  BY <1>2, <1>3

(* A length of two octets.                                                 *)
LEMMA Number2 ==
  ASSUME NEW a \in Nat, NEW b \in Nat PROVE Number(256, 0, <<a, b>>) = 256 * a + b
<1> DEFINE s == <<a, b>>
<1>1. s \in Seq(Nat) /\ Len(s) = 2 /\ s[1] = a /\ s[2] = b
  OBVIOUS
<1> HIDE DEF s
<1>2. PICK f \in [0..Len(s) -> Nat] :
           /\ \A k \in 0..Len(s) : f[k] = IF k = 0 THEN 0 ELSE f[k - 1] * 256 + s[k]
           /\ Number(256, 0, s) = f[Len(s)]
  BY <1>1, NumberRecursion
<1>3. f[0] = 0 /\ f[1] = f[0] * 256 + a /\ f[2] = f[1] * 256 + b
  BY <1>1, <1>2
<1> QED
  BY <1>2, <1>3 DEF s

(* What a buffer holds at a place inside it.                               *)
LEMMA OctetAt ==
  ASSUME NEW buf \in Seq(Octet), NEW k \in Int, 1 <= k, k <= Len(buf)
  PROVE  buf[k] \in Nat /\ buf[k] <= 255
<1>1. k \in 1..Len(buf)
  OBVIOUS
<1>2. buf[k] \in Octet
  BY <1>1
<1>3. \A o \in Octet : o \in Nat /\ o <= 255
  BY DEF Octet
<1> QED
  BY <1>2, <1>3

(* LengthAmong as nested conditions, for octets.                           *)
LEMMA LengthCases ==
  ASSUME NEW counts, NEW buf \in Seq(Octet), NEW i \in Nat \ {0}
  PROVE  LengthAmong(counts, buf, i) =
           IF i > Len(buf) THEN Fail
           ELSE IF buf[i] < 128 THEN Decoded(buf[i], i + 1)
           ELSE IF buf[i] - 128 \notin counts \/ i + (buf[i] - 128) > Len(buf) THEN Fail
           ELSE Decoded(Number(256, 0, SubSeq(buf, i + 1, i + (buf[i] - 128))),
                        i + (buf[i] - 128) + 1)
<1>1. CASE i > Len(buf)
  BY <1>1 DEF LengthAmong
<1>2. CASE i <= Len(buf)
  <2>1. buf[i] \in Nat
    BY <1>2, OctetAt
  <2>2. (buf[i] < 128) <=> ~(buf[i] >= 128)
    BY <2>1
  <2>3. ~(i > Len(buf))
    BY <1>2
  <2> QED
    BY <2>2, <2>3, ZenonT(60) DEF LengthAmong
<1> QED
  BY <1>1, <1>2

(* A length that decodes is a natural and moves the position on.           *)
LEMMA LengthType ==
  ASSUME NEW counts \in SUBSET Nat, NEW buf \in Seq(Octet), NEW i \in Nat \ {0}
  PROVE  LET l == LengthAmong(counts, buf, i)
         IN  \/ l = Fail
             \/ l.ok /\ l.val \in Nat /\ l.pos \in Nat /\ l.pos > i /\ l = Decoded(l.val, l.pos)
<1> SUFFICES ASSUME LengthAmong(counts, buf, i) # Fail
             PROVE  \E v, p \in Nat : p > i /\ LengthAmong(counts, buf, i) = Decoded(v, p)
  BY DEF Decoded
<1>1. i <= Len(buf)
  BY LengthCases
<1>2. buf[i] \in Nat
  BY <1>1, OctetAt
<1>3. CASE buf[i] < 128
  BY <1>1, <1>2, <1>3, LengthCases
<1>4. CASE ~(buf[i] < 128)
  <2> DEFINE n == buf[i] - 128
             s == SubSeq(buf, i + 1, i + n)
  <2>1. n \in Nat /\ i + n <= Len(buf)
    BY <1>1, <1>2, <1>4, LengthCases
  <2>2. LengthAmong(counts, buf, i) = Decoded(Number(256, 0, s), i + n + 1)
    BY <1>1, <1>4, LengthCases
  <2>3. s \in Seq(Nat)
    <3> HIDE DEF n
    <3>1. \A k \in (i + 1)..(i + n) : k \in Int /\ 1 <= k /\ k <= Len(buf)
      BY <2>1
    <3>2. \A k \in (i + 1)..(i + n) : buf[k] \in Nat
      BY <3>1, OctetAt
    <3> QED
      BY <2>1, <3>2
  <2>4. Number(256, 0, s) \in Nat
    <3> HIDE DEF s
    <3> QED
      BY <2>3, NumberRecursion, SMTT(60)
  <2> HIDE DEF n, s
  <2> QED
    BY <2>1, <2>2, <2>4
<1> QED
  BY <1>3, <1>4

(* The short form.                                                         *)
LEMMA ShortLength ==
  ASSUME NEW counts, NEW buf \in Seq(Octet), NEW i \in Nat \ {0}, i <= Len(buf),
         buf[i] < 128
  PROVE  LengthAmong(counts, buf, i) = Decoded(buf[i], i + 1)
  BY LengthCases

(* The long form with one octet.                                           *)
LEMMA OneOctet ==
  ASSUME NEW counts, 1 \in counts, NEW buf \in Seq(Octet), NEW i \in Nat \ {0},
         i + 1 <= Len(buf), buf[i] = 129
  PROVE  LengthAmong(counts, buf, i) = Decoded(buf[i + 1], i + 2)
<1>1. buf[i] - 128 = 1 /\ i + 1 + 1 = i + 2 /\ ~(buf[i] < 128) /\ ~(i > Len(buf))
  OBVIOUS
<1>2. LengthAmong(counts, buf, i)
        = Decoded(Number(256, 0, SubSeq(buf, i + 1, i + 1)), i + 2)
  BY <1>1, LengthCases
<1>3. buf[i + 1] \in Nat
  BY OctetAt
<1>4. SubSeq(buf, i + 1, i + 1) = <<buf[i + 1]>>
  <2> DEFINE s == SubSeq(buf, i + 1, i + 1)
  <2>1. s \in Seq(Octet) /\ Len(s) = 1 /\ s[1] = buf[i + 1]
    OBVIOUS
  <2> HIDE DEF s
  <2>2. s = <<buf[i + 1]>>
    BY <2>1
  <2> QED
    BY <2>2 DEF s
<1> QED
  BY <1>2, <1>3, <1>4, Number1, ZenonT(60)

(* The long form with two octets.                                          *)
LEMMA TwoOctets ==
  ASSUME NEW counts, 2 \in counts, NEW buf \in Seq(Octet), NEW i \in Nat \ {0},
         i + 2 <= Len(buf), buf[i] = 130
  PROVE  LengthAmong(counts, buf, i) = Decoded(256 * buf[i + 1] + buf[i + 2], i + 3)
<1>1. buf[i] - 128 = 2 /\ i + 2 + 1 = i + 3 /\ ~(buf[i] < 128) /\ ~(i > Len(buf))
  OBVIOUS
<1>2. LengthAmong(counts, buf, i)
        = Decoded(Number(256, 0, SubSeq(buf, i + 1, i + 2)), i + 3)
  BY <1>1, LengthCases
<1>3. buf[i + 1] \in Nat /\ buf[i + 2] \in Nat
  BY OctetAt
<1>4. SubSeq(buf, i + 1, i + 2) = <<buf[i + 1], buf[i + 2]>>
  <2> DEFINE s == SubSeq(buf, i + 1, i + 2)
  <2>1. s \in Seq(Octet) /\ Len(s) = 2 /\ s[1] = buf[i + 1] /\ s[2] = buf[i + 2]
    OBVIOUS
  <2> HIDE DEF s
  <2>2. s = <<buf[i + 1], buf[i + 2]>>
    BY <2>1
  <2> QED
    BY <2>2 DEF s
<1>5. Number(256, 0, <<buf[i + 1], buf[i + 2]>>) = 256 * buf[i + 1] + buf[i + 2]
  BY <1>3, Number2
<1> QED
  BY <1>2, <1>4, <1>5

(* A length that begins past the end, or whose two octets do, is refused.  *)
LEMMA NotThere ==
  ASSUME NEW counts, NEW buf \in Seq(Octet), NEW i \in Nat \ {0},
         i > Len(buf) \/ (buf[i] = 130 /\ i + 2 > Len(buf))
  PROVE  LengthAmong(counts, buf, i) = Fail
  BY LengthCases

(* Find takes one step: the recursive function in it exists because each   *)
(* element moves the position on.                                          *)
LEMMA FindUnfold ==
  ASSUME NEW counts \in SUBSET Nat, NEW buf \in Seq(Octet), NEW i \in Nat, NEW end \in Nat,
         NEW wanted
  PROVE  Find(counts, buf, i, end, wanted) =
           IF i >= end THEN Fail
           ELSE LET l == LengthAmong(counts, buf, i + 1) IN
                CASE ~l.ok -> Fail
                  [] l.ok /\ buf[i] = wanted -> l
                  [] OTHER -> Find(counts, buf, l.pos + l.val, end, wanted)
<1> DEFINE L(j) == LengthAmong(counts, buf, j + 1)
           body(f) == [j \in Nat |->
                         IF j >= end THEN Fail
                         ELSE LET l == LengthAmong(counts, buf, j + 1) IN
                              CASE ~l.ok -> Fail
                                [] l.ok /\ buf[j] = wanted -> l
                                [] OTHER -> f[l.pos + l.val]]
           at == CHOOSE f : f = body(f)
           halt == {j \in Nat : j >= end \/ ~L(j).ok \/ buf[j] = wanted}
           h == [j \in Nat |-> IF j >= end \/ ~L(j).ok THEN Fail ELSE L(j)]
           g == [j \in Nat |-> IF j \in halt THEN j ELSE L(j).pos + L(j).val]
<1>1. \A j \in Nat : Find(counts, buf, j, end, wanted) = at[j]
  BY DEF Find
<1>2. \A j \in Nat : L(j).ok => L(j).pos + L(j).val \in Nat /\ L(j).pos + L(j).val > j
  <2> SUFFICES ASSUME NEW j \in Nat, L(j).ok
               PROVE  L(j).pos + L(j).val \in Nat /\ L(j).pos + L(j).val > j
    OBVIOUS
  <2>1. j + 1 \in Nat \ {0}
    OBVIOUS
  <2>2. ~Fail.ok
    BY DEF Fail
  <2>3. L(j).val \in Nat /\ L(j).pos \in Nat /\ L(j).pos > j + 1
    BY <2>1, <2>2, LengthType
  <2> HIDE DEF L
  <2> QED
    BY <2>3
<1>3. PICK f : f = body(f)
  <2> DEFINE X == {Fail} \cup {L(j) : j \in Nat}
  <2>1. PICK f \in [Nat -> X] : \A j \in Nat : f[j] = IF j \in halt THEN h[j] ELSE f[g[j]]
    <3> HIDE DEF L
    <3>1. halt \in SUBSET Nat /\ g \in [Nat -> Nat] /\ h \in [Nat -> X]
      BY <1>2
    <3>2. \A j \in Nat : j >= end => j \in halt
      OBVIOUS
    <3>3. \A j \in Nat \ halt : g[j] > j
      BY <1>2
    <3> HIDE DEF halt, h, g, X
    <3>4. Progress(end, halt, X, h, g)
      BY <3>1, <3>2, <3>3 DEF Progress
    <3>5. Solvable(halt, X, h, g)
      BY <3>4, ForwardRecursion
    <3> QED
      BY <3>5 DEF Solvable
  <2>2. \A j \in Nat : f[j] = body(f)[j]
    BY <2>1
  <2>3. f = body(f)
    <3>1. f \in [Nat -> X]
      OBVIOUS
    <3> HIDE DEF X
    <3> QED
      BY <2>2, <3>1
  <2> HIDE DEF body
  <2> QED
    BY <2>3
<1>5. at = body(at)
  <2> HIDE DEF body
  <2> QED
    BY <1>3
<1>6. at[i] = body(at)[i]
  <2> HIDE DEF at, body
  <2> QED
    BY <1>5
<1>7. ~(i >= end) /\ L(i).ok =>
        Find(counts, buf, L(i).pos + L(i).val, end, wanted) = at[L(i).pos + L(i).val]
  <2> HIDE DEF at, L
  <2> QED
    BY <1>1, <1>2
<1> HIDE DEF at
<1> QED
  BY <1>1, <1>6, <1>7

(* The three forms encodeLength writes.                                    *)
LEMMA LengthOctets ==
  ASSUME NEW n \in Nat
  PROVE  /\ encodeLength(n) \in Seq(Octet)
         /\ n < 128 => encodeLength(n) = <<n>>
         /\ n \in 128..255 => encodeLength(n) = <<129, n>>
         /\ n > 255 => encodeLength(n) = <<130, (n \div 256) % 256, n % 256>>
         /\ Len(encodeLength(n)) = IF n < 128 THEN 1 ELSE IF n <= 255 THEN 2 ELSE 3
<1>1. (n \div 256) % 256 \in Octet /\ n % 256 \in Octet
  BY DEF Octet
<1>2. CASE n < 128
  <2>1. encodeLength(n) = <<n>> /\ n \in Octet
    BY <1>2 DEF encodeLength, Octet
  <2> QED
    BY <1>2, <2>1
<1>3. CASE n \in 128..255
  <2>1. encodeLength(n) = <<129, n>> /\ n \in Octet /\ 129 \in Octet
    BY <1>3 DEF encodeLength, Octet
  <2> QED
    BY <1>3, <2>1
<1>4. CASE n > 255
  <2>1. encodeLength(n) = <<130, (n \div 256) % 256, n % 256>> /\ 130 \in Octet
    BY <1>4 DEF encodeLength, Octet
  <2> QED
    BY <1>1, <1>4, <2>1
<1> QED
  BY <1>2, <1>3, <1>4

(* What a length field of two octets says of n, for n that wraps at most   *)
(* once and then below 256.                                                *)
Announced(n) == IF n < 65536 THEN n ELSE n - 65536

(* The two octets written for n read back as Announced(n).                 *)
LEMMA TwoOctetValue ==
  ASSUME NEW n \in Nat, n < 65792,
         NEW hi \in Nat, hi = (n \div 256) % 256, NEW lo \in Nat, lo = n % 256
  PROVE  256 * hi + lo = Announced(n)
<1> DEFINE q == n \div 256
<1>1. q \in Nat /\ lo \in Nat /\ hi \in Nat /\ hi = q % 256
  OBVIOUS
<1> HIDE DEF q
<1>2. CASE n < 65536
  <2>1. n = 256 * q + lo /\ q < 256
    BY <1>2 DEF q
  <2>2. hi = q
    BY <1>1, <2>1
  <2> QED
    BY <1>1, <1>2, <2>1, <2>2 DEF Announced
<1>3. CASE n >= 65536
  <2>1. q = 256 /\ lo = n - 65536
    BY <1>3 DEF q
  <2>2. hi = 0
    BY <1>1, <2>1
  <2> QED
    BY <1>1, <1>3, <2>1, <2>2 DEF Announced
<1> QED
  BY <1>2, <1>3

(* LengthAmong reads what encodeLength wrote.                              *)
LEMMA DecodeEncoded ==
  ASSUME NEW counts, 1 \in counts, 2 \in counts,
         NEW buf \in Seq(Octet), NEW i \in Nat \ {0}, NEW n \in Nat, n < 65792,
         i + Len(encodeLength(n)) - 1 <= Len(buf),
         \A k \in 1..Len(encodeLength(n)) : buf[i + k - 1] = encodeLength(n)[k]
  PROVE  LengthAmong(counts, buf, i) = Decoded(Announced(n), i + Len(encodeLength(n)))
<1>1. CASE n < 128
  <2>1. encodeLength(n) = <<n>> /\ Len(encodeLength(n)) = 1
    BY <1>1, LengthOctets
  <2>2. buf[i] = n /\ i <= Len(buf) /\ Announced(n) = n
    BY <1>1, <2>1 DEF Announced
  <2> QED
    BY <1>1, <2>1, <2>2, ShortLength
<1>2. CASE n \in 128..255
  <2>1. encodeLength(n) = <<129, n>> /\ Len(encodeLength(n)) = 2
    BY <1>2 DEF encodeLength
  <2>2. buf[i] = 129 /\ buf[i + 1] = n /\ i + 1 <= Len(buf) /\ Announced(n) = n
    BY <1>2, <2>1 DEF Announced
  <2> QED
    BY <2>1, <2>2, OneOctet
<1>3. CASE n > 255
  <2>1. encodeLength(n) = <<130, (n \div 256) % 256, n % 256>> /\ Len(encodeLength(n)) = 3
    BY <1>3, LengthOctets
  <2>2. PICK hi \in Nat, lo \in Nat : hi = (n \div 256) % 256 /\ lo = n % 256
    OBVIOUS
  <2>3. buf[i] = 130 /\ buf[i + 1] = hi /\ buf[i + 2] = lo /\ i + 2 <= Len(buf)
    BY <2>1, <2>2
  <2>4. LengthAmong(counts, buf, i) = Decoded(256 * hi + lo, i + 3)
    BY <2>3, TwoOctets, SMTT(60)
  <2>5. 256 * hi + lo = Announced(n)
    BY <2>2, TwoOctetValue
  <2> QED
    BY <2>1, <2>4, <2>5
<1> QED
  BY <1>1, <1>2, <1>3

(* Buffers.                                                                *)
Octets == Seq(Octet)

(* z is x followed by y.                                                   *)
IsJoin(z, x, y) ==
  /\ z \in Octets /\ Len(z) = Len(x) + Len(y)
  /\ \A k \in 1..Len(x) : z[k] = x[k]
  /\ \A k \in 1..Len(y) : z[Len(x) + k] = y[k]

(* Concatenation.                                                          *)
LEMMA Joined ==
  ASSUME NEW x \in Octets, NEW y \in Octets
  PROVE  IsJoin(x \o y, x, y)
  BY DEF IsJoin, Octets

(* B is the tag t, the length octets e and the body b.                     *)
IsBlock(B, t, b, e) ==
  /\ B \in Octets /\ Len(B) = 1 + Len(e) + Len(b)
  /\ B[1] = t
  /\ \A k \in 1..Len(e) : B[1 + k] = e[k]
  /\ \A k \in 1..Len(b) : B[1 + Len(e) + k] = b[k]

(* What Block writes, octet by octet.                                      *)
LEMMA BlockShape ==
  ASSUME NEW t \in Octet, NEW b \in Octets
  PROVE  IsBlock(Block(t, b), t, b, encodeLength(Len(b)))
<1> DEFINE e == encodeLength(Len(b))
           B == <<t>> \o e \o b
<1>1. e \in Seq(Octet) /\ b \in Seq(Octet)
  BY LengthOctets DEF Octets
<1>2. Block(t, b) = B
  BY DEF Block, With
<1> HIDE DEF e
<1>3. B \in Seq(Octet) /\ Len(B) = 1 + Len(e) + Len(b) /\ B[1] = t
  BY <1>1, <1>2
<1>4. \A k \in 1..Len(e) : B[1 + k] = e[k]
  BY <1>1, <1>2
<1>5. \A k \in 1..Len(b) : B[1 + Len(e) + k] = b[k]
  BY <1>1, <1>2
<1> HIDE DEF B
<1>6. IsBlock(B, t, b, e)
  BY <1>3, <1>4, <1>5 DEF IsBlock, Octets
<1> QED
  BY <1>2, <1>6 DEF e

(* The number of octets encodeLength writes for n.                         *)
LL(n) == Len(encodeLength(n))

(* The body of the PDV list: the context identifier and the user data.     *)
Inner(p, c) == <<2, 1, c>> \o Block(160, p)

(* The octets of Inner for the payload p.                                  *)
IsInner(b, p) ==
  /\ b \in Octets /\ Len(b) = 4 + LL(Len(p)) + Len(p)
  /\ b[1] = 2 /\ b[2] = 1 /\ b[4] = 160
  /\ \A k \in 1..LL(Len(p)) : b[4 + k] = encodeLength(Len(p))[k]
  /\ \A k \in 1..Len(p) : b[4 + LL(Len(p)) + k] = p[k]

(* A length field has one to three octets.                                 *)
LEMMA LLType == ASSUME NEW n \in Nat PROVE LL(n) \in 1..3
  BY LengthOctets DEF LL

(* Inner, octet by octet.                                                  *)
LEMMA InnerShape ==
  ASSUME NEW p \in Octets, NEW c \in Octet
  PROVE  IsInner(Inner(p, c), p)
<1> DEFINE n == Len(p)
           B == Block(160, p)
           x == <<2, 1, c>>
           b == x \o B
<1>1. IsBlock(B, 160, p, encodeLength(n))
  <2>1. 160 \in Octet
    BY DEF Octet
  <2> QED
    BY <2>1, BlockShape
<1>2. n \in Nat /\ LL(n) \in Nat
  BY LLType DEF Octets
<1>3. x \in Octets /\ Len(x) = 3 /\ x[1] = 2 /\ x[2] = 1
  BY DEF Octet, Octets
<1>4. B \in Octets
  BY <1>1 DEF IsBlock
<1> HIDE DEF B, x, n
<1>5. IsJoin(b, x, B)
  BY <1>3, <1>4, Joined
<1> HIDE DEF b
<1>6. b \in Octets /\ Len(b) = 4 + LL(n) + n
  BY <1>1, <1>2, <1>3, <1>5 DEF IsJoin, IsBlock, LL, n
<1>7. b[1] = 2 /\ b[2] = 1
  BY <1>3, <1>5 DEF IsJoin
<1>8. \A k \in 1..(1 + LL(n) + n) : b[3 + k] = B[k]
  BY <1>1, <1>3, <1>5 DEF IsJoin, IsBlock, LL, n
<1>9. b[4] = 160
  <2>1. 1 \in 1..(1 + LL(n) + n) /\ 3 + 1 = 4
    BY <1>2
  <2> QED
    BY <2>1, <1>1, <1>8 DEF IsBlock
<1>10. ASSUME NEW k \in 1..LL(n) PROVE b[4 + k] = encodeLength(n)[k]
  <2>1. 1 + k \in 1..(1 + LL(n) + n) /\ 3 + (1 + k) = 4 + k
    BY <1>2
  <2>2. B[1 + k] = encodeLength(n)[k]
    BY <1>1 DEF IsBlock, LL
  <2> QED
    BY <2>1, <2>2, <1>8
<1>11. ASSUME NEW k \in 1..n PROVE b[4 + LL(n) + k] = p[k]
  <2>1. /\ 1 + LL(n) + k \in 1..(1 + LL(n) + n)
        /\ 3 + (1 + LL(n) + k) = 4 + LL(n) + k
    BY <1>2
  <2>2. B[1 + LL(n) + k] = p[k]
    BY <1>1 DEF IsBlock, LL, n
  <2> QED
    BY <2>1, <2>2, <1>8
<1>12. IsInner(b, p)
  BY <1>6, <1>7, <1>9, <1>10, <1>11 DEF IsInner, n
<1> QED
  BY <1>12 DEF b, B, x, Inner

(* buf holds x at i.                                                       *)
Holds(buf, i, x) ==
  /\ i + Len(x) <= Len(buf) + 1
  /\ \A k \in 1..Len(x) : buf[i + k - 1] = x[k]

(* s is the PDV list of p: n and m are the lengths of p and of the body,   *)
(* and a is where the body starts.                                         *)
IsPdv(s, p, n, m, a) ==
  /\ n = Len(p) /\ m = 4 + LL(n) + n /\ a = 2 + LL(m)
  /\ s \in Octets /\ Len(s) = a + m - 1 /\ s[1] = 48
  /\ Holds(s, 2, encodeLength(m))
  /\ s[a] = 2 /\ s[a + 1] = 1 /\ s[a + 3] = 160
  /\ Holds(s, a + 4, encodeLength(n))
  /\ Holds(s, a + 4 + LL(n), p)

(* The block tagged 48 of buildFullyEncodedData is a PDV list.             *)
LEMMA PdvShape ==
  ASSUME NEW p \in Octets, NEW c \in Octet,
         NEW n \in Nat, n = Len(p), NEW m \in Nat, m = 4 + LL(n) + n
  PROVE  IsPdv(Block(48, Inner(p, c)), p, n, m, 2 + LL(m))
<1> DEFINE a == 2 + LL(m)
           b == Inner(p, c)
           s == Block(48, b)
<1>1. LL(n) \in Nat /\ LL(m) \in Nat /\ a \in Nat /\ m >= 4
  BY LLType
<1>2. IsInner(b, p)
  BY InnerShape
<1>3. b \in Octets /\ Len(b) = m
  BY <1>2 DEF IsInner
<1> HIDE DEF b
<1>4. IsBlock(s, 48, b, encodeLength(Len(b)))
  <2>1. 48 \in Octet
    BY DEF Octet
  <2> QED
    BY <1>3, <2>1, BlockShape
<1> HIDE DEF s
<1>5. /\ s \in Octets /\ Len(s) = 1 + LL(m) + m
      /\ s[1] = 48
      /\ \A k \in 1..LL(m) : s[1 + k] = encodeLength(m)[k]
      /\ \A k \in 1..m : s[1 + LL(m) + k] = b[k]
  BY <1>3, <1>4 DEF IsBlock, LL
<1>6. \A k \in 1..m : s[a + k - 1] = b[k]
  <2>1. \A k \in 1..m : a + k - 1 = 1 + LL(m) + k
    BY <1>1
  <2> QED
    BY <1>5, <2>1
<1>10. Len(s) = a + m - 1
  BY <1>5, <1>1
<1>11. Holds(s, 2, encodeLength(m))
  <2>1. \A k \in 1..LL(m) : 2 + k - 1 = 1 + k
    BY <1>1
  <2>2. 2 + LL(m) <= Len(s) + 1
    BY <1>1, <1>5, SMTT(60)
  <2> QED
    BY <1>5, <2>1, <2>2 DEF Holds, LL
<1> HIDE DEF a
<1>7. s[a] = 2 /\ s[a + 1] = 1 /\ s[a + 3] = 160
  <2>1. 1 \in 1..m /\ 2 \in 1..m /\ 4 \in 1..m /\ a + 1 - 1 = a /\ a + 2 - 1 = a + 1
        /\ a + 4 - 1 = a + 3
    BY <1>1
  <2>2. b[1] = 2 /\ b[2] = 1 /\ b[4] = 160
    BY <1>2 DEF IsInner
  <2> QED
    BY <2>1, <2>2, <1>6
<1>8. Holds(s, a + 4, encodeLength(n))
  <2>1. ASSUME NEW k \in 1..LL(n) PROVE s[a + 4 + k - 1] = encodeLength(n)[k]
    <3>1. 4 + k \in 1..m /\ a + (4 + k) - 1 = a + 4 + k - 1
      BY <1>1
    <3>2. b[4 + k] = encodeLength(n)[k]
      BY <1>2 DEF IsInner
    <3> QED
      BY <3>1, <3>2, <1>6
  <2>2. a + 4 + LL(n) <= Len(s) + 1
    BY <1>1, <1>10, SMTT(60)
  <2> QED
    BY <2>1, <2>2 DEF Holds, LL
<1>9. Holds(s, a + 4 + LL(n), p)
  <2>1. ASSUME NEW k \in 1..n PROVE s[a + 4 + LL(n) + k - 1] = p[k]
    <3>1. 4 + LL(n) + k \in 1..m /\ a + (4 + LL(n) + k) - 1 = a + 4 + LL(n) + k - 1
      BY <1>1, SMTT(60)
    <3>2. b[4 + LL(n) + k] = p[k]
      BY <1>2 DEF IsInner
    <3> QED
      BY <3>1, <3>2, <1>6
  <2>2. a + 4 + LL(n) + n <= Len(s) + 1
    BY <1>1, <1>10, SMTT(60)
  <2> QED
    BY <2>1, <2>2 DEF Holds
<1>12. n = Len(p) /\ m = 4 + LL(n) + n /\ a = 2 + LL(m)
  BY DEF a
<1>13. s \in Octets /\ s[1] = 48
  BY <1>5
<1>14. IsPdv(s, p, n, m, a)
  BY <1>7, <1>8, <1>9, <1>10, <1>11, <1>12, <1>13 DEF IsPdv
<1> QED
  BY <1>14 DEF a, s, b

(* decodeLength at a place where encodeLength(n) was written.              *)
LEMMA DecodeWritten ==
  ASSUME NEW buf \in Octets, NEW i \in Nat \ {0}, NEW n \in Nat, n < 65792,
         Holds(buf, i, encodeLength(n))
  PROVE  LengthAmong(1..3, buf, i) = Decoded(Announced(n), i + LL(n))
<1> DEFINE c == 1..3
<1>1. 1 \in c /\ 2 \in c
  OBVIOUS
<1> HIDE DEF c
<1>2. i + LL(n) - 1 <= Len(buf)
  BY LLType DEF Holds, LL, Octets
<1>3. LengthAmong(c, buf, i) = Decoded(Announced(n), i + LL(n))
  BY <1>1, <1>2, DecodeEncoded DEF Holds, LL, Octets
<1> QED
  BY <1>3 DEF c

(* The fields of a decoded value.                                          *)
LEMMA DecodedFields ==
  ASSUME NEW v, NEW i
  PROVE  Decoded(v, i).ok /\ Decoded(v, i).val = v /\ Decoded(v, i).pos = i
  BY DEF Decoded

(* Find passes an element of one octet with another tag, as the context    *)
(* identifier is.                                                          *)
LEMMA FindNext ==
  ASSUME NEW buf \in Octets, NEW i \in Nat \ {0}, NEW end \in Nat, i < end, NEW wanted,
         i + 1 <= Len(buf), buf[i] # wanted, buf[i + 1] = 1
  PROVE  Find(1..3, buf, i, end, wanted) = Find(1..3, buf, i + 3, end, wanted)
<1> DEFINE c == 1..3
<1>1. LengthAmong(c, buf, i + 1) = Decoded(1, i + 2)
  <2>1. buf \in Seq(Octet) /\ i + 1 \in Nat \ {0} /\ buf[i + 1] < 128 /\ i + 1 + 1 = i + 2
    BY DEF Octets
  <2> HIDE DEF c
  <2> QED
    BY <2>1, ShortLength
<1>2. c \in SUBSET Nat /\ buf \in Seq(Octet) /\ ~(i >= end) /\ i + 2 + 1 = i + 3
  BY DEF Octets
<1> HIDE DEF c
<1>3. Find(c, buf, i, end, wanted) = Find(c, buf, i + 2 + 1, end, wanted)
  BY <1>1, <1>2, DecodedFields, FindUnfold
<1> QED
  BY <1>2, <1>3 DEF c

(* Find stops at the wanted tag.                                           *)
LEMMA FindHere ==
  ASSUME NEW buf \in Octets, NEW i \in Nat \ {0}, NEW end \in Nat, i < end, NEW wanted,
         NEW l, LengthAmong(1..3, buf, i + 1) = l, l.ok, buf[i] = wanted
  PROVE  Find(1..3, buf, i, end, wanted) = l
<1> DEFINE c == 1..3
<1>1. c \in SUBSET Nat /\ buf \in Seq(Octet) /\ ~(i >= end) /\ LengthAmong(c, buf, i + 1) = l
  BY DEF Octets
<1> HIDE DEF c
<1>2. Find(c, buf, i, end, wanted) = l
  BY <1>1, FindUnfold
<1> QED
  BY <1>2 DEF c

(* Find fails past its end and at a length that does not decode.           *)
LEMMA FindNothing ==
  ASSUME NEW buf \in Octets, NEW i \in Nat \ {0}, NEW end \in Nat, NEW wanted,
         i >= end \/ LengthAmong(1..3, buf, i + 1) = Fail
  PROVE  Find(1..3, buf, i, end, wanted) = Fail
<1> DEFINE c == 1..3
<1>1. c \in SUBSET Nat /\ buf \in Seq(Octet) /\ (i >= end \/ LengthAmong(c, buf, i + 1) = Fail)
  BY DEF Octets
<1>2. ~Fail.ok
  BY DEF Fail
<1> HIDE DEF c
<1>3. Find(c, buf, i, end, wanted) = Fail
  BY <1>1, <1>2, FindUnfold
<1> QED
  BY <1>3 DEF c

(* The smaller of two numbers.                                             *)
LEMMA MinOfTwo ==
  ASSUME NEW x \in Int, NEW y \in Int, x <= y
  PROVE  Min({x, y}) = x /\ Min({y, x}) = x
  BY DEF Min

(* Cut without its evaluation device.                                      *)
LEMMA CutIs ==
  ASSUME NEW buf, NEW f
  PROVE  Cut(buf, f) = IF f.ok THEN Slice(buf, f.pos, f.val) ELSE f
  BY DEF Cut, With

(* Slicing out what is held.                                               *)
LEMMA WholeSlice ==
  ASSUME NEW buf \in Octets, NEW p \in Octets, NEW i \in Nat \ {0}, Holds(buf, i, p)
  PROVE  Slice(buf, i, Len(p)) = Decoded(p, i + Len(p))
<1>1. Slice(buf, i, Len(p)) = Decoded(SubSeq(buf, i, i + Len(p) - 1), i + Len(p))
  BY DEF Slice, Octets, Holds
<1>2. SubSeq(buf, i, i + Len(p) - 1) = p
  <2> DEFINE s == SubSeq(buf, i, i + Len(p) - 1)
  <2>1. s \in Seq(Octet) /\ Len(s) = Len(p) /\ \A k \in 1..Len(p) : s[k] = buf[i + k - 1]
    BY DEF Octets, Holds
  <2> HIDE DEF s
  <2>2. \A k \in 1..Len(p) : s[k] = p[k]
    BY <2>1 DEF Holds
  <2>3. s = p
    BY <2>1, <2>2 DEF Octets
  <2> QED
    BY <2>3 DEF s
<1> QED
  BY <1>1, <1>2

(* parseFullyEncodedData once its outer length is known.                   *)
LEMMA ParseData ==
  ASSUME NEW buf \in Octets, Len(buf) >= 1, buf[1] = 48,
         NEW v, NEW pos, LengthAmong(1..3, buf, 2) = Decoded(v, pos),
         NEW end, end = Min({pos + v, Len(buf) + 1}),
         NEW f, f = Find(1..3, buf, pos, end, 160)
  PROVE  parseFullyEncodedData(buf)
           = Cut(buf, IF f.ok /\ f.pos + f.val > Len(buf) + 1 THEN Fail ELSE f)
<1>1. buf # <<>> /\ Head(buf) = 48
  BY DEF Octets
<1>2. decodeLength(buf, 2).ok /\ decodeLength(buf, 2).val = v /\ decodeLength(buf, 2).pos = pos
  BY DecodedFields DEF decodeLength
<1> QED
  BY <1>1, <1>2, ZenonT(60) DEF parseFullyEncodedData

(* A PDV list that is whole and whose lengths fit gives its payload back.  *)
LEMMA ParseWhole ==
  ASSUME NEW p \in Octets, NEW n \in Nat, NEW m \in Nat, NEW a \in Nat, NEW s,
         IsPdv(s, p, n, m, a), m < 65536
  PROVE  parseFullyEncodedData(s) = Decoded(p, Len(s) + 1)
<1>1. /\ LL(n) \in Nat /\ LL(n) >= 1 /\ LL(m) \in Nat /\ LL(m) >= 1 /\ n < 65536 /\ m >= 4
      /\ m = 4 + LL(n) + n /\ a = 2 + LL(m)
  <2>1. m = 4 + LL(n) + n /\ a = 2 + LL(m)
    BY DEF IsPdv
  <2>2. LL(n) \in Nat /\ LL(n) >= 1 /\ LL(m) \in Nat /\ LL(m) >= 1
    BY LLType
  <2> QED
    BY <2>1, <2>2
<1>2. s \in Octets /\ Len(s) = a + m - 1 /\ s[1] = 48 /\ Len(s) \in Nat
  BY DEF IsPdv, Octets
<1>3. LengthAmong(1..3, s, 2) = Decoded(m, a)
  <2>1. Holds(s, 2, encodeLength(m))
    BY DEF IsPdv
  <2>2. Announced(m) = m /\ 2 + LL(m) = a
    BY <1>1 DEF Announced
  <2> QED
    BY <1>2, <2>1, <2>2, DecodeWritten
<1> DEFINE end == Len(s) + 1
           l == Decoded(n, a + 4 + LL(n))
<1>4. end = Min({a + m, Len(s) + 1}) /\ a + m = end /\ end \in Nat
  <2>1. a + m = end /\ end \in Nat
    BY <1>2
  <2>2. end = Min({end, end})
    <3> HIDE DEF end
    <3> QED
      BY <2>1, MinOfTwo
  <2> QED
    BY <2>1, <2>2, SMTT(60)
<1>5. LengthAmong(1..3, s, a + 3 + 1) = l
  <2>1. Holds(s, a + 4, encodeLength(n))
    BY DEF IsPdv
  <2>2. Announced(n) = n /\ a + 3 + 1 = a + 4 /\ a + 4 \in Nat \ {0} /\ n < 65792
    BY <1>1 DEF Announced
  <2> QED
    BY <1>2, <2>1, <2>2, DecodeWritten
<1>6. Find(1..3, s, a, end, 160) = Find(1..3, s, a + 3, end, 160)
  <2>1. a \in Nat \ {0} /\ a < end /\ a + 1 <= Len(s)
    <3>1. m >= 4 /\ a # 0
      BY <1>1
    <3> QED
      BY <1>2, <3>1
  <2>2. s[a] # 160 /\ s[a + 1] = 1
    BY DEF IsPdv
  <2> HIDE DEF end
  <2> QED
    BY <1>2, <1>4, <2>1, <2>2, FindNext
<1>7. Find(1..3, s, a + 3, end, 160) = l
  <2>1. a + 3 \in Nat \ {0} /\ a + 3 < end
    <3>1. m >= 4
      BY <1>1
    <3> QED
      BY <1>2, <3>1
  <2>2. s[a + 3] = 160 /\ l.ok
    BY DecodedFields DEF IsPdv
  <2> HIDE DEF end, l
  <2> QED
    BY <1>2, <1>4, <1>5, <2>1, <2>2, FindHere
<1>8. l.ok /\ l.pos = a + 4 + LL(n) /\ l.val = n
  BY DecodedFields
<1>9. ~(l.pos + l.val > Len(s) + 1) /\ a + 4 + LL(n) + n = Len(s) + 1
  <2>1. a + 4 + LL(n) + n = a + m
    BY <1>1
  <2>2. a + m = Len(s) + 1 /\ Len(s) + 1 \in Nat
    BY <1>2
  <2> HIDE DEF l
  <2> QED
    BY <1>8, <2>1, <2>2
<1>10. parseFullyEncodedData(s) = Cut(s, l)
  <2>1. Len(s) >= 1
    BY <1>1, <1>2, SMTT(60)
  <2> HIDE DEF end, l
  <2> QED
    BY <1>2, <1>3, <1>4, <1>6, <1>7, <1>8, <1>9, <2>1, ParseData, SMTT(60)
<1>11. Slice(s, a + 4 + LL(n), n) = Decoded(p, Len(s) + 1)
  <2> DEFINE i == a + 4 + LL(n)
  <2>1. i \in Nat \ {0}
    BY <1>1
  <2>2. Holds(s, i, p)
    BY DEF IsPdv
  <2> HIDE DEF i
  <2>3. Slice(s, i, Len(p)) = Decoded(p, i + Len(p))
    BY <1>2, <2>1, <2>2, WholeSlice
  <2>4. n = Len(p)
    BY DEF IsPdv
  <2> QED
    BY <1>9, <2>3, <2>4 DEF i
<1> QED
  BY <1>8, <1>10, <1>11, CutIs

(* An empty buffer, and one whose outer length does not decode, are        *)
(* refused.                                                                *)
LEMMA NotParsed ==
  ASSUME NEW buf \in Octets, buf = <<>> \/ LengthAmong(1..3, buf, 2) = Fail
  PROVE  parseFullyEncodedData(buf) = Fail
<1>1. ~Fail.ok
  BY DEF Fail
<1> QED
  BY <1>1 DEF parseFullyEncodedData, decodeLength

(* A PDV list in which no user data is found is refused.                   *)
LEMMA NotFound ==
  ASSUME NEW buf \in Octets, Len(buf) >= 1, buf[1] = 48,
         NEW v, NEW pos, LengthAmong(1..3, buf, 2) = Decoded(v, pos),
         Find(1..3, buf, pos, Min({pos + v, Len(buf) + 1}), 160) = Fail
  PROVE  parseFullyEncodedData(buf) = Fail
<1>1. ~Fail.ok
  BY DEF Fail
<1>2. parseFullyEncodedData(buf) = Cut(buf, Fail)
  BY <1>1, ParseData
<1> QED
  BY <1>1, <1>2, CutIs

(* Lengths above 255 take three octets.                                    *)
LEMMA LongLength ==
  ASSUME NEW n \in Nat, n > 255
  PROVE  encodeLength(n)[1] = 130 /\ LL(n) = 3
<1>1. encodeLength(n) = <<130, (n \div 256) % 256, n % 256>>
  BY LengthOctets, ZenonT(60)
<1> QED
  BY <1>1 DEF LL

(* t is the first d octets of s.                                           *)
IsStart(t, s, d) == t \in Octets /\ Len(t) = d /\ \A k \in 1..d : t[k] = s[k]

(* SubSeq from the start.                                                  *)
LEMMA Start ==
  ASSUME NEW s \in Octets, NEW d \in Nat, d <= Len(s)
  PROVE  IsStart(SubSeq(s, 1, d), s, d)
  BY DEF Octets, IsStart

(* What is left of a PDV list when the length of the block around it has   *)
(* wrapped to d octets: at most the first ten.                             *)
IsCut(t, d, m) ==
  /\ t \in Octets /\ Len(t) = d
  /\ d >= 1 => t[1] = 48
  /\ d >= 2 => t[2] = 130
  /\ d >= 4 => Holds(t, 2, encodeLength(m))
  /\ d >= 6 => t[5] = 2 /\ t[6] = 1
  /\ d >= 9 => t[9] = 130

(* The PDV list of a PDU of 65525 to 65535 octets, cut where the wrapped   *)
(* length ends.                                                            *)
LEMMA CutShape ==
  ASSUME NEW p \in Octets, NEW n \in Nat, NEW m \in Nat, NEW a \in Nat, NEW s,
         IsPdv(s, p, n, m, a), n > 65524, n < 65536,
         NEW d \in Nat, n = d + 65525
  PROVE  IsCut(SubSeq(s, 1, d), d, m) /\ m = d + 65532 /\ d <= 10
<1> DEFINE t == SubSeq(s, 1, d)
<1>1. encodeLength(n)[1] = 130 /\ LL(n) = 3
  BY LongLength
<1>2. m = n + 7
  <2>1. m = 4 + LL(n) + n
    BY DEF IsPdv
  <2> QED
    BY <1>1, <2>1
<1>3. encodeLength(m)[1] = 130 /\ LL(m) = 3
  <2>1. m > 255
    BY <1>2
  <2> QED
    BY <2>1, LongLength
<1>4. a = 5
  <2>1. a = 2 + LL(m)
    BY DEF IsPdv
  <2> QED
    BY <1>3, <2>1
<1>5. s \in Octets /\ Len(s) = n + 11 /\ s[1] = 48
  <2>1. s \in Octets /\ Len(s) = a + m - 1 /\ s[1] = 48
    BY DEF IsPdv
  <2> QED
    BY <1>2, <1>4, <2>1
<1>6. t \in Octets /\ Len(t) = d /\ \A k \in 1..d : t[k] = s[k]
  <2>1. d <= Len(s)
    BY <1>5
  <2> QED
    BY <1>5, <2>1, Start DEF IsStart
<1>7. Holds(s, 2, encodeLength(m)) /\ Holds(s, 9, encodeLength(n)) /\ s[5] = 2 /\ s[6] = 1
  <2>1. Holds(s, 2, encodeLength(m)) /\ Holds(s, a + 4, encodeLength(n)) /\ s[a] = 2
        /\ s[a + 1] = 1
    BY DEF IsPdv
  <2>2. a + 4 = 9 /\ a + 1 = 6
    BY <1>4
  <2> QED
    BY <1>4, <2>1, <2>2
<1>8. s[2] = 130
  <2>1. \A k \in 1..3 : s[2 + k - 1] = encodeLength(m)[k]
    BY <1>3, <1>7 DEF Holds, LL
  <2>2. s[2 + 1 - 1] = encodeLength(m)[1] /\ 2 + 1 - 1 = 2
    BY <2>1
  <2> QED
    BY <1>3, <2>2
<1>9. s[9] = 130
  <2>1. \A k \in 1..3 : s[9 + k - 1] = encodeLength(n)[k]
    BY <1>1, <1>7 DEF Holds, LL
  <2>2. s[9 + 1 - 1] = encodeLength(n)[1] /\ 9 + 1 - 1 = 9
    BY <2>1
  <2> QED
    BY <1>1, <2>2
<1>10. d >= 4 => Holds(t, 2, encodeLength(m))
  <2> SUFFICES ASSUME d >= 4 PROVE Holds(t, 2, encodeLength(m))
    OBVIOUS
  <2>1. \A k \in 1..3 : s[2 + k - 1] = encodeLength(m)[k]
    BY <1>3, <1>7 DEF Holds, LL
  <2>2. \A k \in 1..3 : 2 + k - 1 \in 1..d
    OBVIOUS
  <2>3. \A k \in 1..3 : t[2 + k - 1] = encodeLength(m)[k]
    BY <1>6, <2>1, <2>2
  <2>4. 2 + 3 <= Len(t) + 1
    BY <1>6
  <2> QED
    BY <1>3, <2>3, <2>4 DEF Holds, LL
<1>11. /\ d >= 1 => t[1] = 48
       /\ d >= 2 => t[2] = 130
       /\ d >= 6 => t[5] = 2 /\ t[6] = 1
       /\ d >= 9 => t[9] = 130
  <2>1. /\ d >= 1 => 1 \in 1..d
        /\ d >= 2 => 2 \in 1..d
        /\ d >= 6 => 5 \in 1..d /\ 6 \in 1..d
        /\ d >= 9 => 9 \in 1..d
    OBVIOUS
  <2> QED
    BY <1>5, <1>6, <1>7, <1>8, <1>9, <2>1
<1>12. m = d + 65532 /\ d <= 10
  BY <1>2
<1> QED
  BY <1>6, <1>10, <1>11, <1>12 DEF IsCut

(* What is left never holds the user data: parseFullyEncodedData refuses   *)
(* it, for each of the eleven places where it may be cut.                  *)
LEMMA ParseCut ==
  ASSUME NEW t, NEW d \in Nat, d <= 10, NEW m \in Nat, m = d + 65532, IsCut(t, d, m)
  PROVE  parseFullyEncodedData(t) = Fail
<1>1. t \in Octets /\ Len(t) = d /\ t \in Seq(Octet)
  BY DEF IsCut, Octets
<1> DEFINE c == 1..3
<1>2. CASE d = 0
  <2>1. t = <<>>
    BY <1>1, <1>2
  <2> QED
    BY <1>1, <2>1, NotParsed
<1>3. CASE d > 0 /\ d < 4
  <2>1. 2 > Len(t) \/ (t[2] = 130 /\ 2 + 2 > Len(t))
    BY <1>1, <1>3 DEF IsCut
  <2>2. LengthAmong(1..3, t, 2) = Fail
    BY <1>1, <2>1, NotThere
  <2> QED
    BY <1>1, <2>2, NotParsed
<1>4. CASE d >= 4
  <2>0. PICK w \in Nat : w = d - 4
    BY <1>4
  <2>1. LengthAmong(1..3, t, 2) = Decoded(w, 5)
    <3>1. LL(m) = 3
      <4>1. m > 255
        OBVIOUS
      <4> QED
        BY <4>1, LongLength
    <3>2. m < 65792 /\ Announced(m) = w /\ 2 + 3 = 5
      BY <1>4, <2>0 DEF Announced
    <3>3. Holds(t, 2, encodeLength(m))
      BY <1>4 DEF IsCut
    <3>4. LengthAmong(1..3, t, 2) = Decoded(Announced(m), 2 + LL(m))
      BY <1>1, <3>2, <3>3, DecodeWritten
    <3> QED
      BY <3>1, <3>2, <3>4
  <2> DEFINE end == d + 1
  <2>2. Min({5 + w, Len(t) + 1}) = end /\ end \in Nat
    <3>1. 5 + w = end /\ Len(t) + 1 = end /\ end \in Nat
      BY <1>1, <1>4, <2>0
    <3> HIDE DEF end
    <3>2. Min({end, end}) = end
      BY <3>1, MinOfTwo
    <3> QED
      BY <3>1, <3>2
  <2>3. Find(1..3, t, 5, end, 160) = Fail
    <3>1. CASE d < 6
      <4>1. 5 >= end \/ LengthAmong(1..3, t, 5 + 1) = Fail
        <5>1. d = 4 \/ 6 > Len(t)
          BY <1>1, <1>4, <3>1
        <5>2. 6 > Len(t) => LengthAmong(1..3, t, 6) = Fail
          BY <1>1, NotThere
        <5> QED
          BY <5>1, <5>2
      <4> HIDE DEF end
      <4> QED
        BY <1>1, <2>2, <4>1, FindNothing
    <3>2. CASE d >= 6
      <4>1. Find(1..3, t, 5, end, 160) = Find(1..3, t, 5 + 3, end, 160)
        <5>1. 5 < end /\ 5 + 1 <= Len(t) /\ t[5] # 160 /\ t[5 + 1] = 1
          BY <1>1, <3>2 DEF IsCut
        <5> HIDE DEF end
        <5> QED
          BY <1>1, <2>2, <5>1, FindNext
      <4>2. 8 >= end \/ LengthAmong(1..3, t, 8 + 1) = Fail
        <5>1. 8 >= end \/ 9 > Len(t) \/ (t[9] = 130 /\ 9 + 2 > Len(t))
          BY <1>1, <3>2 DEF IsCut
        <5>2. 9 > Len(t) \/ (t[9] = 130 /\ 9 + 2 > Len(t)) => LengthAmong(1..3, t, 9) = Fail
          BY <1>1, NotThere
        <5> QED
          BY <5>1, <5>2
      <4>3. Find(1..3, t, 8, end, 160) = Fail
        <5> HIDE DEF end
        <5> QED
          BY <1>1, <2>2, <4>2, FindNothing
      <4> QED
        BY <4>1, <4>3
    <3>3. d < 6 \/ d >= 6
      OBVIOUS
    <3> HIDE DEF end
    <3> QED
      BY <3>1, <3>2, <3>3
  <2>4. Len(t) >= 1 /\ t[1] = 48
    BY <1>1, <1>4 DEF IsCut
  <2> HIDE DEF end
  <2> QED
    BY <1>1, <2>1, <2>2, <2>3, <2>4, NotFound
<1> QED
  BY <1>2, <1>3, <1>4

(* UnwrapUserData hands on as much of the block as its length announces.   *)
LEMMA UnwrapBlock ==
  ASSUME NEW s \in Octets, Len(s) >= 1, Len(s) < 65792
  PROVE  UnwrapUserData(Block(97, s))
           = parseFullyEncodedData(SubSeq(s, 1, Announced(Len(s))))
<1> DEFINE B == Block(97, s)
           N == Len(s)
           v == Announced(N)
           t == SubSeq(s, 1, v)
           pos == 2 + LL(N)
<1>1. N \in Nat /\ v \in Nat /\ v <= N /\ LL(N) \in Nat /\ pos \in Nat \ {0}
  BY LLType DEF Octets, Announced
<1>2. IsBlock(B, 97, s, encodeLength(N))
  <2>1. 97 \in Octet
    BY DEF Octet
  <2> QED
    BY <2>1, BlockShape
<1> HIDE DEF B
<1>3. B \in Octets /\ B \in Seq(Octet) /\ Len(B) = 1 + LL(N) + N /\ B[1] = 97
  BY <1>2 DEF IsBlock, LL, Octets
<1>4. \A k \in 1..N : B[pos + k - 1] = s[k]
  <2>1. \A k \in 1..N : pos + k - 1 = 1 + LL(N) + k
    BY <1>1
  <2>2. \A k \in 1..N : B[1 + LL(N) + k] = s[k]
    BY <1>2 DEF IsBlock, LL
  <2> QED
    BY <2>1, <2>2
<1>5. LengthAmong(1..3, B, 2) = Decoded(v, pos)
  <2>1. \A k \in 1..LL(N) : B[2 + k - 1] = encodeLength(N)[k]
    <3>1. \A k \in 1..LL(N) : B[1 + k] = encodeLength(N)[k]
      BY <1>2 DEF IsBlock, LL
    <3>2. \A k \in 1..LL(N) : 2 + k - 1 = 1 + k
      BY <1>1
    <3> QED
      BY <3>1, <3>2
  <2>2. 2 + LL(N) <= Len(B) + 1
    BY <1>1, <1>3
  <2>3. Holds(B, 2, encodeLength(N))
    BY <2>1, <2>2 DEF Holds, LL
  <2> HIDE DEF N
  <2>4. N < 65792
    BY DEF N
  <2>5. LengthAmong(1..3, B, 2) = Decoded(Announced(N), 2 + LL(N))
    BY <1>1, <1>3, <2>3, <2>4, DecodeWritten
  <2> QED
    BY <2>5 DEF N
<1> HIDE DEF v
<1>6. IsStart(t, s, v)
  BY <1>1, Start
<1> HIDE DEF t
<1>7. t \in Octets /\ Len(t) = v /\ \A k \in 1..v : t[k] = s[k]
  BY <1>6 DEF IsStart
<1>8. Holds(B, pos, t)
  <2>1. \A k \in 1..v : B[pos + k - 1] = t[k]
    <3>1. \A k \in 1..v : k \in 1..N
      BY <1>1
    <3> HIDE DEF pos, N
    <3> QED
      BY <1>4, <1>7, <3>1
  <2>2. pos + v <= Len(B) + 1
    BY <1>1, <1>3
  <2> QED
    BY <1>7, <2>1, <2>2 DEF Holds
<1> HIDE DEF pos
<1>9. Slice(B, pos, v) = Decoded(t, pos + v)
  BY <1>1, <1>3, <1>7, <1>8, WholeSlice, SMTT(60)
<1>10. ~(pos + v > Len(B) + 1)
  BY <1>1, <1>3 DEF pos
<1>11. ~(Len(B) < 2) /\ Head(B) = 97
  BY <1>1, <1>3
<1>12. decodeLength(B, 2).ok /\ decodeLength(B, 2).val = v /\ decodeLength(B, 2).pos = pos
  BY <1>5, DecodedFields DEF decodeLength
<1>13. UnwrapUserData(B) = parseFullyEncodedData(t)
  BY <1>9, <1>10, <1>11, <1>12, DecodedFields DEF UnwrapUserData, Then, With
<1> QED
  BY <1>13 DEF B, t, v

(* The data SPDU adds four octets and takes them off.                      *)
LEMMA UnwrapData ==
  ASSUME NEW x \in Octets
  PROVE  UnwrapDataSPDU(WrapDataSPDU(x)) = Decoded(x, 5 + Len(x))
<1> DEFINE h == <<1, 0, 1, 0>>
           z == h \o x
<1>1. h \in Octets /\ Len(h) = 4
  BY DEF Octet, Octets
<1> HIDE DEF h
<1>2. IsJoin(z, h, x)
  BY <1>1, Joined
<1> HIDE DEF z
<1>3. z \in Octets /\ Len(z) = 4 + Len(x) /\ Len(x) \in Nat
  BY <1>1, <1>2 DEF IsJoin, Octets
<1>4. SubSeq(z, 1, 4) = h
  <2> DEFINE t == SubSeq(z, 1, 4)
  <2>0. 4 <= Len(z) /\ 4 \in Nat
    BY <1>3
  <2>1. IsStart(t, z, 4)
    BY <1>3, <2>0, Start
  <2> HIDE DEF t
  <2>2. t \in Seq(Octet) /\ Len(t) = 4 /\ \A k \in 1..4 : t[k] = h[k]
    BY <1>1, <1>2, <2>1 DEF IsStart, IsJoin, Octets
  <2>3. t = h
    BY <1>1, <2>2 DEF Octets
  <2> QED
    BY <2>3 DEF t
<1>5. Slice(z, 5, Len(x)) = Decoded(x, 5 + Len(x))
  <2>1. \A k \in 1..Len(x) : z[5 + k - 1] = x[k]
    <3>1. \A k \in 1..Len(x) : 5 + k - 1 = 4 + k
      BY <1>3
    <3> QED
      BY <1>1, <1>2, <3>1 DEF IsJoin
  <2>2. 5 + Len(x) <= Len(z) + 1
    BY <1>3
  <2>3. Holds(z, 5, x)
    BY <2>1, <2>2 DEF Holds
  <2> QED
    BY <1>3, <2>3, WholeSlice
<1>6. ~(Len(z) < 4) /\ Len(z) - 4 = Len(x)
  BY <1>3
<1>7. UnwrapDataSPDU(z) = Decoded(x, 5 + Len(x))
  BY <1>4, <1>5, <1>6 DEF UnwrapDataSPDU, dataSPDUHeader, h
<1> QED
  BY <1>7 DEF WrapDataSPDU, dataSPDUHeader, z, h
=============================================================================
