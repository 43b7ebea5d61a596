-------------------------- MODULE HandshakeProofs ---------------------------
(***************************************************************************)
(* What the two sides of a handshake read in the PDUs that the other side  *)
(* writes: the server in a Connect, through ISO session, ISO presentation, *)
(* ACSE and the Initiate request, the client in the answer.  The lemmas    *)
(* are about the operators of Framing and Ber, for buffers of any content; *)
(* those of the second part put the layers together, and those of the      *)
(* third say that asn1ber reads what it writes.                            *)
(*                                                                         *)
(* An element is a tag, the octets of its length and its body. Ends(buf,   *)
(* i, y) says that buf ends with y from i on; a parser that visits         *)
(* elements from i on is then described by y alone: Finds (the search of   *)
(* ISO presentation), Skips (what it passes), Lists (the TLVs of           *)
(* asn1ber), and Shows (the records the client keeps of an AARE).          *)
(***************************************************************************)
EXTENDS FramingProofs

(* Recursions that shrink.                                                 *)

(* A recursion on D with a measure m that shrinks: it stops in halt with   *)
(* value h, and makes its value of the one at g[x] otherwise.              *)
Shrinks(D, m, halt, X, h, g, op) ==
  /\ m \in [D -> Nat] /\ halt \in SUBSET D /\ h \in [D -> X] /\ g \in [D -> D]
  /\ op \in [D -> [X -> X]]
  /\ \A x \in D \ halt : m[g[x]] < m[x]

(* f satisfies the recursion at x.                                         *)
SolvedAt(f, x, halt, h, g, op) == f[x] = IF x \in halt THEN h[x] ELSE op[x][f[g[x]]]

(* Solutions up to a measure exist.                                        *)
LEMMA PartlySolved ==
  ASSUME NEW D, NEW m, NEW halt, NEW X, NEW h, NEW g, NEW op,
         Shrinks(D, m, halt, X, h, g, op)
  PROVE  \A n \in Nat : \E f \in [D -> X] :
           \A x \in D : m[x] < n => SolvedAt(f, x, halt, h, g, op)
<1> USE DEF Shrinks
<1> DEFINE Good(f, n) == \A x \in D : m[x] < n => SolvedAt(f, x, halt, h, g, op)
           S == {n \in Nat : \E f \in [D -> X] : Good(f, n)}
<1>1. 0 \in S
  <2>1. Good(h, 0)
    OBVIOUS
  <2> QED
    BY <2>1
<1>2. ASSUME NEW n \in S PROVE n + 1 \in S
  <2>1. PICK f \in [D -> X] : Good(f, n)
    OBVIOUS
  <2> DEFINE e == [x \in D |-> IF m[x] < n THEN f[x]
                               ELSE IF x \in halt THEN h[x] ELSE op[x][f[g[x]]]]
  <2>2. e \in [D -> X]
    OBVIOUS
  <2>3. Good(e, n + 1)
    <3> SUFFICES ASSUME NEW x \in D, m[x] < n + 1
                 PROVE  e[x] = IF x \in halt THEN h[x] ELSE op[x][e[g[x]]]
      BY DEF SolvedAt
    <3>1. e[x] = IF x \in halt THEN h[x] ELSE op[x][f[g[x]]]
      BY <2>1 DEF SolvedAt
    <3>2. x \notin halt => g[x] \in D /\ m[g[x]] < n
      <4> HAVE x \notin halt
      <4>1. g[x] \in D /\ m[g[x]] < m[x] /\ m[g[x]] \in Nat /\ m[x] \in Nat
        OBVIOUS
      <4> QED
        BY <4>1
    <3>3. x \notin halt => e[g[x]] = f[g[x]]
      BY <3>2
    <3> QED
      BY <3>1, <3>3
  <2>4. n + 1 \in Nat
    OBVIOUS
  <2> HIDE DEF e, Good
  <2> QED
    BY <2>2, <2>3, <2>4
<1>3. S = Nat
  <2>1. S \in SUBSET Nat
    OBVIOUS
  <2> HIDE DEF S
  <2> QED
    BY <1>1, <1>2, <2>1, SetInduction
<1> QED
  BY <1>3

(* Two solutions up to a measure agree up to it.                           *)
LEMMA SolvedOnce ==
  ASSUME NEW D, NEW m, NEW halt, NEW X, NEW h, NEW g, NEW op,
         Shrinks(D, m, halt, X, h, g, op), NEW n \in Nat, NEW f, NEW e,
         \A x \in D : m[x] < n => SolvedAt(f, x, halt, h, g, op),
         \A x \in D : m[x] < n => SolvedAt(e, x, halt, h, g, op)
  PROVE  \A x \in D : m[x] < n => f[x] = e[x]
<1> USE DEF Shrinks
<1> DEFINE S == {k \in Nat : k <= n => \A x \in D : m[x] < k => f[x] = e[x]}
<1>1. 0 \in S
  OBVIOUS
<1>2. ASSUME NEW k \in S PROVE k + 1 \in S
  <2> SUFFICES ASSUME k + 1 <= n, NEW x \in D, m[x] < k + 1 PROVE f[x] = e[x]
    OBVIOUS
  <2>1. m[x] \in Nat /\ k \in Nat /\ m[x] < n /\ k <= n
    OBVIOUS
  <2>2. CASE x \in halt
    BY <2>1, <2>2 DEF SolvedAt
  <2>3. CASE x \notin halt
    <3>1. g[x] \in D /\ m[g[x]] < k
      <4>1. g[x] \in D /\ m[g[x]] < m[x] /\ m[g[x]] \in Nat
        BY <2>3
      <4> QED
        BY <4>1, <2>1
    <3>2. f[g[x]] = e[g[x]]
      BY <2>1, <3>1
    <3> QED
      BY <2>1, <2>3, <3>2 DEF SolvedAt
  <2> QED
    BY <2>2, <2>3
<1>3. n \in S
  <2>1. S \in SUBSET Nat
    OBVIOUS
  <2> HIDE DEF S
  <2> QED
    BY <1>1, <1>2, <2>1, SetInduction
<1>4. n <= n
  OBVIOUS
<1> QED
  BY <1>3, <1>4

(* A recursive function whose measure shrinks exists.                      *)
LEMMA MeasureRecursion ==
  ASSUME NEW D, NEW m, NEW halt, NEW X, NEW h, NEW g, NEW op,
         Shrinks(D, m, halt, X, h, g, op)
  PROVE  \E f \in [D -> X] : \A x \in D : SolvedAt(f, x, halt, h, g, op)
<1> DEFINE Good(f, n) == \A x \in D : m[x] < n => SolvedAt(f, x, halt, h, g, op)
           pick(n) == CHOOSE f \in [D -> X] : Good(f, n)
           F == [x \in D |-> pick(m[x] + 1)[x]]
<1>1. \A n \in Nat : pick(n) \in [D -> X] /\ Good(pick(n), n)
  <2>1. \A n \in Nat : \E f \in [D -> X] : Good(f, n)
    BY PartlySolved
  <2> HIDE DEF Good
  <2> QED
    BY <2>1
<1>2. \A x \in D : m[x] \in Nat /\ m[x] + 1 \in Nat /\ m[x] < m[x] + 1
  BY DEF Shrinks
<1>3. ASSUME NEW x \in D, NEW n \in Nat, m[x] < n
      PROVE  pick(n)[x] = F[x]
  <2>1. \A y \in D : m[y] < m[x] + 1 => m[y] < n
    <3> SUFFICES ASSUME NEW y \in D, m[y] < m[x] + 1 PROVE m[y] < n
      OBVIOUS
    <3>1. m[y] \in Nat /\ m[x] \in Nat
      BY <1>2
    <3> QED
      BY <3>1, <1>3
  <2>2. Good(pick(n), m[x] + 1) /\ Good(pick(m[x] + 1), m[x] + 1)
    <3>1. Good(pick(n), n) /\ Good(pick(m[x] + 1), m[x] + 1)
      BY <1>1, <1>2
    <3> HIDE DEF pick
    <3> QED
      BY <2>1, <3>1
  <2>3. \A y \in D : m[y] < m[x] + 1 => pick(n)[y] = pick(m[x] + 1)[y]
    <3> HIDE DEF pick
    <3> QED
      BY <1>2, <2>2, SolvedOnce
  <2> HIDE DEF pick
  <2> QED
    BY <1>2, <2>3
<1>4. F \in [D -> X]
  <2> HIDE DEF pick
  <2> QED
    BY <1>1, <1>2
<1>5. ASSUME NEW x \in D PROVE SolvedAt(F, x, halt, h, g, op)
  <2> DEFINE f == pick(m[x] + 1)
  <2>1. SolvedAt(f, x, halt, h, g, op)
    <3>1. Good(f, m[x] + 1)
      BY <1>1, <1>2
    <3> HIDE DEF f
    <3> QED
      BY <1>2, <3>1
  <2>2. F[x] = f[x]
    OBVIOUS
  <2>3. x \notin halt => F[g[x]] = f[g[x]]
    <3> HAVE x \notin halt
    <3>1. g[x] \in D /\ m[g[x]] < m[x] + 1
      <4>1. g[x] \in D /\ m[g[x]] < m[x] /\ m[g[x]] \in Nat /\ m[x] \in Nat
        BY DEF Shrinks
      <4> QED
        BY <4>1
    <3> HIDE DEF pick, F
    <3> QED
      BY <1>2, <1>3, <3>1
  <2> HIDE DEF f, F
  <2> QED
    BY <2>1, <2>2, <2>3 DEF SolvedAt
<1> HIDE DEF F
<1> QED
  BY <1>4, <1>5

-----------------------------------------------------------------------------
(* Elements where a buffer ends with them.                                 *)

(* buf ends with y, which starts at i.                                     *)
Ends(buf, i, y) ==
  /\ buf \in Octets /\ y \in Octets /\ i \in Nat \ {0}
  /\ i + Len(y) = Len(buf) + 1
  /\ \A k \in 1..Len(y) : buf[i + k - 1] = y[k]

(* A buffer ends with itself.                                              *)
LEMMA EndsWhole ==
  ASSUME NEW y \in Octets PROVE Ends(y, 1, y)
  BY DEF Ends, Octets

(* Octets of a concatenation.                                              *)
LEMMA JoinOctets ==
  ASSUME NEW x \in Octets, NEW y \in Octets
  PROVE  x \o y \in Octets /\ Len(x \o y) = Len(x) + Len(y) /\ Len(x) \in Nat /\ Len(y) \in Nat
  BY DEF Octets

(* What is left after the first part.                                      *)
LEMMA EndsAfter ==
  ASSUME NEW x \in Octets, NEW y \in Octets, NEW buf, NEW i, Ends(buf, i, x \o y)
  PROVE  Holds(buf, i, x) /\ Ends(buf, i + Len(x), y)
<1> DEFINE z == x \o y
<1>1. IsJoin(z, x, y)
  BY Joined
<1> HIDE DEF z
<1>2. /\ buf \in Octets /\ i \in Nat \ {0} /\ i + Len(z) = Len(buf) + 1
      /\ \A k \in 1..Len(z) : buf[i + k - 1] = z[k]
  BY DEF Ends, z
<1>3. Len(x) \in Nat /\ Len(y) \in Nat /\ Len(buf) \in Nat /\ Len(z) = Len(x) + Len(y)
  BY <1>1, <1>2 DEF Octets, IsJoin
<1>4. Holds(buf, i, x)
  <2>1. ASSUME NEW k \in 1..Len(x) PROVE buf[i + k - 1] = x[k]
    <3>1. k \in 1..Len(z)
      BY <1>3
    <3> QED
      BY <1>1, <1>2, <3>1 DEF IsJoin
  <2>2. i + Len(x) <= Len(buf) + 1
    BY <1>2, <1>3
  <2> QED
    BY <2>1, <2>2 DEF Holds
<1>5. ASSUME NEW k \in 1..Len(y) PROVE buf[i + Len(x) + k - 1] = y[k]
  <2>1. Len(x) + k \in 1..Len(z) /\ i + (Len(x) + k) - 1 = i + Len(x) + k - 1
    BY <1>2, <1>3
  <2>2. z[Len(x) + k] = y[k]
    BY <1>1 DEF IsJoin
  <2> QED
    BY <1>2, <2>1, <2>2
<1>6. i + Len(x) \in Nat \ {0} /\ i + Len(x) + Len(y) = Len(buf) + 1
  BY <1>2, <1>3
<1> QED
  BY <1>2, <1>4, <1>5, <1>6 DEF Ends

(* An element whose length the presentation layer can write.               *)
IsElement(t, b) == t \in Octet /\ b \in Octets /\ Len(b) < 65536

(* The octets of a block.                                                  *)
LEMMA BlockOctets ==
  ASSUME NEW t \in Octet, NEW b \in Octets
  PROVE  /\ Block(t, b) \in Octets /\ Len(Block(t, b)) = 1 + LL(Len(b)) + Len(b)
         /\ Block(t, b) = <<t>> \o encodeLength(Len(b)) \o b
         /\ Len(b) \in Nat /\ LL(Len(b)) \in 1..3
<1>1. IsBlock(Block(t, b), t, b, encodeLength(Len(b)))
  BY BlockShape
<1>2. Len(b) \in Nat
  BY DEF Octets
<1>3. LL(Len(b)) \in 1..3
  BY <1>2, LLType
<1>4. Block(t, b) \in Octets /\ Len(Block(t, b)) = 1 + LL(Len(b)) + Len(b)
  BY <1>1 DEF IsBlock, LL
<1>5. Block(t, b) = <<t>> \o encodeLength(Len(b)) \o b
  BY DEF Block, With
<1> QED
  BY <1>2, <1>3, <1>4, <1>5

(* The counts of length octets that a decoder accepts, one and two among   *)
(* them.                                                                   *)
Counts(c) == c \in SUBSET Nat /\ 1 \in c /\ 2 \in c

(* Where the element after the element (t, b) at i starts.                 *)
After(i, b) == i + 1 + LL(Len(b)) + Len(b)

(* Reading the element that leads what is left.                            *)
LEMMA ReadElement ==
  ASSUME NEW c, Counts(c), NEW t, NEW b, IsElement(t, b), NEW y \in Octets,
         NEW buf, NEW i, Ends(buf, i, Block(t, b) \o y)
  PROVE  /\ buf[i] = t
         /\ i + 1 <= Len(buf)
         /\ LengthAmong(c, buf, i + 1) = Decoded(Len(b), i + 1 + LL(Len(b)))
         /\ Slice(buf, i + 1 + LL(Len(b)), Len(b)) = Decoded(b, After(i, b))
         /\ Holds(buf, i + 1 + LL(Len(b)), b)
         /\ After(i, b) \in Nat /\ After(i, b) > i /\ After(i, b) <= Len(buf) + 1
         /\ Ends(buf, After(i, b), y)
<1> DEFINE n == Len(b)
           B == Block(t, b)
           e == encodeLength(n)
<1>1. t \in Octet /\ b \in Octets /\ n < 65536
  BY DEF IsElement
<1>2. /\ B \in Octets /\ Len(B) = 1 + LL(n) + n /\ B = <<t>> \o e \o b
      /\ n \in Nat /\ LL(n) \in 1..3
  BY <1>1, BlockOctets, SMTT(60)
<1>3. buf \in Octets /\ i \in Nat \ {0} /\ Len(buf) \in Nat
  BY DEF Ends, Octets
<1>4. Holds(buf, i, B) /\ Ends(buf, i + Len(B), y)
  BY <1>2, EndsAfter
<1>5. IsBlock(B, t, b, e)
  BY <1>1, BlockShape
<1> HIDE DEF B
<1>6. i + (1 + LL(n) + n) <= Len(buf) + 1 /\ \A k \in 1..(1 + LL(n) + n) : buf[i + k - 1] = B[k]
  BY <1>2, <1>4 DEF Holds
<1>7. buf[i] = t
  <2>1. 1 \in 1..(1 + LL(n) + n) /\ i + 1 - 1 = i
    BY <1>2, <1>3
  <2> QED
    BY <1>5, <1>6, <2>1 DEF IsBlock
<1>8. Holds(buf, i + 1, e)
  <2>1. ASSUME NEW k \in 1..LL(n) PROVE buf[i + 1 + k - 1] = e[k]
    <3>1. 1 + k \in 1..(1 + LL(n) + n) /\ i + (1 + k) - 1 = i + 1 + k - 1
      BY <1>2, <1>3
    <3>2. B[1 + k] = e[k]
      BY <1>5 DEF IsBlock, LL
    <3> QED
      BY <1>6, <3>1, <3>2
  <2>2. i + 1 + LL(n) <= Len(buf) + 1
    BY <1>2, <1>3, <1>6
  <2> QED
    BY <2>1, <2>2 DEF Holds, LL
<1>9. Holds(buf, i + 1 + LL(n), b)
  <2>1. ASSUME NEW k \in 1..n PROVE buf[i + 1 + LL(n) + k - 1] = b[k]
    <3>1. 1 + LL(n) + k \in 1..(1 + LL(n) + n) /\ i + (1 + LL(n) + k) - 1 = i + 1 + LL(n) + k - 1
      <4>1. PICK q \in Nat : q = LL(n)
        BY <1>2
      <4>2. 1 + q + k \in 1..(1 + q + n) /\ i + (1 + q + k) - 1 = i + 1 + q + k - 1
        BY <1>2, <1>3
      <4> QED
        BY <4>1, <4>2
    <3>2. B[1 + LL(n) + k] = b[k]
      BY <1>5 DEF IsBlock, LL
    <3> QED
      BY <1>6, <3>1, <3>2
  <2>2. i + 1 + LL(n) + n <= Len(buf) + 1
    BY <1>2, <1>3, <1>6, SMTT(60)
  <2> QED
    BY <2>1, <2>2 DEF Holds
<1>10. LengthAmong(c, buf, i + 1) = Decoded(n, i + 1 + LL(n))
  <2>1. i + 1 \in Nat \ {0} /\ n < 65792 /\ Announced(n) = n
    BY <1>1, <1>2, <1>3 DEF Announced
  <2>2. i + 1 + Len(e) - 1 <= Len(buf) /\ \A k \in 1..Len(e) : buf[i + 1 + k - 1] = e[k]
    <3>1. i + 1 + LL(n) <= Len(buf) + 1 /\ \A k \in 1..Len(e) : buf[i + 1 + k - 1] = e[k]
      BY <1>8 DEF Holds, LL
    <3>2. i + 1 + LL(n) - 1 <= Len(buf)
      BY <1>2, <1>3, <3>1
    <3> QED
      BY <3>1, <3>2 DEF LL
  <2>3. buf \in Seq(Octet) /\ 1 \in c /\ 2 \in c
    BY <1>3 DEF Octets, Counts
  <2>4. n \in Nat
    BY <1>2
  <2> HIDE DEF n, e
  <2> DEFINE j == i + 1
  <2>5. LengthAmong(c, buf, j) = Decoded(Announced(n), j + Len(e))
    <3>1. /\ j \in Nat \ {0} /\ n < 65792 /\ j + Len(encodeLength(n)) - 1 <= Len(buf)
          /\ \A k \in 1..Len(encodeLength(n)) : buf[j + k - 1] = encodeLength(n)[k]
      BY <2>1, <2>2 DEF e
    <3> HIDE DEF j
    <3> QED
      BY <2>3, <2>4, <3>1, DecodeEncoded, SMTT(60) DEF e
  <2> QED
    BY <2>1, <2>5 DEF e, LL
<1>11. After(i, b) = i + 1 + LL(n) + n /\ After(i, b) = i + Len(B)
  <2>1. PICK q \in Nat : q = LL(n)
    BY <1>2
  <2>2. i + 1 + q + n = i + (1 + q + n)
    BY <1>2, <1>3
  <2>3. After(i, b) = i + 1 + LL(n) + n
    BY DEF After
  <2> HIDE DEF n
  <2> QED
    BY <1>2, <2>1, <2>2, <2>3
<1>12. Slice(buf, i + 1 + LL(n), n) = Decoded(b, After(i, b))
  <2>1. i + 1 + LL(n) \in Nat \ {0}
    BY <1>2, <1>3
  <2> QED
    BY <1>1, <1>3, <1>9, <1>11, <2>1, WholeSlice
<1>13. After(i, b) \in Nat /\ After(i, b) > i /\ i + 1 <= Len(buf) /\ After(i, b) <= Len(buf) + 1
  BY <1>2, <1>3, <1>6, <1>11
<1> QED
  BY <1>4, <1>7, <1>9, <1>10, <1>11, <1>12, <1>13 DEF n

(* What Find does in a buffer that ends with y: it finds the element       *)
(* tagged wanted, with body b.                                             *)
Finds(c, y, wanted, b) ==
  \A buf, i : Ends(buf, i, y) =>
    LET f == Cut(buf, Find(c, buf, i, Len(buf) + 1, wanted)) IN f.ok /\ f.val = b

(* The element that leads is found.                                        *)
LEMMA FindsFirst ==
  ASSUME NEW c, Counts(c), NEW t, NEW b, IsElement(t, b), NEW y \in Octets
  PROVE  Finds(c, Block(t, b) \o y, t, b)
<1> SUFFICES ASSUME NEW buf, NEW i, Ends(buf, i, Block(t, b) \o y)
             PROVE  LET f == Cut(buf, Find(c, buf, i, Len(buf) + 1, t)) IN f.ok /\ f.val = b
  BY DEF Finds
<1> DEFINE l == Decoded(Len(b), i + 1 + LL(Len(b)))
<1>1. /\ buf[i] = t /\ i + 1 <= Len(buf) /\ LengthAmong(c, buf, i + 1) = l
      /\ Slice(buf, i + 1 + LL(Len(b)), Len(b)) = Decoded(b, After(i, b))
  BY ReadElement
<1>2. c \in SUBSET Nat /\ buf \in Seq(Octet) /\ i \in Nat /\ Len(buf) \in Nat
  BY DEF Counts, Ends, Octets
<1>3. l.ok /\ l.val = Len(b) /\ l.pos = i + 1 + LL(Len(b))
  BY DecodedFields
<1>4. Find(c, buf, i, Len(buf) + 1, t) = l
  <2>1. ~(i >= Len(buf) + 1) /\ Len(buf) + 1 \in Nat
    BY <1>1, <1>2
  <2> HIDE DEF l
  <2> QED
    BY <1>1, <1>2, <1>3, <2>1, FindUnfold
<1>5. Cut(buf, l) = Decoded(b, After(i, b))
  <2> HIDE DEF l
  <2> QED
    BY <1>1, <1>3, CutIs
<1> QED
  BY <1>4, <1>5, DecodedFields

(* An element with another tag is passed.                                  *)
LEMMA FindsNext ==
  ASSUME NEW c, Counts(c), NEW t, NEW x, IsElement(t, x), NEW y \in Octets,
         NEW wanted, t # wanted, NEW b, Finds(c, y, wanted, b)
  PROVE  Finds(c, Block(t, x) \o y, wanted, b)
<1> SUFFICES ASSUME NEW buf, NEW i, Ends(buf, i, Block(t, x) \o y)
             PROVE  LET f == Cut(buf, Find(c, buf, i, Len(buf) + 1, wanted))
                    IN  f.ok /\ f.val = b
  BY DEF Finds
<1> DEFINE l == Decoded(Len(x), i + 1 + LL(Len(x)))
           j == After(i, x)
<1>1. /\ buf[i] = t /\ i + 1 <= Len(buf) /\ LengthAmong(c, buf, i + 1) = l
      /\ Ends(buf, j, y)
  BY ReadElement
<1>2. c \in SUBSET Nat /\ buf \in Seq(Octet) /\ i \in Nat /\ Len(buf) \in Nat
  BY DEF Counts, Ends, Octets
<1>3. l.ok /\ l.pos + l.val = j
  BY DecodedFields DEF After
<1>4. Find(c, buf, i, Len(buf) + 1, wanted) = Find(c, buf, j, Len(buf) + 1, wanted)
  <2>1. ~(i >= Len(buf) + 1) /\ Len(buf) + 1 \in Nat
    BY <1>1, <1>2
  <2>2. buf[i] # wanted
    BY <1>1
  <2> HIDE DEF l, j
  <2> QED
    BY <1>1, <1>2, <1>3, <2>1, <2>2, FindUnfold
<1> QED
  BY <1>1, <1>4 DEF Finds

-----------------------------------------------------------------------------
(* ISO session.                                                            *)

(* Small numbers are octets.                                               *)
LEMMA SmallOctet ==
  ASSUME NEW n \in Nat, n < 256 PROVE n \in Octet
  BY DEF Octet

(* Concatenation is associative.                                           *)
LEMMA JoinAssociative ==
  ASSUME NEW x \in Octets, NEW y \in Octets, NEW z \in Octets
  PROVE  (x \o y) \o z = x \o (y \o z)
  BY DEF Octets

(* The recursive function in extractUserData.                              *)
UserDataFrom(params) ==
  LET at[i \in Nat] ==
        IF i + 1 > Len(params) THEN Fail
        ELSE LET n == params[i + 1]
                 left == Len(params) - (i + 1)
             IN IF params[i] = 193
                THEN Slice(params, i + 2, IF n > left THEN left ELSE n)
                ELSE at[i + 2 + n]
  IN at

(* What it takes of a parameter: its length, or what is left of the SPDU.  *)
Taken(x, i) ==
  Slice(x, i + 2, IF x[i + 1] > Len(x) - (i + 1) THEN Len(x) - (i + 1) ELSE x[i + 1])

(* The user data is marked by PGI C1.                                      *)
IsPgi(x, i) == x[i] = 193

(* It exists: each parameter moves the position on.                        *)
LEMMA UserDataStep ==
  ASSUME NEW x \in Octets, NEW i \in Nat
  PROVE  UserDataFrom(x)[i] =
           IF i + 1 > Len(x) THEN Fail
           ELSE IF IsPgi(x, i) THEN Taken(x, i)
           ELSE UserDataFrom(x)[i + 2 + x[i + 1]]
<1> DEFINE cut(j) == Taken(x, j)
           body(f) == [j \in Nat |->
                         IF j + 1 > Len(x) THEN Fail
                         ELSE IF IsPgi(x, j) THEN cut(j) ELSE f[j + 2 + x[j + 1]]]
           at == CHOOSE f : f = body(f)
           end == Len(x)
           X == {Fail} \cup {cut(j) : j \in Nat}
           halt == {j \in Nat : j + 1 > Len(x) \/ IsPgi(x, j)}
           h == [j \in Nat |-> IF j + 1 > Len(x) THEN Fail ELSE cut(j)]
           g == [j \in Nat |-> IF j \in halt THEN j ELSE j + 2 + x[j + 1]]
<1>0. Len(x) \in Nat
  BY DEF Octets
<1>1. UserDataFrom(x) = at
  BY DEF UserDataFrom, Taken, IsPgi
<1>2. \A j \in Nat : j + 1 <= Len(x) => j + 2 + x[j + 1] \in Nat /\ j + 2 + x[j + 1] > j
  <2> SUFFICES ASSUME NEW j \in Nat, j + 1 <= Len(x)
               PROVE  j + 2 + x[j + 1] \in Nat /\ j + 2 + x[j + 1] > j
    OBVIOUS
  <2>1. x[j + 1] \in Nat
    BY OctetAt DEF Octets
  <2> QED
    BY <2>1
<1>3. PICK f : f = body(f)
  <2>1. PICK f \in [Nat -> X] : \A j \in Nat : f[j] = IF j \in halt THEN h[j] ELSE f[g[j]]
    <3> HIDE DEF cut
    <3>1. halt \in SUBSET Nat /\ h \in [Nat -> X] /\ end \in Nat
      BY <1>0
    <3>2. g \in [Nat -> Nat]
      BY <1>0, <1>2
    <3>3. \A j \in Nat : j >= end => j \in halt
      BY <1>0
    <3>4. \A j \in Nat \ halt : g[j] > j
      BY <1>0, <1>2
    <3> HIDE DEF halt, h, g, X, end
    <3>5. Progress(end, halt, X, h, g)
      BY <3>1, <3>2, <3>3, <3>4 DEF Progress
    <3>6. Solvable(halt, X, h, g)
      BY <3>5, ForwardRecursion
    <3> QED
      BY <3>6 DEF Solvable
  <2>2. \A j \in Nat : f[j] = body(f)[j]
    <3> HIDE DEF cut
    <3> QED
      BY <2>1
  <2>3. f = body(f)
    <3>1. f \in [Nat -> X]
      OBVIOUS
    <3> HIDE DEF X, cut
    <3> QED
      BY <2>2, <3>1
  <2> HIDE DEF body
  <2> QED
    BY <2>3
<1>4. at = body(at)
  <2> HIDE DEF body
  <2> QED
    BY <1>3
<1>5. at[i] = body(at)[i]
  <2> HIDE DEF at, body
  <2> QED
    BY <1>4
<1> HIDE DEF at
<1> QED
  BY <1>1, <1>5

(* The user data.                                                          *)
LEMMA UserDataHere ==
  ASSUME NEW x \in Octets, NEW i \in Nat, NEW d \in Nat, x[i] = 193, x[i + 1] = d,
         Len(x) = i + 1 + d
  PROVE  UserDataFrom(x)[i] = Slice(x, i + 2, d)
<1>1. ~(i + 1 > Len(x)) /\ Len(x) - (i + 1) = d /\ ~(d > d) /\ IsPgi(x, i)
  BY DEF IsPgi
<1>2. UserDataFrom(x)[i] = Taken(x, i)
  BY <1>1, UserDataStep, ZenonT(60)
<1>3. (IF x[i + 1] > Len(x) - (i + 1) THEN Len(x) - (i + 1) ELSE x[i + 1]) = d
  BY <1>1
<1> QED
  BY <1>2, <1>3, Zenon DEF Taken

(* extractUserData starts at the first parameter.                          *)
LEMMA ExtractIs ==
  ASSUME NEW x PROVE extractUserData(x) = UserDataFrom(x)[1]
  BY DEF extractUserData, UserDataFrom

(* x holds h at i as far as x goes.                                        *)
Agrees(x, i, h) ==
  /\ x \in Octets /\ i \in Nat \ {0} /\ h \in Octets
  /\ \A k \in 1..Len(h) : i + k - 1 <= Len(x) => x[i + k - 1] = h[k]

(* The parameters h are passed over, or the SPDU ends inside them.         *)
Passed(h) ==
  /\ h \in Octets
  /\ \A x, i : Agrees(x, i, h) => UserDataFrom(x)[i] = UserDataFrom(x)[i + Len(h)]

(* One parameter that is not the user data.                                *)
LEMMA PassedOne ==
  ASSUME NEW h \in Octets, Len(h) >= 2, h[1] # 193, Len(h) = 2 + h[2]
  PROVE  Passed(h)
<1> SUFFICES ASSUME NEW x, NEW i, Agrees(x, i, h)
             PROVE  UserDataFrom(x)[i] = UserDataFrom(x)[i + Len(h)]
  BY DEF Passed
<1>1. x \in Octets /\ i \in Nat \ {0} /\ Len(x) \in Nat /\ Len(h) \in Nat /\ i + Len(h) \in Nat
  BY DEF Agrees, Octets
<1>2. CASE i + 1 > Len(x)
  <2>1. i + Len(h) + 1 > Len(x)
    BY <1>1, <1>2
  <2>2. UserDataFrom(x)[i] = Fail
    BY <1>1, <1>2, UserDataStep
  <2>3. UserDataFrom(x)[i + Len(h)] = Fail
    BY <1>1, <2>1, UserDataStep
  <2> QED
    BY <2>2, <2>3
<1>3. CASE i + 1 <= Len(x)
  <2>1. x[i] = h[1] /\ x[i + 1] = h[2]
    <3>1. 1 \in 1..Len(h) /\ 2 \in 1..Len(h) /\ i + 1 - 1 = i /\ i + 2 - 1 = i + 1
          /\ i <= Len(x)
      BY <1>1, <1>3
    <3> QED
      BY <1>3, <3>1 DEF Agrees
  <2>2. h[2] \in Nat
    BY OctetAt DEF Octets
  <2>3. i + 2 + h[2] = i + Len(h)
    BY <1>1, <2>2
  <2>4. ~(i + 1 > Len(x))
    BY <1>1, <1>3
  <2>5. ~IsPgi(x, i)
    BY <2>1 DEF IsPgi
  <2>6. UserDataFrom(x)[i] = UserDataFrom(x)[i + 2 + x[i + 1]]
    BY <1>1, <2>4, <2>5, UserDataStep
  <2> QED
    BY <2>1, <2>3, <2>6
<1> QED
  BY <1>1, <1>2, <1>3

(* Parameters after parameters.                                            *)
LEMMA PassedMore ==
  ASSUME NEW h, NEW e, Passed(h), Passed(e)
  PROVE  Passed(h \o e)
<1> DEFINE z == h \o e
<1>1. IsJoin(z, h, e) /\ z \in Octets
  BY Joined, JoinOctets DEF Passed
<1> HIDE DEF z
<1> SUFFICES ASSUME NEW x, NEW i, Agrees(x, i, z)
             PROVE  UserDataFrom(x)[i] = UserDataFrom(x)[i + Len(z)]
  BY <1>1 DEF Passed, z
<1>2. /\ x \in Octets /\ i \in Nat \ {0} /\ Len(x) \in Nat /\ Len(h) \in Nat
      /\ Len(e) \in Nat /\ Len(z) = Len(h) + Len(e) /\ h \in Octets /\ e \in Octets
  BY <1>1 DEF Agrees, Octets, IsJoin, Passed
<1>3. \A k \in 1..Len(z) : i + k - 1 <= Len(x) => x[i + k - 1] = z[k]
  BY DEF Agrees
<1>4. Agrees(x, i, h)
  <2>1. ASSUME NEW k \in 1..Len(h), i + k - 1 <= Len(x) PROVE x[i + k - 1] = h[k]
    <3>1. k \in 1..Len(z)
      BY <1>2
    <3> QED
      BY <1>1, <1>3, <2>1, <3>1 DEF IsJoin
  <2> QED
    BY <1>2, <2>1 DEF Agrees
<1> DEFINE j == i + Len(h)
<1>5. Agrees(x, j, e)
  <2>1. ASSUME NEW k \in 1..Len(e), j + k - 1 <= Len(x) PROVE x[j + k - 1] = e[k]
    <3>1. Len(h) + k \in 1..Len(z) /\ i + (Len(h) + k) - 1 = j + k - 1
      BY <1>2
    <3>2. z[Len(h) + k] = e[k]
      BY <1>1 DEF IsJoin
    <3> QED
      BY <1>3, <2>1, <3>1, <3>2
  <2>2. j \in Nat \ {0}
    BY <1>2
  <2> QED
    BY <1>2, <2>1, <2>2 DEF Agrees
<1>6. UserDataFrom(x)[i] = UserDataFrom(x)[j]
  BY <1>4 DEF Passed
<1>7. UserDataFrom(x)[j] = UserDataFrom(x)[j + Len(e)]
  BY <1>5 DEF Passed
<1>8. j + Len(e) = i + Len(z)
  BY <1>2
<1> QED
  BY <1>6, <1>7, <1>8

(* The parameters of the CN and the AC SPDU.                               *)
ConnectParams == ConnectAcceptItem \o SessionRequirement \o Selector(51) \o Selector(52)
AcceptParams == ConnectAcceptItem \o SessionRequirement \o Selector(52)

(* Both are passed over.                                                   *)
LEMMA ParamsPassed ==
  /\ Passed(ConnectParams) /\ Len(ConnectParams) = 20
  /\ Passed(AcceptParams) /\ Len(AcceptParams) = 16
<1> DEFINE a == ConnectAcceptItem
           r == SessionRequirement
           s == Selector(51)
           t == Selector(52)
<1>1. a \in Octets /\ Len(a) = 8 /\ a[1] = 5 /\ a[2] = 6
  BY DEF ConnectAcceptItem, Octets, Octet
<1>2. r \in Octets /\ Len(r) = 4 /\ r[1] = 20 /\ r[2] = 2
  BY DEF SessionRequirement, Octets, Octet
<1>3. s \in Octets /\ Len(s) = 4 /\ s[1] = 51 /\ s[2] = 2
  BY DEF Selector, Octets, Octet
<1>4. t \in Octets /\ Len(t) = 4 /\ t[1] = 52 /\ t[2] = 2
  BY DEF Selector, Octets, Octet
<1> HIDE DEF a, r, s, t
<1>5. Passed(a)
  <2>1. Len(a) >= 2 /\ a[1] # 193 /\ Len(a) = 2 + a[2]
    BY <1>1
  <2> QED
    BY <1>1, <2>1, PassedOne, ZenonT(60)
<1>6. Passed(r)
  <2>1. Len(r) >= 2 /\ r[1] # 193 /\ Len(r) = 2 + r[2]
    BY <1>2
  <2> QED
    BY <1>2, <2>1, PassedOne, ZenonT(60)
<1>7. Passed(s)
  <2>1. Len(s) >= 2 /\ s[1] # 193 /\ Len(s) = 2 + s[2]
    BY <1>3
  <2> QED
    BY <1>3, <2>1, PassedOne, ZenonT(60)
<1>8. Passed(t)
  <2>1. Len(t) >= 2 /\ t[1] # 193 /\ Len(t) = 2 + t[2]
    BY <1>4
  <2> QED
    BY <1>4, <2>1, PassedOne, ZenonT(60)
<1>9. Passed(a \o r) /\ Len(a \o r) = 12 /\ a \o r \in Octets
  <2>1. Passed(a \o r)
    BY <1>5, <1>6, PassedMore
  <2>2. Len(a \o r) = Len(a) + Len(r) /\ a \o r \in Octets
    BY <1>1, <1>2, JoinOctets
  <2> QED
    BY <1>1, <1>2, <2>1, <2>2
<1> DEFINE ar == a \o r
<1> HIDE DEF ar
<1>10. Passed(ar \o s) /\ Len(ar \o s) = 16 /\ ar \o s \in Octets
  <2>1. Passed(ar \o s)
    BY <1>7, <1>9, PassedMore DEF ar
  <2>2. Len(ar \o s) = Len(ar) + Len(s) /\ ar \o s \in Octets
    BY <1>3, <1>9, JoinOctets DEF ar
  <2> QED
    BY <1>3, <1>9, <2>1, <2>2 DEF ar
<1>11. Passed(ar \o t) /\ Len(ar \o t) = 16
  <2>1. Passed(ar \o t)
    BY <1>8, <1>9, PassedMore DEF ar
  <2>2. Len(ar \o t) = Len(ar) + Len(t)
    BY <1>4, <1>9, JoinOctets DEF ar
  <2> QED
    BY <1>4, <1>9, <2>1, <2>2 DEF ar
<1> DEFINE ars == ar \o s
<1> HIDE DEF ars
<1>12. Passed(ars \o t) /\ Len(ars \o t) = 20
  <2>1. Passed(ars \o t)
    BY <1>8, <1>10, PassedMore DEF ars
  <2>2. Len(ars \o t) = Len(ars) + Len(t)
    BY <1>4, <1>10, JoinOctets DEF ars
  <2> QED
    BY <1>4, <1>10, <2>1, <2>2 DEF ars
<1> QED
  BY <1>11, <1>12 DEF ConnectParams, AcceptParams, ars, ar, a, r, s, t

(* What an SPDU with the parameters h gives back of the user data p, whose *)
(* length it writes modulo 256.                                            *)
LEMMA SpduParsed ==
  ASSUME NEW type \in Octet, NEW h, Passed(h), NEW p \in Octets, NEW H \in Nat,
         H = Len(h) + 2, H < 256, NEW w \in Nat, w = (H + Len(p)) % 256
  PROVE  /\ Spdu(type, h, p) \in Octets /\ Len(Spdu(type, h, p)) = 2 + H + Len(p)
         /\ ParseSPDU(type, Spdu(type, h, p)) =
              IF w < H THEN Fail ELSE Decoded(SubSeq(p, 1, w - H), w + 1)
<1> DEFINE n == Len(p)
           c == n % 256
           u == <<type, w>>
           v == <<193, c>>
           hv == h \o v
           rest == hv \o p
           z == u \o rest
           x == SubSeq(z, 3, 2 + w)
<1>1. n \in Nat /\ h \in Octets /\ Len(h) \in Nat /\ w < 256 /\ w <= H + n /\ c \in Nat /\ c < 256
  BY DEF Octets, Passed
<1>2. u \in Octets /\ Len(u) = 2 /\ u[1] = type /\ u[2] = w
  <2>1. w \in Octet
    BY <1>1, SmallOctet
  <2> QED
    BY <2>1 DEF Octets
<1>3. v \in Octets /\ Len(v) = 2 /\ v[1] = 193 /\ v[2] = c
  <2>1. c \in Octet /\ 193 \in Octet
    <3> HIDE DEF c
    <3> QED
      BY <1>1, SmallOctet
  <2> HIDE DEF c
  <2> QED
    BY <2>1 DEF Octets
<1> HIDE DEF c
<1>4. Spdu(type, h, p) = u \o h \o v \o p
  <2>1. (Len(h) + 2 + Len(p)) % 256 = w
    OBVIOUS
  <2> QED
    BY <2>1, ZenonT(60) DEF Spdu, With, c
<1> HIDE DEF u, v
<1>5. IsJoin(hv, h, v) /\ hv \in Octets /\ Len(hv) = H
  <2>0. h \in Octets /\ v \in Octets
    BY <1>1, <1>3
  <2>1. IsJoin(hv, h, v) /\ hv \in Octets /\ Len(hv) = Len(h) + Len(v)
    BY <2>0, Joined, JoinOctets
  <2> HIDE DEF hv
  <2> QED
    BY <1>1, <1>3, <2>1
<1>6. u \o h \o v \o p = z
  <2>1. (u \o h) \o v = u \o (h \o v)
    BY <1>1, <1>2, <1>3, JoinAssociative
  <2>2. (u \o hv) \o p = u \o (hv \o p)
    <3> HIDE DEF hv
    <3> QED
      BY <1>2, <1>5, JoinAssociative
  <2> QED
    BY <2>1, <2>2
<1> HIDE DEF hv
<1>7. IsJoin(rest, hv, p) /\ rest \in Octets /\ Len(rest) = H + n
  BY <1>1, <1>5, Joined, JoinOctets, ZenonT(60)
<1> HIDE DEF rest
<1>8. IsJoin(z, u, rest) /\ z \in Octets /\ Len(z) = 2 + H + n
  <2>1. IsJoin(z, u, rest) /\ z \in Octets /\ Len(z) = 2 + (H + n)
    BY <1>2, <1>7, Joined, JoinOctets
  <2> QED
    BY <1>1, <2>1
<1> HIDE DEF z
<1>9. z[1] = type /\ z[2] = w
  BY <1>2, <1>8 DEF IsJoin
<1>10. x \in Octets /\ Len(x) = w /\ \A k \in 1..w : x[k] = rest[k]
  <2>1. x \in Octets /\ Len(x) = w /\ \A k \in 1..w : x[k] = z[2 + k]
    BY <1>1, <1>8 DEF Octets
  <2>2. \A k \in 1..w : k \in 1..Len(rest)
    BY <1>1, <1>7
  <2>3. \A k \in 1..Len(rest) : z[2 + k] = rest[k]
    BY <1>2, <1>8 DEF IsJoin
  <2> HIDE DEF x
  <2> QED
    BY <2>1, <2>2, <2>3
<1>11. ParseSPDU(type, z) = extractUserData(x)
  <2>1. ~(Len(z) < 2) /\ ~(Len(z) < 2 + w)
    BY <1>1, <1>8
  <2> QED
    BY <1>9, <2>1 DEF ParseSPDU, With
<1> HIDE DEF x
<1>12. UserDataFrom(x)[1] = UserDataFrom(x)[1 + Len(h)]
  <2>1. ASSUME NEW k \in 1..Len(h), 1 + k - 1 <= Len(x) PROVE x[1 + k - 1] = h[k]
    <3>1. 1 + k - 1 = k /\ k \in 1..w /\ k \in 1..Len(hv)
      BY <1>1, <1>5, <1>10, <2>1
    <3> QED
      BY <1>5, <1>7, <1>10, <3>1 DEF IsJoin
  <2>2. Agrees(x, 1, h)
    BY <1>1, <1>10, <2>1 DEF Agrees
  <2> QED
    BY <2>2 DEF Passed
<1> DEFINE i == H - 1
<1>13. i \in Nat \ {0} /\ 1 + Len(h) = i /\ i + 1 = H
  BY <1>1
<1>14. extractUserData(x) = UserDataFrom(x)[i]
  BY <1>12, <1>13, ExtractIs
<1> HIDE DEF i
<1> DEFINE parsed == ParseSPDU(type, Spdu(type, h, p))
           what == IF w < H THEN Fail ELSE Decoded(SubSeq(p, 1, w - H), w + 1)
<1>15. ASSUME w < H PROVE parsed = what
  <2>1. i + 1 > Len(x)
    BY <1>10, <1>13, <1>15
  <2>2. UserDataFrom(x)[i] = Fail
    BY <1>10, <1>13, <2>1, UserDataStep
  <2> QED
    BY <1>4, <1>6, <1>11, <1>14, <1>15, <2>2
<1>16. ASSUME w >= H PROVE parsed = what
  <2>1. x[i] = 193 /\ x[i + 1] = c
    <3>1. i \in 1..w /\ H \in 1..w /\ i \in 1..Len(hv) /\ H \in 1..Len(hv)
          /\ Len(h) + 1 = i /\ Len(h) + 2 = H /\ 1 \in 1..Len(v) /\ 2 \in 1..Len(v)
      BY <1>1, <1>3, <1>5, <1>13, <1>16
    <3>2. hv[i] = 193 /\ hv[H] = c
      BY <1>3, <1>5, <3>1 DEF IsJoin
    <3>3. rest[i] = 193 /\ rest[H] = c
      BY <1>7, <3>1, <3>2 DEF IsJoin
    <3> QED
      BY <1>10, <1>13, <3>1, <3>3
  <2> DEFINE d == w - H
             t == SubSeq(p, 1, d)
  <2>2. d \in Nat /\ c = d /\ d <= n
    BY <1>1, <1>16 DEF c
  <2>3. Len(x) - (i + 1) = d /\ ~(i + 1 > Len(x)) /\ i + 2 = H + 1
    BY <1>10, <1>13, <1>16
  <2>4. UserDataFrom(x)[i] = Slice(x, H + 1, d)
    <3> HIDE DEF d
    <3>1. x[i + 1] = d /\ Len(x) = i + 1 + d
      BY <1>10, <1>13, <2>1, <2>2, <2>3
    <3> QED
      BY <1>10, <1>13, <2>1, <2>2, <2>3, <3>1, UserDataHere, SMTT(60)
  <2>5. t \in Octets /\ Len(t) = d /\ \A k \in 1..d : t[k] = p[k]
    <3> HIDE DEF d
    <3> QED
      BY <2>2, Start DEF IsStart
  <2>6. Slice(x, H + 1, d) = Decoded(t, w + 1)
    <3>1. ASSUME NEW k \in 1..d PROVE x[H + 1 + k - 1] = t[k]
      <4>1. H + 1 + k - 1 = H + k /\ H + k \in 1..w /\ k \in 1..n
        BY <1>1, <2>2
      <4>2. rest[H + k] = p[k]
        BY <1>5, <1>7, <4>1 DEF IsJoin
      <4> QED
        BY <1>10, <2>5, <4>1, <4>2
    <3>2. H + 1 + d = w + 1 /\ H + 1 + d <= Len(x) + 1 /\ H + 1 \in Nat \ {0}
      BY <1>10, <1>16
    <3> HIDE DEF t, d
    <3>3. Holds(x, H + 1, t)
      BY <2>5, <3>1, <3>2 DEF Holds
    <3>4. Slice(x, H + 1, Len(t)) = Decoded(t, H + 1 + Len(t))
      BY <1>10, <2>5, <3>2, <3>3, WholeSlice
    <3> QED
      BY <2>5, <3>2, <3>4
  <2>7. ~(w < H)
    BY <1>16
  <2> QED
    BY <1>4, <1>6, <1>11, <1>14, <2>4, <2>6, <2>7
<1>17. parsed = what
  <2>1. w < H \/ w >= H
    BY <1>1
  <2> QED
    BY <1>15, <1>16, <2>1
<1> QED
  BY <1>4, <1>6, <1>8, <1>17

-----------------------------------------------------------------------------
(* ISO presentation: the outer layer.                                      *)

(* Nothing after the last element.                                         *)
LEMMA JoinNothing ==
  ASSUME NEW x \in Octets PROVE x \o <<>> = x /\ <<>> \in Octets
  BY DEF Octets

(* An element alone in its buffer: its length, its end and its body.       *)
LEMMA ReadOuter ==
  ASSUME NEW c, Counts(c), NEW t, NEW b, IsElement(t, b), NEW B, B = Block(t, b)
  PROVE  LET pos == 2 + LL(Len(b)) IN
         /\ B \in Octets /\ Len(B) >= 2 /\ B[1] = t /\ B # <<>> /\ Head(B) = t
         /\ LengthAmong(c, B, 2) = Decoded(Len(b), pos)
         /\ pos + Len(b) = Len(B) + 1 /\ pos \in Nat \ {0} /\ Len(b) \in Nat
         /\ Slice(B, pos, Len(b)) = Decoded(b, Len(B) + 1)
         /\ Ends(B, pos, b)
<1> DEFINE pos == 2 + LL(Len(b))
<1>1. t \in Octet /\ b \in Octets /\ Len(b) \in Nat /\ LL(Len(b)) \in 1..3
  <2>1. Len(b) \in Nat
    BY DEF IsElement, Octets
  <2> QED
    BY <2>1, LLType DEF IsElement
<1>2. B \in Octets /\ Len(B) = 1 + LL(Len(b)) + Len(b)
  BY <1>1, BlockOctets
<1>3. B = B \o <<>> /\ <<>> \in Octets
  BY <1>2, JoinNothing
<1>4. Ends(B, 1, Block(t, b) \o <<>>)
  BY <1>2, <1>3, EndsWhole
<1>5. /\ B[1] = t
      /\ LengthAmong(c, B, 1 + 1) = Decoded(Len(b), 1 + 1 + LL(Len(b)))
      /\ Slice(B, 1 + 1 + LL(Len(b)), Len(b)) = Decoded(b, After(1, b))
      /\ Holds(B, 1 + 1 + LL(Len(b)), b)
  <2>1. PICK i : i = 1
    OBVIOUS
  <2> DEFINE y == <<>>
  <2>2. Ends(B, i, Block(t, b) \o y) /\ y \in Octets
    BY <1>3, <1>4, <2>1
  <2> HIDE DEF y
  <2>3. /\ B[i] = t
        /\ LengthAmong(c, B, i + 1) = Decoded(Len(b), i + 1 + LL(Len(b)))
        /\ Slice(B, i + 1 + LL(Len(b)), Len(b)) = Decoded(b, After(i, b))
        /\ Holds(B, i + 1 + LL(Len(b)), b)
    BY <2>2, ReadElement
  <2> QED
    BY <2>1, <2>3
<1>6. 1 + 1 = 2
  OBVIOUS
<1>7. pos + Len(b) = Len(B) + 1 /\ pos \in Nat \ {0} /\ Len(B) >= 2 /\ After(1, b) = Len(B) + 1
  <2>1. PICK q \in 1..3 : q = LL(Len(b))
    BY <1>1
  <2>2. PICK n \in Nat : n = Len(b)
    BY <1>1
  <2>3. /\ 2 + q + n = 1 + q + n + 1 /\ 2 + q \in Nat \ {0} /\ 1 + q + n >= 2
        /\ 1 + 1 + q + n = 1 + q + n + 1
    OBVIOUS
  <2> QED
    BY <1>2, <2>1, <2>2, <2>3 DEF After
<1>8. Ends(B, pos, b)
  <2>1. Holds(B, pos, b)
    BY <1>5, <1>6
  <2> HIDE DEF pos
  <2> QED
    BY <1>1, <1>2, <1>7, <2>1 DEF Ends, Holds
<1>9. B # <<>> /\ Head(B) = t
  BY <1>2, <1>5, <1>7 DEF Octets
<1> QED
  BY <1>1, <1>2, <1>5, <1>6, <1>7, <1>8, <1>9

(* The counts of the decoders.                                             *)
LEMMA CountsOf == Counts(1..3) /\ Counts(0..3) /\ Counts(1..4)
  BY DEF Counts

(* A CP or CPA PPDU of which every octet is there: the user data in its    *)
(* normal-mode parameters.                                                 *)
LEMMA PpduParsed ==
  ASSUME NEW body, IsElement(49, body), NEW x \in Octets, Finds(1..3, body, 162, x),
         NEW s, Finds(1..3, x, 97, s)
  PROVE  ParseConnectAcceptPDU(Block(49, body)) = parseFullyEncodedData(s)
<1> DEFINE B == Block(49, body)
           pos == 2 + LL(Len(body))
<1>1. /\ B \in Octets /\ B # <<>> /\ Head(B) = 49
      /\ LengthAmong(1..3, B, 2) = Decoded(Len(body), pos)
      /\ pos + Len(body) = Len(B) + 1 /\ Ends(B, pos, body) /\ Len(B) \in Nat
  <2>1. B = Block(49, body)
    OBVIOUS
  <2> HIDE DEF B
  <2>2. B \in Octets => Len(B) \in Nat
    BY DEF Octets
  <2> QED
    BY <2>1, <2>2, CountsOf, ReadOuter
<1> HIDE DEF B, pos
<1> DEFINE l == decodeLength(B, 2)
           f == Cut(B, Find(1..3, B, pos, Len(B) + 1, 162))
           g == Cut(x, Find(1..3, x, 1, Len(x) + 1, 97))
<1>2. l.ok /\ l.val = Len(body) /\ l.pos = pos
  BY <1>1, DecodedFields DEF decodeLength
<1>3. f.ok /\ f.val = x
  BY <1>1 DEF Finds
<1>4. g.ok /\ g.val = s
  BY EndsWhole DEF Finds
<1>5. l.pos + l.val = Len(B) + 1 /\ ~(l.pos + l.val > Len(B) + 1)
  <2> HIDE DEF l
  <2>1. l.pos + l.val = Len(B) + 1
    BY <1>1, <1>2
  <2>2. ~(Len(B) + 1 > Len(B) + 1)
    BY <1>1
  <2> QED
    BY <2>1, <2>2
<1>6. ParseConnectAcceptPDU(B) = Then(f, parseNormalModeParameters)
  <2>1. f = Cut(B, Find(1..3, B, l.pos, l.pos + l.val, 162))
    BY <1>2, <1>5
  <2> HIDE DEF f
  <2> QED
    BY <1>1, <1>2, <1>5, <2>1, Zenon DEF ParseConnectAcceptPDU
<1>7. Then(f, parseNormalModeParameters) = parseNormalModeParameters(x)
  <2> HIDE DEF f
  <2> QED
    BY <1>3 DEF Then, With
<1>8. parseNormalModeParameters(x) = parseFullyEncodedData(s)
  <2>1. parseNormalModeParameters(x) = Then(g, parseFullyEncodedData)
    BY DEF parseNormalModeParameters
  <2> HIDE DEF g
  <2> QED
    BY <1>4, <2>1 DEF Then, With
<1> QED
  BY <1>6, <1>7, <1>8 DEF B

(* A PPDU cut anywhere before its end is refused: its length is longer     *)
(* than what is left, or is itself cut.                                    *)
LEMMA PpduCut ==
  ASSUME NEW body, IsElement(49, body), NEW d \in Nat, d < Len(Block(49, body))
  PROVE  ParseConnectAcceptPDU(SubSeq(Block(49, body), 1, d)) = Fail
<1> DEFINE n == Len(body)
           e == encodeLength(n)
           B == Block(49, body)
           t == SubSeq(B, 1, d)
<1>1. body \in Octets /\ n \in Nat /\ n < 65536 /\ LL(n) \in 1..3
  <2>1. body \in Octets /\ n \in Nat /\ n < 65536
    BY DEF IsElement, Octets
  <2> HIDE DEF n
  <2> QED
    BY <2>1, LLType
<1>2. IsBlock(B, 49, body, e) /\ B \in Octets /\ Len(B) = 1 + LL(n) + n
  <2>1. 49 \in Octet
    BY DEF Octet
  <2>2. IsBlock(B, 49, body, e)
    BY <1>1, <2>1, BlockShape
  <2> QED
    BY <2>2 DEF IsBlock, LL
<1>3. t \in Octets /\ Len(t) = d /\ \A k \in 1..d : t[k] = B[k]
  <2>1. d <= Len(B)
    BY <1>1, <1>2
  <2> HIDE DEF B
  <2> QED
    BY <1>2, <2>1, Start DEF IsStart
<1>4. d < 1 + LL(n) + n
  BY <1>2
<1>5. \A k \in 1..LL(n) : B[1 + k] = e[k]
  BY <1>2 DEF IsBlock, LL
<1> HIDE DEF B, t
<1>6. ~Fail.ok
  BY DEF Fail
<1>7. CASE d = 0
  <2>1. t = <<>>
    BY <1>3, <1>7 DEF Octets
  <2> QED
    BY <2>1 DEF ParseConnectAcceptPDU, B, t
<1>8. CASE d >= 1 /\ d < 1 + LL(n)
  <2>1. LengthAmong(1..3, t, 2) = Fail
    <3>1. CASE d = 1
      BY <1>3, <3>1, NotThere DEF Octets
    <3>2. CASE d >= 2
      <4>1. LL(n) >= 2 /\ 1 \in 1..LL(n) /\ 2 \in 1..d
        BY <1>1, <1>8, <3>2
      <4>2. t[2] = e[1]
        <5>1. B[1 + 1] = e[1] /\ 1 + 1 = 2
          BY <1>5, <4>1
        <5> QED
          BY <1>3, <4>1, <5>1
      <4>3. e[1] - 128 = LL(n) - 1 /\ ~(e[1] < 128)
        <5>1. CASE n < 128
          <6>1. LL(n) = 1
            BY <1>1, <5>1, LengthOctets DEF LL
          <6> QED
            BY <4>1, <6>1
        <5>2. CASE n \in 128..255
          <6>1. e = <<129, n>>
            BY <5>2 DEF encodeLength
          <6> QED
            BY <6>1, SMTT(60) DEF LL
        <5>3. CASE n > 255
          BY <1>1, <5>3, LongLength
        <5>4. n < 128 \/ n \in 128..255 \/ n > 255
          <6> HIDE DEF n
          <6> QED
            BY <1>1
        <5> QED
          BY <5>1, <5>2, <5>3, <5>4
      <4>4. 2 + (LL(n) - 1) > Len(t)
        BY <1>1, <1>3, <1>8
      <4>5. ~(t[2] < 128) /\ 2 + (t[2] - 128) > Len(t)
        BY <4>2, <4>3, <4>4
      <4>6. t \in Seq(Octet) /\ 2 \in Nat \ {0}
        BY <1>3 DEF Octets
      <4> DEFINE c == 1..3
      <4> HIDE DEF c
      <4>7. LengthAmong(c, t, 2) = Fail
        BY <4>5, <4>6, LengthCases
      <4> QED
        BY <4>7 DEF c
    <3> QED
      BY <1>8, <3>1, <3>2
  <2> QED
    BY <1>6, <2>1 DEF ParseConnectAcceptPDU, decodeLength, t, B
<1>9. CASE d >= 1 + LL(n)
  <2> DEFINE pos == 2 + LL(n)
  <2>1. LengthAmong(1..3, t, 2) = Decoded(n, pos)
    <3>1. ASSUME NEW k \in 1..LL(n) PROVE t[2 + k - 1] = e[k]
      <4>1. 2 + k - 1 = 1 + k /\ 1 + k \in 1..d
        BY <1>1, <1>9
      <4> QED
        BY <1>3, <1>5, <4>1
    <3>2. 2 + LL(n) <= Len(t) + 1
      BY <1>1, <1>3, <1>9
    <3>3. Holds(t, 2, e)
      BY <3>1, <3>2 DEF Holds, LL
    <3>4. Announced(n) = n /\ n < 65792
      BY <1>1 DEF Announced
    <3> HIDE DEF n
    <3> QED
      BY <1>1, <1>3, <3>3, <3>4, DecodeWritten
  <2>2. pos + n > Len(t) + 1
    BY <1>1, <1>3, <1>4
  <2>3. decodeLength(t, 2).ok /\ decodeLength(t, 2).val = n /\ decodeLength(t, 2).pos = pos
    BY <2>1, DecodedFields DEF decodeLength
  <2>4. decodeLength(t, 2).pos + decodeLength(t, 2).val > Len(t) + 1
    BY <2>2, <2>3
  <2>5. ParseConnectAcceptPDU(t) = Fail
    BY <2>4, Zenon DEF ParseConnectAcceptPDU
  <2> QED
    BY <2>5 DEF t, B
<1> QED
  BY <1>1, <1>7, <1>8, <1>9

-----------------------------------------------------------------------------
(* Octets written out.                                                     *)

(* A concatenation is what its parts say.                                  *)
LEMMA JoinEquals ==
  ASSUME NEW x \in Octets, NEW y \in Octets, NEW z, IsJoin(z, x, y)
  PROVE  x \o y = z
<1> DEFINE u == x \o y
<1>1. IsJoin(u, x, y) /\ Len(x) \in Nat /\ Len(y) \in Nat
  BY Joined DEF Octets
<1> HIDE DEF u
<1>2. u \in Seq(Octet) /\ z \in Seq(Octet) /\ Len(u) = Len(z) /\ Len(u) = Len(x) + Len(y)
  BY <1>1 DEF IsJoin, Octets
<1>3. ASSUME NEW k \in 1..Len(u) PROVE u[k] = z[k]
  <2>1. CASE k <= Len(x)
    BY <1>1, <2>1 DEF IsJoin
  <2>2. CASE k > Len(x)
    <3>1. k - Len(x) \in 1..Len(y) /\ Len(x) + (k - Len(x)) = k
      BY <1>1, <1>2, <2>2
    <3> QED
      BY <1>1, <3>1 DEF IsJoin
  <2> QED
    BY <1>1, <2>1, <2>2
<1>4. u = z
  <2>1. \A k \in 1..Len(u) : u[k] = z[k]
    BY <1>3
  <2>2. u \in Seq(Octet) /\ z \in Seq(Octet) /\ Len(u) = Len(z)
    BY <1>2
  <2> QED
    BY <2>1, <2>2
<1> QED
  BY <1>4 DEF u

(* A block with a short body.                                              *)
LEMMA ShortBlock ==
  ASSUME NEW t \in Octet, NEW b \in Octets, Len(b) < 128
  PROVE  /\ Block(t, b) \in Octets /\ Len(Block(t, b)) = 2 + Len(b) /\ IsElement(t, b)
         /\ Block(t, b) = <<t, Len(b)>> \o b
<1> DEFINE n == Len(b)
<1>1. n \in Nat
  BY DEF Octets
<1>2. encodeLength(n) = <<n>> /\ LL(n) = 1
  <2> HIDE DEF n
  <2>1. n < 128
    BY DEF n
  <2> QED
    BY <1>1, <2>1, LengthOctets DEF LL
<1>3. Block(t, b) \in Octets /\ Len(Block(t, b)) = 1 + LL(n) + n /\ Block(t, b) = <<t>> \o <<n>> \o b
  BY <1>2, BlockOctets
<1>4. <<t>> \o <<n>> = <<t, n>>
  <2> DEFINE x == <<t>>
             y == <<n>>
             z == <<t, n>>
  <2>1. n \in Octet
    BY <1>1, SmallOctet
  <2> HIDE DEF n
  <2>2. x \in Octets /\ y \in Octets /\ IsJoin(z, x, y)
    BY <2>1 DEF IsJoin, Octets
  <2> HIDE DEF x, y, z
  <2>3. x \o y = z
    BY <2>2, JoinEquals
  <2> QED
    BY <2>3 DEF x, y, z
<1>5. Len(Block(t, b)) = 2 + n
  <2> HIDE DEF n
  <2> QED
    BY <1>1, <1>2, <1>3
<1>6. n < 65536
  BY <1>1
<1> QED
  BY <1>3, <1>4, <1>5, <1>6, SMTT(60) DEF IsElement

(* The octet tuples of the presentation layer are elements.                *)
LEMMA LiteralBlocks ==
  /\ ModeSelector = Block(160, <<128, 1, 1>>) /\ IsElement(160, <<128, 1, 1>>)
  /\ \A t \in Octet : PresentationSelector(t) = Block(t, <<0, 0, 0, 1>>)
                      /\ IsElement(t, <<0, 0, 0, 1>>)
  /\ \A c \in Octet : <<2, 1, c>> = Block(2, <<c>>) /\ IsElement(2, <<c>>)
<1> USE DEF Octets
<1>1. ModeSelector = Block(160, <<128, 1, 1>>) /\ IsElement(160, <<128, 1, 1>>)
  <2> DEFINE b == <<128, 1, 1>>
  <2>1. b \in Octets /\ Len(b) = 3 /\ 160 \in Octet
    BY DEF Octet
  <2>2. Block(160, b) = <<160, 3>> \o b /\ IsElement(160, b)
    <3>1. Len(b) < 128
      BY <2>1
    <3> HIDE DEF b
    <3> QED
      BY <2>1, <3>1, ShortBlock, ZenonT(60)
  <2>3. <<160, 3>> \o b = <<160, 3, 128, 1, 1>>
    <3> DEFINE x == <<160, 3>>
               z == <<160, 3, 128, 1, 1>>
    <3>1. 160 \in Octet /\ 3 \in Octet /\ 128 \in Octet /\ 1 \in Octet
      BY DEF Octet
    <3>2. x \in Octets /\ b \in Octets /\ IsJoin(z, x, b)
      BY <2>1, <3>1 DEF IsJoin, Octets
    <3> HIDE DEF x, z, b
    <3>3. x \o b = z
      BY <3>2, JoinEquals
    <3> QED
      BY <3>3 DEF x, z
  <2> HIDE DEF b
  <2> QED
    BY <2>2, <2>3 DEF ModeSelector, b
<1>2. ASSUME NEW t \in Octet
      PROVE  PresentationSelector(t) = Block(t, <<0, 0, 0, 1>>) /\ IsElement(t, <<0, 0, 0, 1>>)
  <2> DEFINE b == <<0, 0, 0, 1>>
  <2>1. b \in Octets /\ Len(b) = 4
    BY DEF Octet
  <2>2. Block(t, b) = <<t, 4>> \o b /\ IsElement(t, b)
    <3>1. Len(b) < 128
      BY <2>1
    <3> HIDE DEF b
    <3> QED
      BY <2>1, <3>1, ShortBlock
  <2>3. <<t, 4>> \o b = <<t, 4, 0, 0, 0, 1>>
    <3> DEFINE x == <<t, 4>>
               z == <<t, 4, 0, 0, 0, 1>>
    <3>1. 4 \in Octet /\ 0 \in Octet /\ 1 \in Octet
      BY DEF Octet
    <3>2. x \in Octets /\ b \in Octets /\ IsJoin(z, x, b)
      BY <2>1, <3>1 DEF IsJoin, Octets
    <3> HIDE DEF x, z, b
    <3>3. x \o b = z
      BY <3>2, JoinEquals
    <3> QED
      BY <3>3 DEF x, z
  <2> HIDE DEF b
  <2> QED
    BY <2>2, <2>3 DEF PresentationSelector, b
<1>3. ASSUME NEW c \in Octet
      PROVE  <<2, 1, c>> = Block(2, <<c>>) /\ IsElement(2, <<c>>)
  <2> DEFINE b == <<c>>
  <2>1. b \in Octets /\ Len(b) = 1 /\ 2 \in Octet
    BY DEF Octet
  <2>2. Block(2, b) = <<2, 1>> \o b /\ IsElement(2, b)
    <3>1. Len(b) < 128
      BY <2>1
    <3> HIDE DEF b
    <3> QED
      BY <2>1, <3>1, ShortBlock
  <2>3. <<2, 1>> \o b = <<2, 1, c>>
    <3> DEFINE x == <<2, 1>>
               z == <<2, 1, c>>
    <3>1. 2 \in Octet /\ 1 \in Octet
      BY DEF Octet
    <3>2. x \in Octets /\ b \in Octets /\ IsJoin(z, x, b)
      BY <2>1, <3>1 DEF IsJoin, Octets
    <3> HIDE DEF x, z, b
    <3>3. x \o b = z
      BY <3>2, JoinEquals
    <3> QED
      BY <3>3 DEF x, z
  <2> QED
    BY <2>2, <2>3
<1> QED
  BY <1>1, <1>2, <1>3

(* The definition list of a CP PPDU is an element of 37 octets.            *)
LEMMA PcdlElement ==
  \E b : buildPCDL = Block(164, b) /\ IsElement(164, b) /\ Len(buildPCDL) = 37
         /\ buildPCDL \in Octets
<1>1. 6 \in Octet /\ 48 \in Octet /\ 164 \in Octet
  BY DEF Octet
<1>2. Len(oidBER) = 2 /\ oidBER \in Octets /\ Len(oidACE) = 4 /\ oidACE \in Octets
      /\ Len(oidMMS) = 5 /\ oidMMS \in Octets
  BY DEF oidBER, oidACE, oidMMS, Octets, Octet
<1>3. Block(6, oidBER) \in Octets /\ Len(Block(6, oidBER)) = 4
  <2>1. Len(oidBER) < 128
    BY <1>2
  <2>2. Block(6, oidBER) \in Octets /\ Len(Block(6, oidBER)) = 2 + Len(oidBER)
    BY <1>1, <1>2, <2>1, ShortBlock, ZenonT(60)
  <2> QED
    BY <1>2, <2>2
<1>4. Block(48, Block(6, oidBER)) \in Octets /\ Len(Block(48, Block(6, oidBER))) = 6
  <2> DEFINE x == Block(6, oidBER)
  <2>1. x \in Octets /\ Len(x) = 4
    BY <1>3
  <2> HIDE DEF x
  <2>3. Len(x) < 128
    BY <2>1
  <2>4. Block(48, x) \in Octets /\ Len(Block(48, x)) = 2 + Len(x)
    BY <1>1, <2>1, <2>3, ShortBlock, ZenonT(60)
  <2>2. Block(48, x) \in Octets /\ Len(Block(48, x)) = 6
    BY <2>1, <2>4
  <2> QED
    BY <2>2 DEF x
<1> DEFINE tail == Block(48, Block(6, oidBER))
<1> HIDE DEF tail
<1>5. ASSUME NEW c \in Octet, NEW oid \in Octets, Len(oid) < 100
      PROVE  /\ buildPCDLItem(c, oid) \in Octets
             /\ Len(buildPCDLItem(c, oid)) = 13 + Len(oid)
  <2> DEFINE h == <<2, 1, c>>
             x == Block(6, oid)
             hx == h \o x
             b == hx \o tail
  <2>0. Len(oid) \in Nat
    BY DEF Octets
  <2>1. h \in Octets /\ Len(h) = 3
    BY DEF Octet, Octets
  <2>2. x \in Octets /\ Len(x) = 2 + Len(oid)
    <3>1. Len(oid) < 128
      BY <1>5, <2>0
    <3> QED
      BY <1>1, <3>1, ShortBlock
  <2>3. tail \in Octets /\ Len(tail) = 6
    BY <1>4 DEF tail
  <2> HIDE DEF h, x
  <2>4. hx \in Octets /\ Len(hx) = 5 + Len(oid)
    <3>1. hx \in Octets /\ Len(hx) = Len(h) + Len(x)
      BY <2>1, <2>2, JoinOctets
    <3> QED
      BY <2>0, <2>1, <2>2, <3>1
  <2> HIDE DEF hx
  <2>5. b \in Octets /\ Len(b) = 11 + Len(oid)
    <3>1. b \in Octets /\ Len(b) = Len(hx) + Len(tail)
      BY <2>3, <2>4, JoinOctets
    <3> QED
      BY <2>0, <2>3, <2>4, <3>1
  <2> HIDE DEF b
  <2>6. Len(b) < 128 /\ 2 + Len(b) = 13 + Len(oid)
    BY <1>5, <2>0, <2>5
  <2>7. Block(48, b) \in Octets /\ Len(Block(48, b)) = 2 + Len(b)
    BY <1>1, <2>5, <2>6, ShortBlock
  <2> QED
    BY <2>6, <2>7 DEF buildPCDLItem, b, hx, h, x, tail
<1> DEFINE i1 == buildPCDLItem(1, oidACE)
           i3 == buildPCDLItem(3, oidMMS)
           b == i1 \o i3
<1>6. i1 \in Octets /\ Len(i1) = 17 /\ i3 \in Octets /\ Len(i3) = 18
  <2>1. 1 \in Octet /\ 3 \in Octet
    BY DEF Octet
  <2>2. Len(oidACE) < 100 /\ Len(oidMMS) < 100
    BY <1>2
  <2>3. i1 \in Octets /\ Len(i1) = 13 + Len(oidACE)
    BY <1>2, <1>5, <2>1, <2>2
  <2>4. i3 \in Octets /\ Len(i3) = 13 + Len(oidMMS)
    BY <1>2, <1>5, <2>1, <2>2
  <2> HIDE DEF i1, i3
  <2> QED
    BY <1>2, <2>3, <2>4
<1> HIDE DEF i1, i3
<1>7. b \in Octets /\ Len(b) = 35
  <2>1. b \in Octets /\ Len(b) = Len(i1) + Len(i3)
    BY <1>6, JoinOctets
  <2> QED
    BY <1>6, <2>1
<1>8. buildPCDL = Block(164, b)
  BY DEF buildPCDL, b, i1, i3
<1> HIDE DEF b
<1>9. Len(b) < 128
  BY <1>7
<1>10. Block(164, b) \in Octets /\ Len(Block(164, b)) = 2 + Len(b) /\ IsElement(164, b)
  <2>1. b \in Octets
    BY <1>7
  <2> QED
    BY <1>1, <1>9, <2>1, ShortBlock, ZenonT(60)
<1>11. 2 + Len(b) = 37
  BY <1>7
<1> QED
  BY <1>8, <1>10, <1>11

(* An element whose block is no longer than 65536.                         *)
LEMMA InnerElement ==
  ASSUME NEW t \in Octet, NEW b \in Octets
  PROVE  /\ Len(Block(t, b)) < 65536 => IsElement(t, b)
         /\ Len(Block(t, b)) \in Nat /\ Len(b) \in Nat
         /\ Len(b) + 2 <= Len(Block(t, b)) /\ Len(Block(t, b)) <= Len(b) + 4
<1>1. Len(Block(t, b)) = 1 + LL(Len(b)) + Len(b) /\ Len(b) \in Nat /\ LL(Len(b)) \in 1..3
  BY BlockOctets
<1>2. PICK n \in Nat, q \in 1..3, B \in Nat : B = 1 + q + n /\ n = Len(b) /\ B = Len(Block(t, b))
  BY <1>1
<1>3. (B < 65536 => n < 65536) /\ n + 2 <= B /\ B <= n + 4
  BY <1>2
<1> QED
  BY <1>2, <1>3 DEF IsElement

(* The user data of a PPDU: it is an element, and gives the payload back.  *)
LEMMA UserDataBlock ==
  ASSUME NEW a \in Octets, NEW s, s = Block(48, Inner(a, 1))
  PROVE  /\ s \in Octets /\ Len(s) \in Nat
         /\ buildFullyEncodedData(a, 1) = Block(97, s)
         /\ Len(a) <= Len(s) /\ Len(s) <= Len(a) + 11
         /\ Len(s) < 65536 => parseFullyEncodedData(s) = Decoded(a, Len(s) + 1)
<1> DEFINE n == Len(a)
           m == 4 + LL(n) + n
<1>0. n \in Nat /\ LL(n) \in 1..3
  BY LLType DEF Octets
<1>1. m \in Nat /\ m >= n /\ m <= n + 7
  <2>1. PICK q \in 1..3 : q = LL(n)
    BY <1>0
  <2> HIDE DEF n
  <2> QED
    BY <1>0, <2>1
<1>2. IsPdv(s, a, n, m, 2 + LL(m)) /\ LL(m) \in 1..3
  <2>1. 1 \in Octet
    BY DEF Octet
  <2>2. m = 4 + LL(n) + n
    OBVIOUS
  <2> HIDE DEF m
  <2>3. LL(m) \in 1..3
    BY <1>1, LLType
  <2> QED
    BY <1>0, <1>1, <2>1, <2>2, <2>3, PdvShape
<1> HIDE DEF m
<1>3. s \in Octets /\ Len(s) = 2 + LL(m) + m - 1
  BY <1>2 DEF IsPdv
<1>4. Len(s) \in Nat /\ n <= Len(s) /\ Len(s) <= n + 11 /\ m <= Len(s) /\ 2 + LL(m) \in Nat
  <2>1. PICK q \in 1..3 : q = LL(m)
    BY <1>2
  <2> HIDE DEF n
  <2> QED
    BY <1>0, <1>1, <1>3, <2>1
<1>5. Len(s) < 65536 => parseFullyEncodedData(s) = Decoded(a, Len(s) + 1)
  <2> HAVE Len(s) < 65536
  <2>1. m < 65536
    BY <1>1, <1>4
  <2> HIDE DEF n
  <2> QED
    BY <1>0, <1>1, <1>2, <1>4, <2>1, ParseWhole
<1>6. buildFullyEncodedData(a, 1) = Block(97, s)
  BY DEF buildFullyEncodedData, Inner
<1> QED
  BY <1>3, <1>4, <1>5, <1>6

-----------------------------------------------------------------------------
(* ISO presentation: CP and CPA.                                           *)

(* A block is a buffer.                                                    *)
LEMMA BlockIn ==
  ASSUME NEW t \in Octet, NEW b \in Octets PROVE Block(t, b) \in Octets
  BY BlockShape DEF IsBlock

(* Only the wanted element is left.                                        *)
LEMMA FindsLast ==
  ASSUME NEW c, Counts(c), NEW t, NEW b, IsElement(t, b)
  PROVE  Finds(c, Block(t, b), t, b)
<1> DEFINE y == <<>>
           B == Block(t, b)
<1>1. B \in Octets
  BY BlockIn DEF IsElement
<1>2. y \in Octets /\ B \o y = B
  BY <1>1, JoinNothing
<1> HIDE DEF y
<1>3. Finds(c, B \o y, t, b)
  BY <1>2, FindsFirst
<1> QED
  BY <1>2, <1>3

(* pre holds elements with other tags.                                     *)
Skips(c, pre, wanted) ==
  /\ pre \in Octets
  /\ \A y \in Octets : \A b : Finds(c, y, wanted, b) => Finds(c, pre \o y, wanted, b)

(* One of them.                                                            *)
LEMMA SkipsOne ==
  ASSUME NEW c, Counts(c), NEW t, NEW x, IsElement(t, x), NEW wanted, t # wanted
  PROVE  Skips(c, Block(t, x), wanted)
<1>1. Block(t, x) \in Octets
  BY BlockIn DEF IsElement
<1> QED
  BY <1>1, FindsNext DEF Skips

(* Several.                                                                *)
LEMMA SkipsMore ==
  ASSUME NEW c, NEW wanted, NEW p, NEW q, Skips(c, p, wanted), Skips(c, q, wanted)
  PROVE  Skips(c, p \o q, wanted)
<1>1. p \in Octets /\ q \in Octets
  BY DEF Skips
<1>2. p \o q \in Octets
  BY <1>1, JoinOctets
<1>3. ASSUME NEW y \in Octets, NEW b, Finds(c, y, wanted, b)
      PROVE  Finds(c, (p \o q) \o y, wanted, b)
  <2>1. Finds(c, q \o y, wanted, b) /\ q \o y \in Octets
    BY <1>1, <1>3, JoinOctets DEF Skips
  <2> DEFINE z == q \o y
  <2> HIDE DEF z
  <2>2. Finds(c, p \o z, wanted, b)
    BY <2>1 DEF Skips, z
  <2>3. p \o z = (p \o q) \o y
    BY <1>1, JoinAssociative DEF z
  <2> QED
    BY <2>2, <2>3
<1> QED
  BY <1>2, <1>3 DEF Skips

(* A CP or CPA PPDU whose parameters before the user data are pre.         *)
Ppdu(pre, a) == Block(49, ModeSelector \o Block(162, pre \o buildFullyEncodedData(a, 1)))

(* Its parser gives the ACSE PDU back when its lengths do not wrap, and    *)
(* refuses every part of it.                                               *)
LEMMA PpduRoundTrip ==
  ASSUME NEW a \in Octets, NEW pre, Skips(1..3, pre, 97)
  PROVE  \E body :
           /\ Ppdu(pre, a) = Block(49, body) /\ body \in Octets /\ Len(body) \in Nat
           /\ Len(a) <= Len(body) /\ Len(body) <= Len(a) + Len(pre) + 24
           /\ Len(body) < 65536 =>
                /\ IsElement(49, body)
                /\ ParseConnectAcceptPDU(Block(49, body)).ok
                /\ ParseConnectAcceptPDU(Block(49, body)).val = a
<1> DEFINE s == Block(48, Inner(a, 1))
           F == Block(97, s)
           X == pre \o F
           Y == Block(162, X)
           body == ModeSelector \o Y
<1>0. 49 \in Octet /\ 97 \in Octet /\ 162 \in Octet
  BY DEF Octet
<1>1. /\ s \in Octets /\ Len(s) \in Nat /\ buildFullyEncodedData(a, 1) = F
      /\ Len(a) <= Len(s) /\ Len(s) <= Len(a) + 11
      /\ Len(s) < 65536 => parseFullyEncodedData(s) = Decoded(a, Len(s) + 1)
  BY UserDataBlock
<1>2. Ppdu(pre, a) = Block(49, body)
  BY <1>1 DEF Ppdu
<1> HIDE DEF s
<1>3. /\ F \in Octets /\ Len(F) \in Nat /\ Len(s) + 2 <= Len(F) /\ Len(F) <= Len(s) + 4
      /\ Len(F) < 65536 => IsElement(97, s)
  BY <1>0, <1>1, InnerElement, BlockIn
<1> HIDE DEF F
<1>4. pre \in Octets /\ X \in Octets /\ Len(X) = Len(pre) + Len(F) /\ Len(pre) \in Nat
  BY <1>3, JoinOctets DEF Skips
<1> HIDE DEF X
<1>5. /\ Y \in Octets /\ Len(Y) \in Nat /\ Len(X) + 2 <= Len(Y) /\ Len(Y) <= Len(X) + 4
      /\ Len(Y) < 65536 => IsElement(162, X)
  <2>1. X \in Octets
    BY <1>4
  <2> QED
    BY <1>0, <2>1, InnerElement, BlockIn
<1> HIDE DEF Y
<1>6. ModeSelector \in Octets /\ Len(ModeSelector) = 5
  BY DEF ModeSelector, Octets, Octet
<1>7. body \in Octets /\ Len(body) = 5 + Len(Y)
  <2> DEFINE m == ModeSelector
  <2>0. m \in Octets /\ Y \in Octets
    BY <1>5, <1>6
  <2> HIDE DEF m
  <2>1. body \in Octets /\ Len(body) = Len(m) + Len(Y)
    BY <2>0, JoinOctets DEF m
  <2> QED
    BY <1>6, <2>1 DEF m
<1> HIDE DEF body
<1>8. Len(a) \in Nat
  BY DEF Octets
<1>9. /\ Len(body) \in Nat /\ Len(a) <= Len(body) /\ Len(body) <= Len(a) + Len(pre) + 24
      /\ Len(body) < 65536 => Len(Y) < 65536 /\ Len(F) < 65536 /\ Len(s) < 65536
  BY <1>1, <1>3, <1>4, <1>5, <1>7, <1>8, SMTT(60)
<1>10. ASSUME Len(body) < 65536
       PROVE  /\ IsElement(49, body)
              /\ ParseConnectAcceptPDU(Block(49, body)).ok
              /\ ParseConnectAcceptPDU(Block(49, body)).val = a
  <2>1. IsElement(49, body)
    BY <1>0, <1>7, <1>10 DEF IsElement
  <2>2. IsElement(97, s) /\ IsElement(162, X)
    BY <1>3, <1>5, <1>9, <1>10
  <2>3. Finds(1..3, F, 97, s)
    BY <2>2, CountsOf, FindsLast DEF F
  <2>4. Finds(1..3, X, 97, s)
    BY <1>3, <2>3 DEF Skips, X
  <2>5. Finds(1..3, Y, 162, X)
    BY <2>2, CountsOf, FindsLast DEF Y
  <2>6. Finds(1..3, body, 162, X)
    <3> DEFINE m == <<128, 1, 1>>
               t == 160
    <3>1. ModeSelector = Block(t, m) /\ IsElement(t, m)
      BY LiteralBlocks
    <3>2. t # 162
      OBVIOUS
    <3> HIDE DEF m, t
    <3>3. Finds(1..3, Block(t, m) \o Y, 162, X)
      BY <1>5, <2>5, <3>1, <3>2, CountsOf, FindsNext
    <3> QED
      BY <3>1, <3>3 DEF body
  <2>7. ParseConnectAcceptPDU(Block(49, body)) = parseFullyEncodedData(s)
    BY <1>4, <2>1, <2>4, <2>6, PpduParsed
  <2> QED
    BY <1>1, <1>9, <1>10, <2>1, <2>7, DecodedFields
<1> QED
  BY <1>2, <1>7, <1>9, <1>10

(* The parameters before the user data of a CP and of a CPA PPDU.          *)
CpHead == PresentationSelector(129) \o PresentationSelector(130) \o buildPCDL
CpaHead == PresentationSelector(131) \o <<165, 18>> \o <<48, 7, 128, 1, 0, 129, 2, 81, 1>>
             \o <<48, 7, 128, 1, 0, 129, 2, 81, 1>>

(* A presentation selector is passed.                                      *)
LEMMA SelectorSkipped ==
  ASSUME NEW t \in Octet, t # 97
  PROVE  Skips(1..3, PresentationSelector(t), 97) /\ Len(PresentationSelector(t)) = 6
<1> DEFINE b == <<0, 0, 0, 1>>
           x == PresentationSelector(t)
<1>1. x = Block(t, b) /\ IsElement(t, b)
  BY LiteralBlocks
<1>2. Len(x) = 6
  BY DEF PresentationSelector
<1> HIDE DEF b, x
<1>3. Skips(1..3, x, 97)
  BY <1>1, CountsOf, SkipsOne
<1> QED
  BY <1>2, <1>3 DEF x

(* The CP PPDU is one.                                                     *)
LEMMA CpIsPpdu ==
  /\ Skips(1..3, CpHead, 97) /\ Len(CpHead) = 49
  /\ \A a \in Octets : BuildConnectPDU(a) = Ppdu(CpHead, a)
<1> DEFINE x == PresentationSelector(129)
           y == PresentationSelector(130)
           xy == x \o y
           z == buildPCDL
<1>1. Skips(1..3, x, 97) /\ Skips(1..3, y, 97) /\ Len(x) = 6 /\ Len(y) = 6
  <2>1. 129 \in Octet /\ 130 \in Octet
    BY DEF Octet
  <2> QED
    BY <2>1, SelectorSkipped
<1>2. Skips(1..3, z, 97) /\ Len(z) = 37
  <2>1. PICK b : z = Block(164, b) /\ IsElement(164, b) /\ Len(z) = 37
    BY PcdlElement
  <2>2. Skips(1..3, Block(164, b), 97)
    BY <2>1, CountsOf, SkipsOne
  <2> QED
    BY <2>1, <2>2
<1> HIDE DEF x, y, z
<1>3. Skips(1..3, xy, 97) /\ Len(xy) = 12
  <2>1. Skips(1..3, xy, 97)
    BY <1>1, SkipsMore
  <2>2. Len(xy) = Len(x) + Len(y)
    BY <1>1, JoinOctets DEF Skips
  <2> QED
    BY <1>1, <2>1, <2>2
<1> HIDE DEF xy
<1>4. Skips(1..3, xy \o z, 97) /\ Len(xy \o z) = 49
  <2>1. Skips(1..3, xy \o z, 97)
    BY <1>2, <1>3, SkipsMore
  <2>2. Len(xy \o z) = Len(xy) + Len(z)
    BY <1>2, <1>3, JoinOctets DEF Skips
  <2> QED
    BY <1>2, <1>3, <2>1, <2>2
<1> QED
  BY <1>4 DEF CpHead, BuildConnectPDU, Ppdu, x, y, z, xy

(* So is the CPA PPDU.                                                     *)
LEMMA CpaIsPpdu ==
  /\ Skips(1..3, CpaHead, 97) /\ Len(CpaHead) = 26
  /\ \A a \in Octets : BuildConnectAcceptPDU(a) = Ppdu(CpaHead, a)
<1> DEFINE x == PresentationSelector(131)
           h == <<165, 18>>
           i == <<48, 7, 128, 1, 0, 129, 2, 81, 1>>
           ii == i \o i
           z == h \o ii
<1>1. Skips(1..3, x, 97) /\ Len(x) = 6 /\ x \in Octets
  <2>1. 131 \in Octet
    BY DEF Octet
  <2> QED
    BY <2>1, SelectorSkipped DEF Skips
<1>2. h \in Octets /\ i \in Octets /\ Len(h) = 2 /\ Len(i) = 9 /\ 165 \in Octet
  BY DEF Octets, Octet
<1> HIDE DEF x, i
<1>3. ii \in Octets /\ Len(ii) = 18
  <2>1. ii \in Octets /\ Len(ii) = Len(i) + Len(i)
    BY <1>2, JoinOctets
  <2> QED
    BY <1>2, <2>1
<1> HIDE DEF ii
<1>4. IsElement(165, ii) /\ Block(165, ii) = z
  <2>1. Len(ii) < 128
    BY <1>3
  <2>2. IsElement(165, ii) /\ Block(165, ii) = <<165, Len(ii)>> \o ii
    BY <1>2, <1>3, <2>1, ShortBlock, ZenonT(60)
  <2> QED
    BY <1>3, <2>2
<1> HIDE DEF h
<1>5. z \in Octets /\ Len(z) = 20
  <2>1. z \in Octets /\ Len(z) = Len(h) + Len(ii)
    BY <1>2, <1>3, JoinOctets
  <2> QED
    BY <1>2, <1>3, <2>1
<1> HIDE DEF z
<1>6. Skips(1..3, z, 97)
  <2>1. Skips(1..3, Block(165, ii), 97)
    BY <1>4, CountsOf, SkipsOne
  <2> QED
    BY <1>4, <2>1
<1>7. Skips(1..3, x \o z, 97) /\ Len(x \o z) = 26
  <2>1. Skips(1..3, x \o z, 97)
    BY <1>1, <1>6, SkipsMore
  <2>2. Len(x \o z) = Len(x) + Len(z)
    BY <1>1, <1>5, JoinOctets
  <2> QED
    BY <1>1, <1>5, <2>1, <2>2
<1>8. x \o h \o i \o i = x \o z
  <2>1. x \o h \in Octets /\ h \o i \in Octets
    BY <1>1, <1>2, JoinOctets
  <2>2. (x \o h) \o i = x \o (h \o i)
    BY <1>1, <1>2, JoinAssociative
  <2>3. (x \o (h \o i)) \o i = x \o ((h \o i) \o i)
    BY <1>1, <1>2, <2>1, JoinAssociative, ZenonT(60)
  <2>4. (h \o i) \o i = z
    BY <1>2, JoinAssociative DEF z, ii
  <2> QED
    BY <2>2, <2>3, <2>4
<1>9. CpaHead = x \o z
  BY <1>8 DEF CpaHead, x, h, i
<1>10. \A a \in Octets : BuildConnectAcceptPDU(a) = Ppdu(CpaHead, a)
  BY DEF CpaHead, BuildConnectAcceptPDU, Ppdu
<1> QED
  BY <1>7, <1>9, <1>10

-----------------------------------------------------------------------------
(* Lists of TLVs.                                                          *)

(* The least element of a set of naturals.                                 *)
LEMMA MinIn ==
  ASSUME NEW S \in SUBSET Nat, S # {}
  PROVE  Min(S) \in S /\ \A y \in S : Min(S) <= y
<1>1. PICK x \in S : \A y \in S : ~(<<y, x>> \in OpToRel(<, Nat))
  BY NatLessThanWellFounded, WFMin, Zenon
<1>2. \A y \in S : x <= y
  <2> SUFFICES ASSUME NEW y \in S, y < x PROVE FALSE
    OBVIOUS
  <2>1. <<y, x>> \in OpToRel(<, Nat)
    BY DEF OpToRel
  <2> QED
    BY <1>1, <2>1
<1> QED
  BY <1>2 DEF Min

(* An element with a known value.                                          *)
LEMMA MinOne == ASSUME NEW n \in Nat PROVE Min({n}) = n
  BY DEF Min

(* A tag of one octet or more moves the position on.                       *)
LEMMA TagType ==
  ASSUME NEW buf \in Octets, NEW i \in Nat \ {0}, DecodeTag(buf, i).ok
  PROVE  DecodeTag(buf, i).pos \in Nat /\ DecodeTag(buf, i).pos > i
<1>0. ~Fail.ok
  BY DEF Fail
<1>1. i <= Len(buf) /\ ~(i > Len(buf))
  <2>1. Len(buf) \in Nat
    BY DEF Octets
  <2>2. i > Len(buf) => DecodeTag(buf, i) = Fail
    BY DEF DecodeTag
  <2> QED
    BY <1>0, <2>1, <2>2
<1> DEFINE b == buf[i]
           low == b % 32
           ends == {j \in (i + 1)..Len(buf) : buf[j] < 128}
           last == Min(ends)
           tag(n) == [class |-> b - (b % 64),
                      constructed |-> (b \div 32) % 2 = 1,
                      number |-> n]
           N == Number(128, 0, [k \in 1..(last - i) |-> buf[i + k] % 128])
<1>2. b \in Nat /\ low \in Nat /\ (low < 31 \/ low = 31)
  <2>1. b \in Nat
    BY <1>1, OctetAt DEF Octets
  <2> HIDE DEF b
  <2> QED
    BY <2>1
<1>3. DecodeTag(buf, i) = CASE low < 31 -> Decoded(tag(low), i + 1)
                            [] low = 31 /\ ends = {} -> Fail
                            [] OTHER -> Decoded(tag(N), last + 1)
  BY <1>1 DEF DecodeTag
<1>4. ends # {} => last \in Nat /\ last > i
  <2> HAVE ends # {}
  <2>1. ends \in SUBSET Nat
    OBVIOUS
  <2>2. last \in ends
    <3> HIDE DEF ends
    <3> QED
      BY <2>1, MinIn
  <2> QED
    BY <2>2
<1> HIDE DEF low, ends, last, tag, N, b
<1>5. CASE low < 31
  BY <1>3, <1>5, DecodedFields
<1>6. CASE low = 31
  <2>1. ~(low < 31)
    BY <1>6
  <2>2. ends # {}
    BY <1>0, <1>3, <1>6, <2>1
  <2>3. DecodeTag(buf, i) = Decoded(tag(N), last + 1)
    BY <1>3, <1>6, <2>1, <2>2
  <2> QED
    BY <1>4, <2>2, <2>3, DecodedFields
<1> QED
  BY <1>2, <1>5, <1>6

(* ParseTLV without its evaluation device.                                 *)
LEMMA ParseTLVIs ==
  ASSUME NEW buf, NEW i,
         NEW t, t = DecodeTag(buf, i), NEW l, l = DecodeLength(buf, t.pos)
  PROVE  ParseTLV(buf, i) =
           IF ~t.ok THEN Fail
           ELSE IF ~l.ok \/ l.pos + l.val > Len(buf) + 1 THEN Fail
           ELSE Decoded([class |-> t.val.class, constructed |-> t.val.constructed,
                         tag |-> t.val.number,
                         value |-> SubSeq(buf, l.pos, l.pos + l.val - 1)],
                        l.pos + l.val)
  BY DEF ParseTLV, With

(* A TLV that parses ends inside the buffer, further on, and its value is  *)
(* shorter than the buffer.                                                *)
LEMMA TLVType ==
  ASSUME NEW buf \in Octets, NEW i \in Nat \ {0}, ParseTLV(buf, i).ok
  PROVE  /\ ParseTLV(buf, i).pos \in Nat /\ ParseTLV(buf, i).pos > i
         /\ ParseTLV(buf, i).pos <= Len(buf) + 1
         /\ ParseTLV(buf, i).val.value \in Octets
         /\ Len(ParseTLV(buf, i).val.value) < Len(buf)
<1> DEFINE t == DecodeTag(buf, i)
           l == DecodeLength(buf, t.pos)
           v == [class |-> t.val.class, constructed |-> t.val.constructed,
                 tag |-> t.val.number, value |-> SubSeq(buf, l.pos, l.pos + l.val - 1)]
<1>0. ~Fail.ok
  BY DEF Fail
<1>1. ParseTLV(buf, i) = IF ~t.ok THEN Fail
                         ELSE IF ~l.ok \/ l.pos + l.val > Len(buf) + 1 THEN Fail
                         ELSE Decoded(v, l.pos + l.val)
  BY ParseTLVIs
<1>2. v.value = SubSeq(buf, l.pos, l.pos + l.val - 1)
  OBVIOUS
<1>3. t.ok => t.pos \in Nat /\ t.pos > i
  BY TagType
<1>4. t.ok /\ l.ok => l.val \in Nat /\ l.pos \in Nat /\ l.pos > t.pos
  <2> HAVE t.ok /\ l.ok
  <2> DEFINE c == 1..4
  <2>1. c \in SUBSET Nat /\ t.pos \in Nat \ {0} /\ buf \in Seq(Octet)
    BY <1>3 DEF Octets
  <2>2. l = LengthAmong(c, buf, t.pos)
    BY DEF DecodeLength
  <2> HIDE DEF c, t, l
  <2> QED
    BY <1>0, <2>1, <2>2, LengthType
<1> HIDE DEF t, l, v
<1>5. t.ok /\ l.ok /\ ~(l.pos + l.val > Len(buf) + 1)
  BY <1>0, <1>1
<1>6. ParseTLV(buf, i) = Decoded(v, l.pos + l.val)
  BY <1>1, <1>5
<1>7. Len(buf) \in Nat
  BY DEF Octets
<1>8. l.pos + l.val \in Nat /\ l.pos + l.val > i /\ l.pos + l.val <= Len(buf) + 1
  BY <1>3, <1>4, <1>5, <1>7
<1>9. v.value \in Octets /\ Len(v.value) < Len(buf)
  <2>1. PICK p \in Nat, n \in Nat : p = l.pos /\ n = l.val
    BY <1>4, <1>5
  <2>2. p >= 2 /\ p + n <= Len(buf) + 1 /\ p + n - 1 <= Len(buf)
    BY <1>3, <1>4, <1>5, <1>7, <1>8, <2>1, SMTT(60)
  <2> DEFINE s == SubSeq(buf, p, p + n - 1)
  <2>3. s \in Octets /\ Len(s) = n
    BY <2>2 DEF Octets
  <2> HIDE DEF s
  <2>4. Len(s) < Len(buf)
    BY <1>7, <2>2, <2>3
  <2> QED
    BY <1>2, <2>1, <2>3, <2>4 DEF s
<1> QED
  BY <1>6, <1>8, <1>9, DecodedFields

(* The recursive function in TLVsOf.                                       *)
TLVsFrom(buf) ==
  LET from[i \in 1..(Len(buf) + 1)] ==
        IF i > Len(buf) THEN <<>>
        ELSE With(ParseTLV(buf, i), LAMBDA one :
               IF one.ok THEN <<one.val>> \o from[one.pos] ELSE <<>>)
  IN from

(* It exists: each TLV moves the position on.                              *)
LEMMA TLVsStep ==
  ASSUME NEW buf \in Octets
  PROVE  \A i \in 1..(Len(buf) + 1) :
           TLVsFrom(buf)[i] =
             IF i > Len(buf) THEN <<>>
             ELSE IF ParseTLV(buf, i).ok
             THEN <<ParseTLV(buf, i).val>> \o TLVsFrom(buf)[ParseTLV(buf, i).pos]
             ELSE <<>>
<1> DEFINE T(i) == ParseTLV(buf, i)
           D == 1..(Len(buf) + 1)
           V == {T(i).val : i \in D}
           X == Seq(V)
           body(f) == [i \in D |->
                         IF i > Len(buf) THEN <<>>
                         ELSE With(T(i), LAMBDA one :
                                IF one.ok THEN <<one.val>> \o f[one.pos] ELSE <<>>)]
           step(f, i) == IF i > Len(buf) THEN <<>>
                         ELSE IF T(i).ok THEN <<T(i).val>> \o f[T(i).pos] ELSE <<>>
           from == CHOOSE f : f = body(f)
           halt == {i \in D : i > Len(buf) \/ ~T(i).ok}
           m == [i \in D |-> Len(buf) + 1 - i]
           h == [i \in D |-> <<>>]
           g == [i \in D |-> IF i \in halt THEN i ELSE T(i).pos]
           op == [i \in D |-> [r \in X |-> <<T(i).val>> \o r]]
<1>0. Len(buf) \in Nat
  BY DEF Octets
<1>1. TLVsFrom(buf) = from
  BY DEF TLVsFrom
<1>2. \A i \in D : T(i).ok => T(i).pos \in D /\ T(i).pos > i
  <2> SUFFICES ASSUME NEW i \in D, T(i).ok PROVE T(i).pos \in D /\ T(i).pos > i
    OBVIOUS
  <2>1. i \in Nat \ {0}
    BY <1>0
  <2>2. T(i).pos \in Nat /\ T(i).pos > i /\ T(i).pos <= Len(buf) + 1
    BY <2>1, TLVType
  <2> HIDE DEF T
  <2> QED
    BY <1>0, <2>1, <2>2
<1> HIDE DEF T
<1>8. ASSUME NEW f, NEW i \in D PROVE body(f)[i] = step(f, i)
  <2> DEFINE w == With(T(i), LAMBDA one :
                    IF one.ok THEN <<one.val>> \o f[one.pos] ELSE <<>>)
  <2>1. w = IF T(i).ok THEN <<T(i).val>> \o f[T(i).pos] ELSE <<>>
    <3> DEFINE F(one) == IF one.ok THEN <<one.val>> \o f[one.pos] ELSE <<>>
    <3>1. {F(x) : x \in {T(i)}} = {F(T(i))}
      <4> HIDE DEF F
      <4> QED
        OBVIOUS
    <3>2. w = CHOOSE r \in {F(x) : x \in {T(i)}} : TRUE
      BY Zenon DEF With
    <3>3. (CHOOSE r \in {F(T(i))} : TRUE) = F(T(i))
      <4> HIDE DEF F
      <4> QED
        OBVIOUS
    <3> QED
      BY <3>1, <3>2, <3>3, Zenon
  <2>2. body(f)[i] = IF i > Len(buf) THEN <<>> ELSE w
    <3> HIDE DEF D
    <3> QED
      OBVIOUS
  <2> HIDE DEF w, D, body
  <2> QED
    BY <2>1, <2>2
<1> HIDE DEF body
<1>3. Shrinks(D, m, halt, X, h, g, op)
  <2>1. m \in [D -> Nat]
    BY <1>0
  <2>2. halt \in SUBSET D
    OBVIOUS
  <2>3. h \in [D -> X]
    OBVIOUS
  <2>4. g \in [D -> D]
    BY <1>2
  <2>5. op \in [D -> [X -> X]]
    <3>1. \A i \in D : T(i).val \in V
      OBVIOUS
    <3> HIDE DEF D, V
    <3>2. \A i \in D : \A r \in X : <<T(i).val>> \o r \in X
      BY <3>1
    <3> QED
      BY <3>2
  <2>6. ASSUME NEW i \in D \ halt PROVE m[g[i]] < m[i]
    <3>1. T(i).ok /\ g[i] = T(i).pos
      OBVIOUS
    <3>2. g[i] \in D /\ g[i] > i
      BY <1>2, <3>1
    <3>3. m[g[i]] = Len(buf) + 1 - g[i] /\ m[i] = Len(buf) + 1 - i
      BY <3>2
    <3> HIDE DEF g, m
    <3> QED
      BY <1>0, <3>2, <3>3
  <2> HIDE DEF D, m, halt, X, h, g, op
  <2> QED
    BY <2>1, <2>2, <2>3, <2>4, <2>5, <2>6 DEF Shrinks
<1>4. PICK f \in [D -> X] : \A i \in D : SolvedAt(f, i, halt, h, g, op)
  <2> HIDE DEF D, m, halt, X, h, g, op
  <2> QED
    BY <1>3, MeasureRecursion
<1>5. f = body(f)
  <2>1. ASSUME NEW i \in D PROVE f[i] = body(f)[i]
    <3>1. f[i] = IF i \in halt THEN h[i] ELSE op[i][f[g[i]]]
      BY <1>4 DEF SolvedAt
    <3>2. CASE i \in halt
      <4>1. f[i] = <<>> /\ step(f, i) = <<>>
        BY <3>1, <3>2
      <4> QED
        BY <1>8, <4>1
    <3>3. CASE i \notin halt
      <4>1. T(i).ok /\ g[i] = T(i).pos /\ T(i).pos \in D /\ ~(i > Len(buf))
        BY <1>2, <3>3
      <4>2. f[T(i).pos] \in X
        <5> HIDE DEF D, X
        <5> QED
          BY <4>1
      <4>3. op[i][f[T(i).pos]] = <<T(i).val>> \o f[T(i).pos]
        <5> HIDE DEF D, X
        <5> QED
          BY <4>2
      <4>4. f[i] = <<T(i).val>> \o f[T(i).pos]
        <5> HIDE DEF op, g, h, halt, X, D
        <5> QED
          BY <3>1, <3>3, <4>1, <4>3
      <4>5. body(f)[i] = <<T(i).val>> \o f[T(i).pos]
        <5>1. step(f, i) = <<T(i).val>> \o f[T(i).pos]
          BY <4>1
        <5> HIDE DEF step, D
        <5> QED
          BY <1>8, <5>1
      <4> QED
        BY <4>4, <4>5
    <3> QED
      BY <3>2, <3>3
  <2>2. \A i \in D : f[i] = body(f)[i]
    BY <2>1
  <2>3. body(f) = [i \in D |-> body(f)[i]]
    <3> HIDE DEF D
    <3> QED
      BY DEF body
  <2> HIDE DEF body, D, X
  <2> QED
    BY <2>2, <2>3
<1>6. from = body(from)
  <2> HIDE DEF body
  <2> QED
    BY <1>5
<1>7. \A i \in D : from[i] = step(from, i)
  <2>1. \A i \in D : from[i] = body(from)[i]
    <3> HIDE DEF from, D
    <3> QED
      BY <1>6
  <2> HIDE DEF from, D, step
  <2> QED
    BY <1>8, <2>1
<1> HIDE DEF from
<1> QED
  BY <1>1, <1>7 DEF T

(* The TLV of an element whose tag is one octet.                           *)
Tlv(t, b) == [class |-> t - (t % 64), constructed |-> (t \div 32) % 2 = 1,
              tag |-> t % 32, value |-> b]

(* Tags of one octet.                                                      *)
LowTag(t) == t \in Octet /\ t % 32 # 31

(* The tag of one octet.                                                   *)
LEMMA TagLow ==
  ASSUME NEW buf, NEW i, ~(i > Len(buf)), NEW t, t = buf[i], LowTag(t)
  PROVE  DecodeTag(buf, i)
           = Decoded([class |-> t - (t % 64), constructed |-> (t \div 32) % 2 = 1,
                      number |-> t % 32], i + 1)
<1>1. t % 32 < 31
  <2>1. t \in 0..255 /\ t % 32 # 31
    BY DEF LowTag, Octet
  <2> QED
    BY <2>1, SMTT(60)
<1> QED
  BY <1>1 DEF DecodeTag

(* The element that leads what is left, as a TLV.                          *)
LEMMA ReadTLV ==
  ASSUME NEW t, LowTag(t), NEW b, IsElement(t, b), NEW y \in Octets,
         NEW buf, NEW i, Ends(buf, i, Block(t, b) \o y)
  PROVE  ParseTLV(buf, i) = Decoded(Tlv(t, b), After(i, b))
<1> DEFINE tag == DecodeTag(buf, i)
           l == DecodeLength(buf, tag.pos)
           n == Len(b)
           pos == i + 1 + LL(n)
           id == [class |-> t - (t % 64), constructed |-> (t \div 32) % 2 = 1,
                  number |-> t % 32]
<1>1. /\ buf[i] = t /\ i + 1 <= Len(buf)
      /\ LengthAmong(1..4, buf, i + 1) = Decoded(n, pos)
      /\ Slice(buf, pos, n) = Decoded(b, After(i, b))
      /\ After(i, b) <= Len(buf) + 1
  BY CountsOf, ReadElement
<1>2. i \in Nat \ {0} /\ Len(buf) \in Nat /\ After(i, b) = pos + n
  BY DEF Ends, Octets, After
<1> HIDE DEF pos, n
<1>3. tag = Decoded(id, i + 1)
  <2>1. ~(i > Len(buf))
    BY <1>1, <1>2
  <2> QED
    BY <1>1, <2>1, TagLow
<1>4. tag.ok /\ tag.val = id /\ tag.pos = i + 1
  BY <1>3, DecodedFields
<1>5. l.ok /\ l.val = n /\ l.pos = pos
  <2>1. l = Decoded(n, pos)
    BY <1>1, <1>4 DEF DecodeLength
  <2> QED
    BY <2>1, DecodedFields
<1>6. ~(pos + n > Len(buf) + 1)
  <2>1. PICK j : j = After(i, b)
    OBVIOUS
  <2>2. j \in Nat /\ j <= Len(buf) + 1
    <3>1. After(i, b) \in Nat
      BY CountsOf, ReadElement
    <3> QED
      BY <1>1, <2>1, <3>1
  <2>3. ~(j > Len(buf) + 1)
    BY <1>2, <2>2
  <2> QED
    BY <1>2, <2>1, <2>3
<1>7. SubSeq(buf, pos, pos + n - 1) = b
  <2> DEFINE s == SubSeq(buf, pos, pos + n - 1)
             w == Slice(buf, pos, n)
  <2>1. w = Decoded(s, pos + n)
    BY <1>6 DEF Slice
  <2>2. w = Decoded(b, After(i, b))
    BY <1>1
  <2> HIDE DEF s, w
  <2>3. w.val = s
    BY <2>1, DecodedFields
  <2>4. w.val = b
    BY <2>2, DecodedFields
  <2>5. s = b
    BY <2>3, <2>4
  <2> QED
    BY <2>5 DEF s
<1> HIDE DEF tag, l
<1>8. ParseTLV(buf, i) = Decoded([class |-> tag.val.class, constructed |-> tag.val.constructed,
                                  tag |-> tag.val.number, value |-> b], After(i, b))
  <2>1. ParseTLV(buf, i) =
          IF ~tag.ok THEN Fail
          ELSE IF ~l.ok \/ l.pos + l.val > Len(buf) + 1 THEN Fail
          ELSE Decoded([class |-> tag.val.class, constructed |-> tag.val.constructed,
                        tag |-> tag.val.number,
                        value |-> SubSeq(buf, l.pos, l.pos + l.val - 1)],
                       l.pos + l.val)
    BY ParseTLVIs DEF tag, l
  <2> QED
    BY <1>2, <1>4, <1>5, <1>6, <1>7, <2>1
<1>9. /\ tag.val.class = t - (t % 64) /\ tag.val.constructed = ((t \div 32) % 2 = 1)
      /\ tag.val.number = t % 32
  BY <1>4
<1> QED
  BY <1>8, <1>9 DEF Tlv

(* The TLVs of what is left are s.                                         *)
Lists(y, s) ==
  y \in Octets /\ \A buf, i : Ends(buf, i, y) => TLVsFrom(buf)[i] = s

(* Nothing is left.                                                        *)
LEMMA ListsNone == Lists(<<>>, <<>>)
<1> DEFINE y == <<>>
<1>0. y \in Octets /\ Len(y) = 0
  BY DEF Octets
<1> HIDE DEF y
<1>1. ASSUME NEW buf, NEW i, Ends(buf, i, y) PROVE TLVsFrom(buf)[i] = <<>>
  <2>1. buf \in Octets /\ Len(buf) \in Nat /\ i = Len(buf) + 1
    BY <1>0, <1>1 DEF Ends, Octets
  <2>2. i \in 1..(Len(buf) + 1) /\ i > Len(buf)
    BY <2>1
  <2> QED
    BY <2>1, <2>2, TLVsStep
<1> QED
  BY <1>0, <1>1 DEF Lists, y

(* One more element.                                                       *)
LEMMA ListsMore ==
  ASSUME NEW t, LowTag(t), NEW b, IsElement(t, b), NEW y, NEW s, Lists(y, s)
  PROVE  Lists(Block(t, b) \o y, <<Tlv(t, b)>> \o s)
<1>0. y \in Octets /\ Block(t, b) \o y \in Octets
  <2>1. y \in Octets /\ Block(t, b) \in Octets
    BY BlockIn DEF Lists, IsElement
  <2> QED
    BY <2>1, JoinOctets
<1>1. ASSUME NEW buf, NEW i, Ends(buf, i, Block(t, b) \o y)
      PROVE  TLVsFrom(buf)[i] = <<Tlv(t, b)>> \o s
  <2> DEFINE p == ParseTLV(buf, i)
             j == After(i, b)
  <2>1. p = Decoded(Tlv(t, b), j)
    BY <1>0, <1>1, ReadTLV
  <2>2. p.ok /\ p.val = Tlv(t, b) /\ p.pos = j
    BY <2>1, DecodedFields
  <2>3. i + 1 <= Len(buf) /\ Ends(buf, j, y)
    BY <1>0, <1>1, CountsOf, ReadElement
  <2>4. buf \in Octets /\ Len(buf) \in Nat /\ i \in Nat \ {0}
    BY <1>1 DEF Ends, Octets
  <2>5. i \in 1..(Len(buf) + 1) /\ ~(i > Len(buf))
    BY <2>3, <2>4
  <2> HIDE DEF p, j
  <2>6. TLVsFrom(buf)[i] = <<p.val>> \o TLVsFrom(buf)[p.pos]
    BY <2>2, <2>4, <2>5, TLVsStep DEF p
  <2>7. TLVsFrom(buf)[j] = s
    BY <2>3 DEF Lists
  <2> QED
    BY <2>2, <2>6, <2>7
<1> QED
  BY <1>0, <1>1 DEF Lists

(* TLVsOf from the first octet.                                            *)
LEMMA ListsAll ==
  ASSUME NEW y, NEW s, Lists(y, s) PROVE TLVsOf(y) = s
<1>1. TLVsOf(y) = TLVsFrom(y)[1]
  BY DEF TLVsOf, TLVsFrom
<1>2. Ends(y, 1, y)
  BY EndsWhole DEF Lists
<1> QED
  BY <1>1, <1>2 DEF Lists

(* What TLVsOf can list.                                                   *)
ShortTlv(buf) == {v \in {ParseTLV(buf, i).val : i \in Nat} :
                    v.value \in Octets /\ Len(v.value) < Len(buf)}

(* Each TLV has a value shorter than the buffer.                           *)
LEMMA TLVsType ==
  ASSUME NEW buf \in Octets PROVE TLVsOf(buf) \in Seq(ShortTlv(buf))
<1> DEFINE N == Len(buf)
           F == TLVsFrom(buf)
           V == ShortTlv(buf)
           S == {n \in Nat : \A i \in 1..(N + 1) : N + 1 - i < n => F[i] \in Seq(V)}
<1>0. N \in Nat
  BY DEF Octets
<1>1. TLVsOf(buf) = F[1]
  BY DEF TLVsOf, TLVsFrom
<1> HIDE DEF F, N, V
<1>2. 0 \in S
  BY <1>0
<1>3. ASSUME NEW n \in S PROVE n + 1 \in S
  <2> SUFFICES ASSUME NEW i \in 1..(N + 1), N + 1 - i < n + 1 PROVE F[i] \in Seq(V)
    OBVIOUS
  <2> DEFINE p == ParseTLV(buf, i)
  <2>1. F[i] = IF i > N THEN <<>> ELSE IF p.ok THEN <<p.val>> \o F[p.pos] ELSE <<>>
    BY TLVsStep DEF F, N
  <2>2. CASE ~(i > N) /\ p.ok
    <3>0. i \in Nat \ {0}
      BY <1>0
    <3>1. p.pos \in Nat /\ p.pos > i /\ p.pos <= N + 1 /\ p.val \in V
      <4>1. /\ p.pos \in Nat /\ p.pos > i /\ p.pos <= Len(buf) + 1
            /\ p.val.value \in Octets /\ Len(p.val.value) < Len(buf)
        BY <2>2, <3>0, TLVType
      <4>2. p.val \in {ParseTLV(buf, k).val : k \in Nat}
        BY <3>0
      <4> HIDE DEF p
      <4> QED
        BY <4>1, <4>2 DEF V, ShortTlv, N
    <3> HIDE DEF p
    <3>2. p.pos \in 1..(N + 1) /\ N + 1 - p.pos < n
      BY <1>0, <3>1
    <3>3. F[p.pos] \in Seq(V)
      BY <3>2
    <3>4. <<p.val>> \o F[p.pos] \in Seq(V)
      BY <3>1, <3>3
    <3> QED
      BY <2>1, <2>2, <3>4
  <2> HIDE DEF p
  <2>3. CASE ~(~(i > N) /\ p.ok)
    <3>1. F[i] = <<>>
      BY <2>1, <2>3
    <3> QED
      BY <3>1
  <2> QED
    BY <2>2, <2>3
<1>4. N + 1 \in S
  <2>1. S \in SUBSET Nat
    OBVIOUS
  <2> HIDE DEF S
  <2>2. S = Nat
    BY <1>2, <1>3, <2>1, SetInduction
  <2> QED
    BY <1>0, <2>2
<1>5. 1 \in 1..(N + 1) /\ N + 1 - 1 < N + 1
  BY <1>0
<1> QED
  BY <1>1, <1>4, <1>5 DEF V

-----------------------------------------------------------------------------
(* The user information of an AARQ.                                        *)

(* The TLVs of user information that hold an MMS PDU or lead to one.       *)
Hits(buf) ==
  LET tlvs == TLVsOf(buf)
  IN {k \in DOMAIN tlvs :
        \/ tlvs[k].class = Context /\ tlvs[k].tag = 0
        \/ tlvs[k].class = Universal /\ tlvs[k].constructed /\ tlvs[k].tag = 8}

(* The first of them.                                                      *)
FirstHit(buf) == TLVsOf(buf)[Min(Hits(buf))]

(* It is one of the TLVs.                                                  *)
LEMMA FirstHitType ==
  ASSUME NEW buf \in Octets, Hits(buf) # {}
  PROVE  FirstHit(buf).value \in Octets /\ Len(FirstHit(buf).value) < Len(buf)
<1> DEFINE T == TLVsOf(buf)
           H == Hits(buf)
<1>1. T \in Seq(ShortTlv(buf))
  BY TLVsType
<1>2. H \in SUBSET (DOMAIN T)
  BY DEF Hits
<1> HIDE DEF T
<1>3. DOMAIN T \in SUBSET Nat
  BY <1>1
<1> HIDE DEF H
<1>4. Min(H) \in DOMAIN T
  BY <1>2, <1>3, MinIn DEF H
<1>5. T[Min(H)] \in ShortTlv(buf)
  BY <1>1, <1>4
<1>6. FirstHit(buf) = T[Min(H)]
  BY DEF FirstHit, T, H
<1> QED
  BY <1>5, <1>6 DEF ShortTlv

(* extractMmsFromUserInfo takes one step: the recursive function exists    *)
(* because each step leaves less to look at.                               *)
LEMMA ExtractStep ==
  ASSUME NEW x \in Octets
  PROVE  extractMmsFromUserInfo[x] =
           IF Hits(x) = {} THEN Fail
           ELSE IF FirstHit(x).class = Context THEN Decoded(FirstHit(x).value, 1)
           ELSE extractMmsFromUserInfo[FirstHit(x).value]
<1> DEFINE D == Octets
           V(b) == FirstHit(b).value
           C(b) == FirstHit(b).class = Context
           E(b) == Hits(b) = {}
           step(f, b) == IF E(b) THEN Fail ELSE IF C(b) THEN Decoded(V(b), 1) ELSE f[V(b)]
           body(f) == [b \in D |-> step(f, b)]
           X == {Fail} \cup {Decoded(V(b), 1) : b \in D}
           halt == {b \in D : E(b) \/ C(b)}
           m == [b \in D |-> Len(b)]
           h == [b \in D |-> IF E(b) THEN Fail ELSE Decoded(V(b), 1)]
           g == [b \in D |-> IF b \in halt THEN b ELSE V(b)]
           op == [b \in D |-> [r \in X |-> r]]
           at == CHOOSE f : f = body(f)
<1>1. extractMmsFromUserInfo = at
  BY DEF extractMmsFromUserInfo, Hits, FirstHit, Octets, Octet
<1>2. \A b \in D : ~E(b) => V(b) \in D /\ Len(V(b)) < Len(b)
  BY FirstHitType
<1> HIDE DEF V, C, E
<1>3. Shrinks(D, m, halt, X, h, g, op)
  <2>1. m \in [D -> Nat]
    BY DEF Octets
  <2>2. halt \in SUBSET D /\ h \in [D -> X] /\ op \in [D -> [X -> X]]
    <3> HIDE DEF D
    <3> QED
      OBVIOUS
  <2>4. g \in [D -> D]
    <3> HIDE DEF D
    <3> QED
      BY <1>2
  <2>6. ASSUME NEW b \in D \ halt PROVE m[g[b]] < m[b]
    <3> HIDE DEF D
    <3>1. g[b] = V(b) /\ V(b) \in D /\ Len(V(b)) < Len(b)
      BY <1>2
    <3> HIDE DEF g
    <3> QED
      BY <3>1
  <2> HIDE DEF D, m, halt, X, h, g, op
  <2> QED
    BY <2>1, <2>2, <2>4, <2>6 DEF Shrinks
<1>4. PICK f \in [D -> X] : \A b \in D : SolvedAt(f, b, halt, h, g, op)
  <2> HIDE DEF D, m, halt, X, h, g, op
  <2> QED
    BY <1>3, MeasureRecursion
<1>5. f = body(f)
  <2>1. ASSUME NEW b \in D PROVE f[b] = step(f, b)
    <3>1. f[b] = IF b \in halt THEN h[b] ELSE op[b][f[g[b]]]
      BY <1>4 DEF SolvedAt
    <3> HIDE DEF D
    <3>2. CASE b \in halt
      <4>1. f[b] = h[b] /\ h[b] = IF E(b) THEN Fail ELSE Decoded(V(b), 1)
        <5> HIDE DEF halt
        <5> QED
          BY <3>1, <3>2
      <4>2. E(b) \/ C(b)
        BY <3>2
      <4> QED
        BY <4>1, <4>2
    <3>3. CASE b \notin halt
      <4>1. ~E(b) /\ ~C(b) /\ g[b] = V(b) /\ V(b) \in D
        BY <1>2, <3>3
      <4>2. f[V(b)] \in X
        <5> HIDE DEF X
        <5> QED
          BY <4>1
      <4>3. op[b][f[V(b)]] = f[V(b)]
        <5> HIDE DEF X
        <5> QED
          BY <4>2
      <4>4. f[b] = f[V(b)]
        <5> HIDE DEF op, g, h, halt, X
        <5> QED
          BY <3>1, <3>3, <4>1, <4>3
      <4> QED
        BY <4>1, <4>4
    <3> QED
      BY <3>2, <3>3
  <2> HIDE DEF D, X, step
  <2>2. \A b \in D : f[b] = step(f, b)
    BY <2>1
  <2> QED
    BY <2>2
<1>6. at = body(at)
  <2> HIDE DEF body
  <2> QED
    BY <1>5
<1>7. at[x] = step(at, x)
  <2> HIDE DEF at, step, D
  <2>1. x \in D
    BY DEF D
  <2>2. at[x] = body(at)[x]
    BY <1>6
  <2> HIDE DEF body
  <2>3. body(at)[x] = step(at, x)
    BY <2>1 DEF body
  <2> QED
    BY <2>2, <2>3
<1> HIDE DEF at
<1> QED
  BY <1>1, <1>7 DEF V, C, E

-----------------------------------------------------------------------------
(* Lengths in the two encodings.                                           *)

(* The recursive function in Digits, to base 256.                          *)
DigitsTo(n) ==
  LET d[m \in 0..n] == IF m = 0 THEN <<>> ELSE Append(d[m \div 256], m % 256)
  IN d

(* A quotient is smaller.                                                  *)
LEMMA QuotientLess ==
  ASSUME NEW k \in Nat, k # 0
  PROVE  k \div 256 \in Nat /\ k \div 256 < k /\ k % 256 \in Nat
  OBVIOUS

(* The recursive function exists: each quotient is smaller.                *)
LEMMA DigitsStep ==
  ASSUME NEW n \in Nat
  PROVE  \A k \in 0..n :
           DigitsTo(n)[k] = IF k = 0 THEN <<>> ELSE Append(DigitsTo(n)[k \div 256], k % 256)
<1> DEFINE D == 0..n
           Q(k) == k \div 256
           R(k) == k % 256
           step(f, k) == IF k = 0 THEN <<>> ELSE Append(f[Q(k)], R(k))
           body(f) == [k \in D |-> step(f, k)]
           X == Seq(Nat)
           halt == {k \in D : k = 0}
           m == [k \in D |-> k]
           h == [k \in D |-> <<>>]
           g == [k \in D |-> IF k \in halt THEN k ELSE Q(k)]
           op == [k \in D |-> [r \in X |-> IF k = 0 THEN r ELSE Append(r, R(k))]]
           at == CHOOSE f : f = body(f)
<1>1. DigitsTo(n) = at
  BY DEF DigitsTo
<1>2. \A k \in D : k # 0 => Q(k) \in D /\ Q(k) < k /\ R(k) \in Nat
  <2> SUFFICES ASSUME NEW k \in D, k # 0 PROVE Q(k) \in D /\ Q(k) < k /\ R(k) \in Nat
    OBVIOUS
  <2>1. Q(k) \in Nat /\ Q(k) < k /\ R(k) \in Nat
    BY QuotientLess
  <2> HIDE DEF Q, R
  <2> QED
    BY <2>1
<1> HIDE DEF Q, R
<1>3. Shrinks(D, m, halt, X, h, g, op)
  <2>1. m \in [D -> Nat]
    OBVIOUS
  <2>2. halt \in SUBSET D /\ h \in [D -> X]
    <3> HIDE DEF D
    <3> QED
      OBVIOUS
  <2>3. op \in [D -> [X -> X]]
    <3> HIDE DEF D
    <3> QED
      BY <1>2
  <2>4. g \in [D -> D]
    <3> HIDE DEF D
    <3> QED
      BY <1>2
  <2>6. ASSUME NEW b \in D \ halt PROVE m[g[b]] < m[b]
    <3> HIDE DEF D
    <3>1. g[b] = Q(b) /\ Q(b) \in D /\ Q(b) < b
      BY <1>2
    <3> HIDE DEF g
    <3> QED
      BY <3>1
  <2> HIDE DEF D, m, halt, X, h, g, op
  <2> QED
    BY <2>1, <2>2, <2>3, <2>4, <2>6 DEF Shrinks
<1>4. PICK f \in [D -> X] : \A b \in D : SolvedAt(f, b, halt, h, g, op)
  <2> HIDE DEF D, m, halt, X, h, g, op
  <2> QED
    BY <1>3, MeasureRecursion
<1>5. f = body(f)
  <2>1. ASSUME NEW b \in D PROVE f[b] = step(f, b)
    <3>1. f[b] = IF b \in halt THEN h[b] ELSE op[b][f[g[b]]]
      BY <1>4 DEF SolvedAt
    <3> HIDE DEF D
    <3>2. CASE b = 0
      <4>1. b \in halt /\ h[b] = <<>>
        BY <3>2
      <4> HIDE DEF h, halt
      <4> QED
        BY <3>1, <3>2, <4>1
    <3>3. CASE b # 0
      <4>1. b \notin halt /\ g[b] = Q(b) /\ Q(b) \in D
        BY <1>2, <3>3
      <4>2. f[Q(b)] \in X
        <5> HIDE DEF X
        <5> QED
          BY <4>1
      <4>3. op[b][f[Q(b)]] = Append(f[Q(b)], R(b))
        <5> HIDE DEF X
        <5> QED
          BY <3>3, <4>2
      <4>4. f[b] = Append(f[Q(b)], R(b))
        <5> HIDE DEF op, g, h, halt, X
        <5> QED
          BY <3>1, <4>1, <4>3
      <4> QED
        BY <3>3, <4>4
    <3> QED
      BY <3>2, <3>3
  <2> HIDE DEF D, X, step
  <2>2. \A b \in D : f[b] = step(f, b)
    BY <2>1
  <2> QED
    BY <2>2
<1>6. at = body(at)
  <2> HIDE DEF body
  <2> QED
    BY <1>5
<1>7. ASSUME NEW x \in D PROVE at[x] = step(at, x)
  <2> HIDE DEF at, step, D
  <2>2. at[x] = body(at)[x]
    BY <1>6
  <2> HIDE DEF body
  <2>3. body(at)[x] = step(at, x)
    BY DEF body
  <2> QED
    BY <2>2, <2>3
<1>8. \A k \in D : at[k] = step(at, k)
  BY <1>7
<1> HIDE DEF at
<1> QED
  BY <1>1, <1>8 DEF Q, R

(* One digit.                                                              *)
LEMMA DigitsOne ==
  ASSUME NEW n \in Nat, NEW k \in Nat, k # 0, k <= 255, k <= n
  PROVE  DigitsTo(n)[k] = <<k>>
<1> DEFINE d == DigitsTo(n)
<1>1. \A j \in 0..n : d[j] = IF j = 0 THEN <<>> ELSE Append(d[j \div 256], j % 256)
  BY DigitsStep
<1> HIDE DEF d
<1>2. k \div 256 = 0 /\ k % 256 = k
  OBVIOUS
<1>3. k \in 0..n /\ 0 \in 0..n
  OBVIOUS
<1>4. d[0] = <<>> /\ d[k] = Append(d[0], k)
  BY <1>1, <1>2, <1>3, ZenonT(60)
<1>5. Append(<<>>, k) = <<k>>
  OBVIOUS
<1> QED
  BY <1>4, <1>5 DEF d

(* What Append does.                                                       *)
LEMMA AppendParts ==
  ASSUME NEW s \in Seq(Nat), NEW r \in Nat
  PROVE  /\ Append(s, r) \in Seq(Nat) /\ Len(Append(s, r)) = Len(s) + 1
         /\ \A k \in 1..Len(s) : Append(s, r)[k] = s[k]
         /\ Append(s, r)[Len(s) + 1] = r
  OBVIOUS

(* Two elements.                                                           *)
LEMMA AppendOne ==
  ASSUME NEW q \in Nat, NEW r \in Nat PROVE Append(<<q>>, r) = <<q, r>>
<1> DEFINE s == <<q>>
           z == <<q, r>>
           a == Append(s, r)
<1>1. s \in Seq(Nat) /\ Len(s) = 1 /\ s[1] = q
  OBVIOUS
<1>2. z \in Seq(Nat) /\ Len(z) = 2 /\ z[1] = q /\ z[2] = r
  OBVIOUS
<1> HIDE DEF s, z
<1>3. /\ a \in Seq(Nat) /\ Len(a) = Len(s) + 1 /\ a[Len(s) + 1] = r
      /\ \A k \in 1..Len(s) : a[k] = s[k]
  <2>1. s \in Seq(Nat)
    BY <1>1
  <2> QED
    BY <2>1, AppendParts
<1> HIDE DEF a
<1>4. Len(a) = 2 /\ a[2] = r /\ a[1] = q
  BY <1>1, <1>3
<1>5. a = z
  BY <1>2, <1>3, <1>4, SMTT(60)
<1> QED
  BY <1>5 DEF a, s, z

(* The digits of n without the last one, and that one.                     *)
Quot(n) == n \div 256
Rem(n) == n % 256

(* The last digit.                                                         *)
LEMMA DigitsNext ==
  ASSUME NEW n \in Nat, NEW k \in Nat, k # 0, k <= n
  PROVE  DigitsTo(n)[k] = Append(DigitsTo(n)[Quot(k)], Rem(k))
<1> DEFINE d == DigitsTo(n)
<1>1. \A j \in 0..n : d[j] = IF j = 0 THEN <<>> ELSE Append(d[j \div 256], j % 256)
  BY DigitsStep
<1> HIDE DEF d
<1>2. k \in 0..n
  OBVIOUS
<1>3. d[k] = Append(d[k \div 256], k % 256)
  BY <1>1, <1>2
<1> QED
  BY <1>3 DEF d, Quot, Rem

(* One digit of a number, and two.                                         *)
LEMMA DigitsFew ==
  ASSUME NEW n \in Nat, n # 0, n < 65536
  PROVE  Digits(256, n) = IF n <= 255 THEN <<n>> ELSE <<n \div 256, n % 256>>
<1>1. Digits(256, n) = DigitsTo(n)[n]
  BY DEF Digits, DigitsTo
<1>2. CASE n <= 255
  BY <1>1, <1>2, DigitsOne, SMTT(60)
<1>3. CASE ~(n <= 255)
  <2> DEFINE d == DigitsTo(n)
             q == Quot(n)
             r == Rem(n)
  <2>1. q \in Nat /\ q # 0 /\ q <= 255 /\ q <= n /\ r \in Nat
    BY <1>3 DEF Quot, Rem
  <2>0. n <= n
    OBVIOUS
  <2>2. d[n] = Append(d[q], r)
    BY <2>0, DigitsNext
  <2>3. Append(d[q], r) = Append(<<q>>, r)
    <3> HIDE DEF q, r
    <3>1. DigitsTo(n)[q] = <<q>>
      BY <2>1, DigitsOne
    <3> QED
      BY <3>1
  <2> HIDE DEF d
  <2>4. Append(<<q>>, r) = <<q, r>>
    <3> HIDE DEF q, r
    <3> QED
      BY <2>1, AppendOne
  <2>5. d[n] = <<q, r>>
    <3> HIDE DEF q, r
    <3> QED
      BY <2>2, <2>3, <2>4
  <2> HIDE DEF q, r
  <2>6. Digits(256, n) = <<q, r>>
    BY <1>1, <2>5 DEF d
  <2> QED
    BY <1>3, <2>6 DEF q, r, Quot, Rem
<1> QED
  BY <1>2, <1>3

(* Octets side by side.                                                    *)
LEMMA Beside ==
  ASSUME NEW x \in Octet, NEW y \in Octet PROVE <<x>> \o <<y>> = <<x, y>>
<1> DEFINE a == <<x>>
           b == <<y>>
           z == <<x, y>>
<1>1. a \in Octets /\ b \in Octets /\ z \in Octets
  BY DEF Octets
<1>2. Len(a) = 1 /\ Len(b) = 1 /\ Len(z) = 2 /\ a[1] = x /\ b[1] = y /\ z[1] = x /\ z[2] = y
  OBVIOUS
<1> HIDE DEF a, b, z
<1>3. IsJoin(z, a, b)
  BY <1>1, <1>2 DEF IsJoin
<1>4. a \o b = z
  BY <1>1, <1>3, JoinEquals
<1> QED
  BY <1>4 DEF a, b, z

(* Three of them.                                                          *)
LEMMA BesideTwo ==
  ASSUME NEW x \in Octet, NEW y \in Octet, NEW w \in Octet
  PROVE  <<x>> \o <<y, w>> = <<x, y, w>>
<1> DEFINE a == <<x>>
           b == <<y, w>>
           z == <<x, y, w>>
<1>1. a \in Octets /\ b \in Octets
  BY DEF Octets
<1>2. IsJoin(z, a, b)
  BY DEF IsJoin, Octets
<1> HIDE DEF a, b, z
<1>3. a \o b = z
  BY <1>1, <1>2, JoinEquals
<1> QED
  BY <1>3 DEF a, b, z

(* The two encoders of a length write the same.                            *)
LEMMA SameLength ==
  ASSUME NEW n \in Nat, n < 65536 PROVE EncodeLength(n) = encodeLength(n)
<1> DEFINE s == Digits(256, n)
<1>0. EncodeLength(n) = IF n < 128 THEN <<n>> ELSE <<128 + Len(s)>> \o s
  BY DEF EncodeLength
<1>5. n # 0 => s = IF n <= 255 THEN <<n>> ELSE <<n \div 256, n % 256>>
  BY DigitsFew
<1> HIDE DEF s
<1>1. CASE n < 128
  <2>1. encodeLength(n) = <<n>>
    BY <1>1, LengthOctets
  <2> QED
    BY <1>0, <1>1, <2>1
<1>2. CASE ~(n < 128) /\ n <= 255
  <2>1. encodeLength(n) = <<129, n>>
    BY <1>2, LengthOctets
  <2>2. s = <<n>>
    BY <1>2, <1>5
  <2>3. 128 + Len(s) = 129
    BY <2>2
  <2>4. EncodeLength(n) = <<129>> \o <<n>>
    BY <1>0, <1>2, <2>2, <2>3
  <2>5. 129 \in Octet /\ n \in Octet
    BY <1>2 DEF Octet
  <2>6. <<129>> \o <<n>> = <<129, n>>
    BY <2>5, Beside
  <2> QED
    BY <2>1, <2>4, <2>6
<1>3. CASE ~(n <= 255)
  <2> DEFINE q == n \div 256
             r == n % 256
  <2>1. encodeLength(n) = <<130, q % 256, r>>
    BY <1>3, LengthOctets, SMTT(60)
  <2>2. q \in Nat /\ q <= 255 /\ ~(n < 128)
    BY <1>3
  <2>3. s = <<q, r>>
    BY <1>3, <1>5
  <2> HIDE DEF q, r
  <2>4. 128 + Len(s) = 130 /\ q % 256 = q
    BY <2>2, <2>3
  <2>5. EncodeLength(n) = <<130>> \o <<q, r>>
    BY <1>0, <2>2, <2>3, <2>4
  <2>6. 130 \in Octet /\ q \in Octet
    BY <2>2 DEF Octet
  <2>7. r \in Octet
    BY DEF Octet, r
  <2>8. <<130>> \o <<q, r>> = <<130, q, r>>
    BY <2>6, <2>7, BesideTwo
  <2> QED
    BY <2>1, <2>4, <2>5, <2>8
<1> QED
  BY <1>1, <1>2, <1>3

(* What Tagged writes.                                                     *)
LEMMA TaggedParts ==
  ASSUME NEW t, NEW b, NEW e, e = EncodeLength(Len(b)) PROVE Tagged(t, b) = <<t>> \o e \o b
  BY DEF Tagged, With

(* Where they do, the ACSE and MMS elements are those of the presentation  *)
(* layer.                                                                  *)
LEMMA TaggedIs ==
  ASSUME NEW t, NEW b, IsElement(t, b)
  PROVE  Tagged(t, b) = Block(t, b)
<1> DEFINE e == EncodeLength(Len(b))
           f == encodeLength(Len(b))
           x == Tagged(t, b)
           y == Block(t, b)
<1>1. e = f
  BY SameLength DEF IsElement, Octets
<1>2. t \in Octet /\ b \in Octets
  BY DEF IsElement
<1>3. x = <<t>> \o e \o b
  <2>1. e = EncodeLength(Len(b))
    OBVIOUS
  <2> HIDE DEF e
  <2> QED
    BY <2>1, TaggedParts
<1>4. y = <<t>> \o f \o b
  BY <1>2, BlockOctets
<1> HIDE DEF e, f, x, y
<1>6. x = y
  BY <1>1, <1>3, <1>4
<1> QED
  BY <1>6 DEF x, y

-----------------------------------------------------------------------------
(* What the server finds in the user information.                          *)

(* TLVs as the builders write them.                                        *)
Tlvs == {Tlv(t, b) : t \in Octet, b \in Octets}

(* The fields of one.                                                      *)
LEMMA TlvFields ==
  ASSUME NEW t, NEW b
  PROVE  /\ Tlv(t, b).class = t - (t % 64)
         /\ Tlv(t, b).constructed = ((t \div 32) % 2 = 1)
         /\ Tlv(t, b).tag = t % 32 /\ Tlv(t, b).value = b
  BY DEF Tlv

(* Whether a tag octet is of a constructed element.                        *)
LEMMA Constructs ==
  ASSUME NEW b
  PROVE  Tlv(40, b).constructed /\ ~Tlv(2, b).constructed
<1>1. (40 \div 32) % 2 = 1 /\ (2 \div 32) % 2 = 0
  OBVIOUS
<1>2. Tlv(40, b).constructed = ((40 \div 32) % 2 = 1)
  BY DEF Tlv
<1>3. Tlv(2, b).constructed = ((2 \div 32) % 2 = 1)
  BY DEF Tlv
<1>4. (40 \div 32) % 2 = 1 /\ ~((2 \div 32) % 2 = 1)
  OBVIOUS
<1> QED
  BY <1>2, <1>3, <1>4

(* What a list is with one more element in front.                          *)
Leads(z, v, s) ==
  /\ z \in Seq(Tlvs) /\ Len(z) = Len(s) + 1 /\ z[1] = v
  /\ \A k \in 1..Len(s) : z[k + 1] = s[k]

(* A list with one more element in front.                                  *)
LEMMA Prepend ==
  ASSUME NEW v \in Tlvs, NEW s \in Seq(Tlvs)
  PROVE  Leads(<<v>> \o s, v, s)
<1> DEFINE a == <<v>>
<1>1. a \in Seq(Tlvs) /\ Len(a) = 1 /\ a[1] = v
  OBVIOUS
<1> HIDE DEF a
<1> DEFINE z == a \o s
<1>2. /\ z \in Seq(Tlvs) /\ Len(z) = Len(a) + Len(s)
      /\ \A k \in 1..Len(a) : z[k] = a[k]
      /\ \A k \in 1..Len(s) : z[Len(a) + k] = s[k]
  <2>1. a \in Seq(Tlvs)
    BY <1>1
  <2>2. z \in Seq(Tlvs) /\ Len(z) = Len(a) + Len(s)
    BY <2>1
  <2>3. \A k \in 1..Len(a) : z[k] = a[k]
    BY <2>1
  <2>4. \A k \in 1..Len(s) : z[Len(a) + k] = s[k]
    BY <2>1
  <2> QED
    BY <2>2, <2>3, <2>4
<1> HIDE DEF z
<1>3. Leads(z, v, s)
  BY <1>1, <1>2 DEF Leads
<1> QED
  BY <1>3 DEF z, a

(* One more element, and the last one.                                     *)
LEMMA ListsLeads ==
  ASSUME NEW t, LowTag(t), NEW b, IsElement(t, b), NEW y, NEW s \in Seq(Tlvs), Lists(y, s)
  PROVE  \E z : Lists(Block(t, b) \o y, z) /\ Leads(z, Tlv(t, b), s)
<1>1. Tlv(t, b) \in Tlvs
  BY DEF IsElement, Tlvs
<1> QED
  BY <1>1, ListsMore, Prepend

(* The element that is alone.                                              *)
LEMMA ListsAlone ==
  ASSUME NEW t, LowTag(t), NEW b, IsElement(t, b)
  PROVE  \E z : /\ Lists(Block(t, b), z) /\ z \in Seq(Tlvs) /\ Len(z) = 1 /\ z[1] = Tlv(t, b)
<1> DEFINE y == <<>>
           s == <<>>
<1>1. Lists(y, s) /\ s \in Seq(Tlvs) /\ Len(s) = 0
  BY ListsNone
<1>2. Block(t, b) \o y = Block(t, b)
  <2>1. Block(t, b) \in Octets
    BY BlockIn DEF IsElement
  <2> QED
    BY <2>1, JoinNothing
<1> HIDE DEF y, s
<1>3. PICK z : Lists(Block(t, b) \o y, z) /\ Leads(z, Tlv(t, b), s)
  BY <1>1, ListsLeads
<1> QED
  BY <1>1, <1>2, <1>3 DEF Leads

(* The tags in use.                                                        *)
LEMMA LowTags ==
  /\ LowTag(2) /\ LowTag(40) /\ LowTag(128) /\ LowTag(129) /\ LowTag(130) /\ LowTag(131)
  /\ LowTag(138) /\ LowTag(139) /\ LowTag(160) /\ LowTag(161) /\ LowTag(164)
  /\ LowTag(172) /\ LowTag(190)
  BY DEF LowTag, Octet

(* The user information inside the EXTERNAL.                               *)
UserInfoBody(mms) == <<2, 1, 3>> \o Block(160, mms)

(* The EXTERNAL around an MMS PDU, for PDUs the size of an Initiate.       *)
LEMMA UserInfoShape ==
  ASSUME NEW mms \in Octets, Len(mms) <= 100
  PROVE  /\ buildUserInfo(mms) = Block(40, UserInfoBody(mms))
         /\ IsElement(40, UserInfoBody(mms)) /\ IsElement(160, mms) /\ IsElement(2, <<3>>)
         /\ UserInfoBody(mms) = Block(2, <<3>>) \o Block(160, mms)
         /\ buildUserInfo(mms) \in Octets /\ Len(buildUserInfo(mms)) = 7 + Len(mms)
<1> DEFINE n == Len(mms)
           B == Block(160, mms)
           x == <<2, 1, 3>>
           body == x \o B
<1>1. 160 \in Octet /\ 40 \in Octet /\ 3 \in Octet /\ n \in Nat
  BY DEF Octet, Octets
<1>2. x = Block(2, <<3>>) /\ IsElement(2, <<3>>)
  BY <1>1, LiteralBlocks
<1>3. x \in Octets /\ Len(x) = 3
  BY DEF Octets, Octet
<1> HIDE DEF x
<1>4. n < 128 /\ n <= 100
  BY <1>1
<1> HIDE DEF n
<1>5. B \in Octets /\ Len(B) = 2 + n /\ IsElement(160, mms)
  BY <1>1, <1>4, ShortBlock, ZenonT(60) DEF n
<1>6. Tagged(160, mms) = B
  BY <1>5, TaggedIs
<1> HIDE DEF B
<1>7. body \in Octets /\ Len(body) = 5 + n
  <2>1. body \in Octets /\ Len(body) = Len(x) + Len(B)
    BY <1>3, <1>5, JoinOctets
  <2> HIDE DEF body
  <2> QED
    BY <1>1, <1>3, <1>5, <2>1
<1>8. UserInfoBody(mms) = body
  BY DEF UserInfoBody, x, B
<1>9. buildUserInfo(mms) = Tagged(40, body)
  BY <1>6 DEF buildUserInfo, x
<1> HIDE DEF body
<1>10. Block(40, body) \in Octets /\ Len(Block(40, body)) = 2 + Len(body) /\ IsElement(40, body)
  <2>1. Len(body) < 128
    BY <1>1, <1>4, <1>7
  <2> QED
    BY <1>1, <1>7, <2>1, ShortBlock
<1>11. Tagged(40, body) = Block(40, body)
  BY <1>10, TaggedIs
<1>12. Len(Block(40, body)) = 7 + n
  BY <1>1, <1>7, <1>10
<1>13. body = Block(2, <<3>>) \o Block(160, mms)
  BY <1>2 DEF body, B
<1> QED
  BY <1>2, <1>5, <1>8, <1>9, <1>10, <1>11, <1>12, <1>13 DEF n

(* The server takes the MMS PDU out of it.                                 *)
LEMMA ServerExtracts ==
  ASSUME NEW mms \in Octets, Len(mms) <= 100
  PROVE  extractMmsFromUserInfo[buildUserInfo(mms)] = Decoded(mms, 1)
<1> DEFINE body == UserInfoBody(mms)
           ui == buildUserInfo(mms)
           c == <<3>>
<1>1. /\ ui = Block(40, body) /\ IsElement(40, body) /\ IsElement(160, mms) /\ IsElement(2, c)
      /\ body = Block(2, c) \o Block(160, mms) /\ ui \in Octets
  BY UserInfoShape
<1>2. body \in Octets
  BY <1>1 DEF IsElement
<1> HIDE DEF body, ui, c
<1>3. PICK s : Lists(ui, s) /\ s \in Seq(Tlvs) /\ Len(s) = 1 /\ s[1] = Tlv(40, body)
  BY <1>1, LowTags, ListsAlone
<1>4. TLVsOf(ui) = s
  BY <1>3, ListsAll
<1>5. Hits(ui) = {1} /\ FirstHit(ui) = Tlv(40, body)
  <2>0. Tlv(40, body).class = 0 /\ Tlv(40, body).tag = 8
    BY TlvFields
  <2>1. /\ Tlv(40, body).class = Universal /\ Tlv(40, body).constructed
        /\ Tlv(40, body).tag = 8
    BY <2>0, Constructs DEF Universal
  <2>2. DOMAIN s = {1}
    BY <1>3
  <2>3. Hits(ui) = {1}
    BY <1>3, <1>4, <2>1, <2>2 DEF Hits
  <2>4. Min({1}) = 1
    BY MinOne
  <2> QED
    BY <1>3, <1>4, <2>3, <2>4 DEF FirstHit
<1>6. extractMmsFromUserInfo[ui] = extractMmsFromUserInfo[body]
  <2>1. FirstHit(ui).class = 0 /\ FirstHit(ui).value = body /\ Hits(ui) # {}
    BY <1>5, TlvFields
  <2>2. FirstHit(ui).class # Context
    BY <2>1 DEF Context
  <2> QED
    BY <1>1, <2>1, <2>2, ExtractStep, ZenonT(60)
<1>7. PICK r : Lists(Block(160, mms), r) /\ r \in Seq(Tlvs) /\ Len(r) = 1
               /\ r[1] = Tlv(160, mms)
  BY <1>1, LowTags, ListsAlone
<1>8. PICK q : Lists(body, q) /\ Leads(q, Tlv(2, c), r)
  BY <1>1, <1>7, LowTags, ListsLeads
<1>9. TLVsOf(body) = q
  BY <1>8, ListsAll
<1>10. Len(q) = 2 /\ q[1] = Tlv(2, c) /\ q[2] = Tlv(160, mms) /\ DOMAIN q = {1, 2}
  <2>1. 1 \in 1..Len(r) /\ 1 + 1 = 2 /\ Len(r) + 1 = 2
    BY <1>7
  <2>2. Len(q) = 2 /\ q[1] = Tlv(2, c) /\ q[2] = r[1] /\ q \in Seq(Tlvs)
    BY <1>8, <2>1 DEF Leads
  <2>3. DOMAIN q = {1, 2}
    BY <2>2
  <2> QED
    BY <1>7, <2>2, <2>3
<1>11. Hits(body) = {2} /\ FirstHit(body) = Tlv(160, mms)
  <2>1. /\ Tlv(160, mms).class = Context /\ Tlv(160, mms).tag = 0
    BY TlvFields DEF Context
  <2>5. Tlv(2, c).class = 0
    BY TlvFields
  <2>2. /\ Tlv(2, c).class # Context /\ ~Tlv(2, c).constructed
    BY <2>5, Constructs DEF Context
  <2>3. Hits(body) = {2}
    BY <1>9, <1>10, <2>1, <2>2 DEF Hits
  <2>4. Min({2}) = 2
    BY MinOne
  <2> QED
    BY <1>9, <1>10, <2>3, <2>4 DEF FirstHit
<1>12. extractMmsFromUserInfo[body] = Decoded(mms, 1)
  <2>1. FirstHit(body).class = Context /\ FirstHit(body).value = mms /\ Hits(body) # {}
    BY <1>11, TlvFields DEF Context
  <2> QED
    BY <1>2, <2>1, ExtractStep
<1> QED
  BY <1>6, <1>12 DEF ui

-----------------------------------------------------------------------------
(* What the server finds in an AARQ.                                       *)

(* An AARQ whose one user information is its element k.                    *)
LEMMA ParseAARQBody ==
  ASSUME NEW body, IsElement(96, body), NEW s \in Seq(Tlvs), Lists(body, s),
         NEW k \in 1..Len(s), s[k].class = Context, s[k].tag = 30,
         \A j \in 1..Len(s) : j # k => s[j].tag # 30
  PROVE  ParseAARQ(Block(96, body)) = extractMmsFromUserInfo[s[k].value]
<1> DEFINE B == Block(96, body)
           c == Cut(B, DecodeLength(B, 2))
           next(b) == With(TLVsOf(b), LAMBDA tlvs :
              LET info == {i \in DOMAIN tlvs : tlvs[i].class = Context /\ tlvs[i].tag = 30}
              IN IF info = {} THEN Fail
                 ELSE extractMmsFromUserInfo[tlvs[Min(info)].value])
           info == {i \in DOMAIN s : s[i].class = Context /\ s[i].tag = 30}
           r == extractMmsFromUserInfo[s[k].value]
<1>1. /\ ~(Len(B) < 2) /\ Head(B) = 96 /\ c.ok /\ c.val = body
  <2> DEFINE pos == 2 + LL(Len(body))
             n == Len(body)
             l == DecodeLength(B, 2)
  <2>1. /\ B \in Octets /\ Len(B) >= 2 /\ Head(B) = 96
        /\ LengthAmong(1..4, B, 2) = Decoded(n, pos)
        /\ Slice(B, pos, n) = Decoded(body, Len(B) + 1)
    <3>1. B = Block(96, body)
      OBVIOUS
    <3> HIDE DEF B
    <3> QED
      BY <3>1, CountsOf, ReadOuter
  <2> HIDE DEF B, pos, n
  <2>2. l.ok /\ l.val = n /\ l.pos = pos
    BY <2>1, DecodedFields DEF DecodeLength
  <2> HIDE DEF l
  <2>3. Cut(B, l) = Slice(B, pos, n)
    BY <2>2, CutIs
  <2>4. Cut(B, l) = Decoded(body, Len(B) + 1)
    BY <2>1, <2>3
  <2>5. c.ok /\ c.val = body
    BY <2>4, DecodedFields DEF l
  <2>6. ~(Len(B) < 2)
    BY <2>1 DEF Octets
  <2> QED
    BY <2>1, <2>5, <2>6
<1>2. TLVsOf(body) = s
  BY ListsAll
<1>3. info = {k}
  BY SMTT(60)
<1>4. Min(info) = k
  <2>1. k \in Nat
    OBVIOUS
  <2> HIDE DEF info
  <2> QED
    BY <1>3, <2>1, MinOne
<1>5. next(body) = r
  <2> DEFINE F(tlvs) ==
              LET in == {i \in DOMAIN tlvs : tlvs[i].class = Context /\ tlvs[i].tag = 30}
              IN IF in = {} THEN Fail
                 ELSE extractMmsFromUserInfo[tlvs[Min(in)].value]
  <2>1. F(s) = r
    <3>1. F(s) = IF info = {} THEN Fail ELSE extractMmsFromUserInfo[s[Min(info)].value]
      OBVIOUS
    <3> HIDE DEF F, info
    <3> QED
      BY <1>3, <1>4, <3>1
  <2>2. next(body) = CHOOSE v \in {F(x) : x \in {TLVsOf(body)}} : TRUE
    BY Zenon DEF With
  <2> HIDE DEF F, next, r
  <2>3. {F(x) : x \in {s}} = {r}
    BY <2>1
  <2> QED
    BY <1>2, <2>2, <2>3
<1>6. ParseAARQ(B) = Then(c, next)
  <2> HIDE DEF B
  <2> QED
    BY <1>1, Zenon DEF ParseAARQ
<1>7. Then(c, next) = next(body)
  <2> HIDE DEF c, next
  <2> QED
    BY <1>1 DEF Then, With
<1> HIDE DEF next
<1> QED
  BY <1>5, <1>6, <1>7

(* Elements in front of the user information of an AARQ.                   *)
LEMMA TagsOfAARQ ==
  /\ \A b : Tlv(190, b).class = Context /\ Tlv(190, b).tag = 30
  /\ \A b : /\ Tlv(161, b).tag # 30 /\ Tlv(138, b).tag # 30
            /\ Tlv(139, b).tag # 30 /\ Tlv(172, b).tag # 30
  BY TlvFields DEF Context

-----------------------------------------------------------------------------
(* The AARQ without a password.                                            *)

(* z is the octets of an element with the tag t and the short body b.      *)
IsLiteral(z, t, b) ==
  /\ t \in Octet /\ b \in Octets /\ z \in Octets /\ Len(b) < 128 /\ Len(z) = Len(b) + 2
  /\ z[1] = t /\ z[2] = Len(b) /\ \A k \in 1..Len(b) : z[k + 2] = b[k]

(* Such octets are a block.                                                *)
LEMMA LiteralIsBlock ==
  ASSUME NEW z, NEW t, NEW b, IsLiteral(z, t, b)
  PROVE  z = Block(t, b) /\ IsElement(t, b)
<1> DEFINE h == <<t, Len(b)>>
<1>1. /\ t \in Octet /\ b \in Octets /\ z \in Octets /\ Len(b) < 128 /\ Len(z) = Len(b) + 2
      /\ z[1] = t /\ z[2] = Len(b) /\ \A k \in 1..Len(b) : z[k + 2] = b[k]
      /\ Len(b) \in Nat
  BY DEF IsLiteral, Octets
<1>2. Block(t, b) = h \o b /\ IsElement(t, b)
  BY <1>1, ShortBlock
<1>3. h \in Octets
  <2>1. Len(b) \in Octet
    BY <1>1, SmallOctet
  <2> QED
    BY <1>1, <2>1 DEF Octets
<1>4. Len(h) = 2 /\ h[1] = t /\ h[2] = Len(b)
  OBVIOUS
<1> HIDE DEF h
<1>5. IsJoin(z, h, b)
  <2>1. Len(z) = Len(h) + Len(b)
    BY <1>1, <1>4
  <2>2. \A k \in 1..Len(h) : z[k] = h[k]
    BY <1>1, <1>4
  <2>3. ASSUME NEW k \in 1..Len(b) PROVE z[Len(h) + k] = b[k]
    <3>1. Len(h) + k = k + 2
      BY <1>1, <1>4
    <3> QED
      BY <1>1, <3>1
  <2> QED
    BY <1>1, <2>1, <2>2, <2>3 DEF IsJoin
<1>6. h \o b = z
  BY <1>1, <1>3, <1>5, JoinEquals
<1> QED
  BY <1>2, <1>6

(* The octets of the application context name.                             *)
NameBody == <<6, 5, 40, 202, 34, 2, 3>>

(* The octet tuples of the AARQ are elements.                              *)
LEMMA LiteralsOfAARQ ==
  /\ appContextNameMMS = Block(161, NameBody) /\ IsElement(161, NameBody)
  /\ <<138, 2, 4, 128>> = Block(138, <<4, 128>>) /\ IsElement(138, <<4, 128>>)
  /\ <<139, 3, 82, 3, 1>> = Block(139, <<82, 3, 1>>) /\ IsElement(139, <<82, 3, 1>>)
<1>1. IsLiteral(<<161, 7, 6, 5, 40, 202, 34, 2, 3>>, 161, <<6, 5, 40, 202, 34, 2, 3>>)
  BY DEF IsLiteral, Octets, Octet
<1>2. IsLiteral(<<138, 2, 4, 128>>, 138, <<4, 128>>)
  BY DEF IsLiteral, Octets, Octet
<1>3. IsLiteral(<<139, 3, 82, 3, 1>>, 139, <<82, 3, 1>>)
  BY DEF IsLiteral, Octets, Octet
<1>4. appContextNameMMS = Block(161, NameBody) /\ IsElement(161, NameBody)
  <2> DEFINE z == <<161, 7, 6, 5, 40, 202, 34, 2, 3>>
             b == <<6, 5, 40, 202, 34, 2, 3>>
  <2>1. IsLiteral(z, 161, b)
    BY <1>1
  <2> HIDE DEF z, b
  <2>2. z = Block(161, b) /\ IsElement(161, b)
    BY <2>1, LiteralIsBlock
  <2> QED
    BY <2>2 DEF z, b, appContextNameMMS, NameBody
<1>5. <<138, 2, 4, 128>> = Block(138, <<4, 128>>) /\ IsElement(138, <<4, 128>>)
  BY <1>2, LiteralIsBlock
<1>6. <<139, 3, 82, 3, 1>> = Block(139, <<82, 3, 1>>) /\ IsElement(139, <<82, 3, 1>>)
  BY <1>3, LiteralIsBlock
<1> QED
  BY <1>4, <1>5, <1>6

(* What the length of a block is at most.                                  *)
LEMMA BlockAtMost ==
  ASSUME NEW t \in Octet, NEW b \in Octets
  PROVE  /\ Block(t, b) \in Octets /\ Len(b) \in Nat
         /\ Len(b) < Len(Block(t, b)) /\ Len(Block(t, b)) <= Len(b) + 4
<1> DEFINE B == Block(t, b)
           n == Len(b)
<1>1. B \in Octets /\ Len(B) = 1 + LL(n) + n /\ n \in Nat /\ LL(n) \in 1..3
  BY BlockOctets
<1> HIDE DEF B, n
<1>2. n < Len(B) /\ Len(B) <= n + 4
  BY <1>1
<1> QED
  BY <1>1, <1>2 DEF B, n

(* b is a buffer of n octets.                                              *)
Sized(b, n) == b \in Octets /\ n \in Nat /\ Len(b) = n

(* The size of a short block.                                              *)
LEMMA SizedBlock ==
  ASSUME NEW t \in Octet, NEW b, NEW n \in Nat, Sized(b, n), n < 128,
         NEW m, m = n + 2
  PROVE  Sized(Block(t, b), m) /\ IsElement(t, b)
<1> DEFINE B == Block(t, b)
<1>1. b \in Octets /\ Len(b) < 128 /\ Len(b) = n
  BY DEF Sized
<1>2. B \in Octets /\ Len(B) = 2 + Len(b) /\ IsElement(t, b)
  BY <1>1, ShortBlock
<1> HIDE DEF B
<1>3. Len(B) = m
  BY <1>1, <1>2
<1> QED
  BY <1>2, <1>3 DEF Sized, B

(* The size of a concatenation.                                            *)
LEMMA SizedJoin ==
  ASSUME NEW x, NEW y, NEW m, NEW n, Sized(x, m), Sized(y, n), NEW k, k = m + n
  PROVE  Sized(x \o y, k)
<1> DEFINE z == x \o y
<1>1. x \in Octets /\ y \in Octets /\ m \in Nat /\ n \in Nat /\ Len(x) = m /\ Len(y) = n
  BY DEF Sized
<1>2. z \in Octets /\ Len(z) = Len(x) + Len(y)
  <2>1. x \in Octets /\ y \in Octets
    BY <1>1
  <2> QED
    BY <2>1, JoinOctets
<1> HIDE DEF z
<1>3. Len(z) = k
  BY <1>1, <1>2
<1> QED
  BY <1>1, <1>2, <1>3 DEF Sized, z

(* An Initiate PDU in its EXTERNAL.                                        *)
LEMMA SizedUserInfo ==
  ASSUME NEW mms, Sized(mms, 40)
  PROVE  /\ Sized(buildUserInfo(mms), 47) /\ mms \in Octets
         /\ extractMmsFromUserInfo[buildUserInfo(mms)] = Decoded(mms, 1)
<1>1. mms \in Octets /\ Len(mms) <= 100 /\ 7 + Len(mms) = 47
  BY DEF Sized
<1> QED
  BY <1>1, UserInfoShape, ServerExtracts DEF Sized

(* A buffer has a size.                                                    *)
LEMMA SizedOctets ==
  ASSUME NEW b, NEW n, Sized(b, n) PROVE b \in Octets /\ Len(b) = n /\ n \in Nat
  BY DEF Sized

(* Tags that are octets.                                                   *)
LEMMA OctetTags == 190 \in Octet /\ 96 \in Octet /\ 97 \in Octet /\ 172 \in Octet
  BY DEF Octet

(* What an AARQ without a password carries.                                *)
LEMMA AarqWithout ==
  ASSUME NEW mms, Sized(mms, 40)
  PROVE  /\ Sized(BuildAARQ(NoPassword, mms), 60)
         /\ ParseAARQ(BuildAARQ(NoPassword, mms)) = Decoded(mms, 1)
<1> DEFINE ui == buildUserInfo(mms)
           U == Block(190, ui)
           x == appContextNameMMS
           body == x \o U
           a == Block(96, body)
<1>1. Sized(ui, 47) /\ extractMmsFromUserInfo[ui] = Decoded(mms, 1)
  BY SizedUserInfo
<1> HIDE DEF ui
<1>2. Sized(U, 49) /\ IsElement(190, ui)
  BY <1>1, OctetTags, SizedBlock
<1>3. Tagged(190, ui) = U
  BY <1>2, TaggedIs
<1>4. Sized(x, 9) /\ x \o <<>> = x
  BY DEF appContextNameMMS, Sized, Octets, Octet
<1>5. x = Block(161, NameBody) /\ IsElement(161, NameBody)
  BY LiteralsOfAARQ
<1> HIDE DEF x, U
<1>6. Sized(body, 58)
  <2>1. PICK m, n, k : m = 9 /\ n = 49 /\ k = 58
    OBVIOUS
  <2>2. Sized(x, m) /\ Sized(U, n) /\ k = m + n
    BY <1>2, <1>4, <2>1
  <2> HIDE DEF body
  <2>3. Sized(x \o U, k)
    BY <2>2, SizedJoin
  <2> QED
    BY <2>1, <2>3 DEF body
<1>7. IsElement(96, body) /\ Sized(a, 60)
  <2> HIDE DEF body
  <2> QED
    BY <1>6, OctetTags, SizedBlock
<1>8. BuildAARQ(NoPassword, mms) = a
  <2> DEFINE p == NoPassword
             w == IF p = NoPassword THEN <<>> ELSE PasswordFields(p)
  <2>1. BuildAARQ(p, mms) = Tagged(96, x \o w \o U)
    <3> HIDE DEF p
    <3> QED
      BY <1>3 DEF BuildAARQ, ui, x
  <2>2. w = <<>>
    OBVIOUS
  <2> HIDE DEF w
  <2>3. x \o w = x
    BY <1>4, <2>2
  <2>4. x \o w \o U = body
    BY <2>3
  <2> HIDE DEF body
  <2>5. Tagged(96, body) = a
    BY <1>7, TaggedIs
  <2> QED
    BY <2>1, <2>4, <2>5
<1>9. PICK s : /\ Lists(U, s) /\ s \in Seq(Tlvs) /\ Len(s) = 1 /\ s[1] = Tlv(190, ui)
  BY <1>2, LowTags, ListsAlone DEF U
<1>10. PICK z : Lists(body, z) /\ Leads(z, Tlv(161, NameBody), s)
  BY <1>5, <1>9, LowTags, ListsLeads
<1> HIDE DEF body
<1>11. z \in Seq(Tlvs) /\ Len(z) = 2 /\ z[1] = Tlv(161, NameBody) /\ z[2] = Tlv(190, ui)
  <2>1. 1 \in 1..Len(s) /\ 1 + 1 = 2 /\ Len(s) + 1 = 2
    BY <1>9
  <2>2. Len(z) = 2 /\ z[1] = Tlv(161, NameBody) /\ z[2] = s[1] /\ z \in Seq(Tlvs)
    BY <1>10, <2>1 DEF Leads
  <2> QED
    BY <1>9, <2>2
<1>12. ParseAARQ(a) = extractMmsFromUserInfo[ui]
  <2>1. PICK k : k = 2
    OBVIOUS
  <2>2. k \in 1..Len(z) /\ z[k] = Tlv(190, ui)
    BY <1>11, <2>1
  <2>3. z[k].class = Context /\ z[k].tag = 30 /\ z[k].value = ui
    BY <2>2, TagsOfAARQ, TlvFields
  <2>4. \A j \in 1..Len(z) : j # k => z[j].tag # 30
    BY <1>11, <2>1, TagsOfAARQ
  <2>6. z \in Seq(Tlvs) /\ Lists(body, z) /\ k \in 1..Len(z)
    BY <1>10, <1>11, <2>2
  <2>7. z[k].class = Context /\ z[k].tag = 30
    BY <2>3
  <2>5. ParseAARQ(a) = extractMmsFromUserInfo[z[k].value]
    BY <1>7, <2>4, <2>6, <2>7, ParseAARQBody
  <2> QED
    BY <2>3, <2>5
<1> QED
  BY <1>1, <1>7, <1>8, <1>12

-----------------------------------------------------------------------------
(* The AARQ with a password.                                               *)

(* The octets of the authentication value.                                 *)
PasswordBody(password) == <<128, Len(password) % 256>> \o password

(* The fields of a password are elements.                                  *)
LEMMA PasswordShape ==
  ASSUME NEW w \in Octets, Len(w) <= 65385
  PROVE  /\ IsElement(172, PasswordBody(w)) /\ Len(PasswordBody(w)) = Len(w) + 2
         /\ PasswordFields(w) = Block(138, <<4, 128>>) \o Block(139, <<82, 3, 1>>)
                                  \o Block(172, PasswordBody(w))
<1> DEFINE n == Len(w)
           h == <<128, n % 256>>
           b == PasswordBody(w)
<1>1. n \in Nat /\ n <= 65385
  BY DEF Octets
<1>2. h \in Octets /\ Len(h) = 2
  <2> HIDE DEF n
  <2>1. n % 256 \in Octet /\ 128 \in Octet
    BY <1>1 DEF Octet
  <2> QED
    BY <2>1 DEF Octets
<1>3. b = h \o w
  BY DEF PasswordBody
<1> HIDE DEF h, n
<1>4. b \in Octets /\ Len(b) = n + 2
  <2>1. h \o w \in Octets /\ Len(h \o w) = Len(h) + Len(w)
    <3>1. h \in Octets
      BY <1>2
    <3> QED
      BY <3>1, JoinOctets
  <2>2. Len(b) = Len(h) + n
    BY <1>3, <2>1 DEF n
  <2> HIDE DEF b
  <2>3. Len(b) = n + 2
    BY <1>1, <1>2, <2>2
  <2> QED
    BY <1>3, <2>1, <2>3
<1>5. IsElement(172, b)
  BY <1>1, <1>4 DEF IsElement, Octet
<1>6. Tagged(172, b) = Block(172, b)
  BY <1>5, TaggedIs
<1>7. <<138, 2, 4, 128, 139, 3, 82, 3, 1>> = <<138, 2, 4, 128>> \o <<139, 3, 82, 3, 1>>
  <2> DEFINE x == <<138, 2, 4, 128>>
             y == <<139, 3, 82, 3, 1>>
             z == <<138, 2, 4, 128, 139, 3, 82, 3, 1>>
  <2>1. x \in Octets /\ y \in Octets /\ IsJoin(z, x, y)
    BY SMTT(60) DEF IsJoin, Octets, Octet
  <2> HIDE DEF x, y, z
  <2>2. x \o y = z
    BY <2>1, JoinEquals
  <2> QED
    BY <2>2 DEF x, y, z
<1>8. PasswordFields(w) = <<138, 2, 4, 128, 139, 3, 82, 3, 1>> \o Tagged(172, b)
  BY DEF PasswordFields, PasswordBody
<1>9. PasswordFields(w) = Block(138, <<4, 128>>) \o Block(139, <<82, 3, 1>>) \o Block(172, b)
  <2> DEFINE p == Block(138, <<4, 128>>)
             q == Block(139, <<82, 3, 1>>)
             r == Block(172, b)
             pq == <<138, 2, 4, 128, 139, 3, 82, 3, 1>>
  <2>1. pq = p \o q
    <3> DEFINE x == <<138, 2, 4, 128>>
               y == <<139, 3, 82, 3, 1>>
    <3>1. pq = x \o y
      BY <1>7
    <3>2. x = p /\ y = q
      BY LiteralsOfAARQ
    <3> HIDE DEF pq, x, y, p, q
    <3> QED
      BY <3>1, <3>2
  <2>2. PasswordFields(w) = pq \o r
    BY <1>6, <1>8, SMTT(60)
  <2> HIDE DEF p, q, r, pq
  <2>3. PasswordFields(w) = p \o q \o r
    BY <2>1, <2>2
  <2> QED
    BY <2>3 DEF p, q, r
<1> QED
  BY <1>4, <1>5, <1>9 DEF n

(* The elements of a list with one more in front.                          *)
LEMMA LeadsParts ==
  ASSUME NEW z, NEW v, NEW s, Leads(z, v, s), Len(s) \in Nat
  PROVE  /\ z \in Seq(Tlvs) /\ Len(z) = Len(s) + 1 /\ z[1] = v
         /\ \A j \in 2..(Len(s) + 1) : z[j] = s[j - 1]
<1>1. ASSUME NEW j \in 2..(Len(s) + 1) PROVE z[j] = s[j - 1]
  <2>1. PICK k : k = j - 1
    OBVIOUS
  <2>2. k \in 1..Len(s) /\ k + 1 = j
    BY <2>1
  <2> QED
    BY <2>1, <2>2 DEF Leads
<1> QED
  BY <1>1 DEF Leads

(* What an AARQ with a password carries.                                   *)
LEMMA AarqWith ==
  ASSUME NEW w \in Octets, Len(w) <= 65385, NEW mms, Sized(mms, 40)
  PROVE  /\ BuildAARQ(w, mms) \in Octets
         /\ Len(BuildAARQ(w, mms)) <= Len(w) + 77
         /\ ParseAARQ(BuildAARQ(w, mms)) = Decoded(mms, 1)
<1> DEFINE ui == buildUserInfo(mms)
           pb == PasswordBody(w)
           U == Block(190, ui)
           V == Block(172, pb)
           x == appContextNameMMS
           p == Block(138, <<4, 128>>)
           q == Block(139, <<82, 3, 1>>)
           vu == V \o U
           qvu == q \o vu
           pqvu == p \o qvu
           body == x \o pqvu
           a == Block(96, body)
<1>1. Sized(ui, 47) /\ extractMmsFromUserInfo[ui] = Decoded(mms, 1)
  BY SizedUserInfo
<1>2. /\ IsElement(172, pb) /\ Len(pb) = Len(w) + 2 /\ PasswordFields(w) = p \o q \o V
  BY PasswordShape, SMTT(60)
<1> HIDE DEF ui, pb
<1>3. Sized(U, 49) /\ IsElement(190, ui)
  BY <1>1, OctetTags, SizedBlock
<1>4. Tagged(190, ui) = U
  BY <1>3, TaggedIs
<1>5. Sized(x, 9)
  BY DEF appContextNameMMS, Sized, Octets, Octet
<1>6. x = Block(161, NameBody) /\ IsElement(161, NameBody)
  BY LiteralsOfAARQ
<1>7. IsElement(138, <<4, 128>>) /\ IsElement(139, <<82, 3, 1>>)
  BY LiteralsOfAARQ
<1>8. Sized(p, 4) /\ Sized(q, 5)
  <2>1. Sized(<<4, 128>>, 2) /\ Sized(<<82, 3, 1>>, 3) /\ 138 \in Octet /\ 139 \in Octet
    BY DEF Sized, Octets, Octet
  <2> QED
    BY <2>1, SizedBlock
<1> DEFINE v == Len(V)
<1>9. Sized(V, v) /\ v \in Nat /\ v <= Len(w) + 6
  <2>1. pb \in Octets /\ 172 \in Octet
    BY <1>2 DEF IsElement
  <2>2. V \in Octets /\ Len(V) <= Len(pb) + 4 /\ Len(pb) \in Nat
    BY <2>1, BlockAtMost, SMTT(60)
  <2>3. Len(V) \in Nat /\ Len(w) \in Nat
    BY <2>2 DEF Octets
  <2>4. Len(V) <= Len(w) + 6
    BY <1>2, <2>2, <2>3
  <2> QED
    BY <2>2, <2>3, <2>4 DEF Sized
<1> HIDE DEF x, p, q, U, V, v
<1>10. Sized(vu, v + 49) /\ Sized(qvu, v + 54) /\ Sized(pqvu, v + 58) /\ Sized(body, v + 67)
  <2>1. Sized(vu, v + 49)
    BY <1>3, <1>9, SizedJoin, SMTT(60)
  <2>2. Sized(qvu, v + 54)
    <3>1. v + 54 = 5 + (v + 49)
      BY <1>9
    <3> HIDE DEF vu
    <3> QED
      BY <1>8, <2>1, <3>1, SizedJoin
  <2>3. Sized(pqvu, v + 58)
    <3>1. v + 58 = 4 + (v + 54)
      BY <1>9
    <3> HIDE DEF qvu
    <3> QED
      BY <1>8, <2>2, <3>1, SizedJoin
  <2>4. Sized(body, v + 67)
    <3>1. v + 67 = 9 + (v + 58)
      BY <1>9
    <3> HIDE DEF pqvu
    <3> QED
      BY <1>5, <2>3, <3>1, SizedJoin
  <2> QED
    BY <2>1, <2>2, <2>3, <2>4
<1>11. BuildAARQ(w, mms) = Tagged(96, body)
  <2>1. w # NoPassword
    <3>1. -1 \notin Octet
      BY DEF Octet
    <3>2. w[1] \in Octet \/ Len(w) = 0
      BY DEF Octets
    <3> QED
      BY <3>1, <3>2, SMTT(60) DEF NoPassword
  <2>2. BuildAARQ(w, mms) = Tagged(96, x \o PasswordFields(w) \o U)
    BY <1>4, <2>1 DEF BuildAARQ, ui, x
  <2>3. x \in Octets /\ p \in Octets /\ q \in Octets /\ V \in Octets /\ U \in Octets
    BY <1>3, <1>5, <1>8, <1>9, SizedOctets
  <2> DEFINE pq == p \o q
             pqv == pq \o V
  <2>4. pq \in Octets /\ vu \in Octets
    BY <2>3, JoinOctets
  <2>5. x \o pqv \o U = body
    <3>3. pq \o vu = pqvu
      <4>1. p \in Octets /\ q \in Octets /\ vu \in Octets
        BY <2>3, <2>4
      <4> HIDE DEF vu
      <4>2. (p \o q) \o vu = p \o (q \o vu)
        BY <4>1, JoinAssociative, SMTT(60)
      <4> QED
        BY <4>2
    <3> HIDE DEF pq
    <3>4. pqv \in Octets
      BY <2>3, <2>4, JoinOctets
    <3>2. pqv \o U = pq \o vu
      <4>1. pq \in Octets /\ V \in Octets /\ U \in Octets
        BY <2>3, <2>4
      <4>2. (pq \o V) \o U = pq \o (V \o U)
        BY <4>1, JoinAssociative, SMTT(60)
      <4> QED
        BY <4>2
    <3> HIDE DEF pqv, pqvu, vu
    <3>1. x \o pqv \o U = x \o (pqv \o U)
      <4>1. x \in Octets /\ U \in Octets
        BY <2>3
      <4> HIDE DEF body
      <4> QED
        BY <3>4, <4>1, JoinAssociative, SMTT(60)
    <3> QED
      BY <3>1, <3>2, <3>3
  <2>6. x \o PasswordFields(w) \o U = x \o pqv \o U
    BY <1>2
  <2> HIDE DEF body, pqv
  <2> QED
    BY <2>2, <2>5, <2>6
<1> HIDE DEF body, pqvu, qvu, vu
<1>12. /\ IsElement(96, body) /\ a \in Octets /\ Len(a) <= Len(w) + 77
  <2>1. body \in Octets /\ Len(body) = v + 67
    BY <1>10, SizedOctets
  <2>2. Len(w) \in Nat
    BY DEF Octets
  <2>3. Len(body) < 65536 /\ Len(body) <= Len(w) + 73 /\ Len(body) \in Nat
    BY <1>9, <2>1, <2>2
  <2>4. a \in Octets /\ Len(a) <= Len(body) + 4
    <3>1. body \in Octets /\ 96 \in Octet
      BY <2>1, OctetTags
    <3> QED
      BY <3>1, BlockAtMost, SMTT(60)
  <2>5. Len(a) \in Nat
    BY <2>4 DEF Octets
  <2> HIDE DEF a
  <2>6. Len(a) <= Len(w) + 77
    BY <2>2, <2>3, <2>4, <2>5
  <2>7. IsElement(96, body)
    BY <2>1, <2>3, OctetTags DEF IsElement
  <2> QED
    BY <2>4, <2>6, <2>7
<1>13. BuildAARQ(w, mms) = a
  BY <1>11, <1>12, TaggedIs
<1>14. PICK s : Lists(U, s) /\ s \in Seq(Tlvs) /\ Len(s) = 1 /\ s[1] = Tlv(190, ui)
  BY <1>3, LowTags, ListsAlone DEF U
<1>15. PICK s2 : Lists(vu, s2) /\ Leads(s2, Tlv(172, pb), s)
  BY <1>2, <1>14, LowTags, ListsLeads, SMTT(60) DEF vu, V
<1>16. PICK s3 : Lists(qvu, s3) /\ Leads(s3, Tlv(139, <<82, 3, 1>>), s2)
  <2>1. s2 \in Seq(Tlvs)
    BY <1>15 DEF Leads
  <2> QED
    BY <1>7, <1>15, <2>1, LowTags, ListsLeads, SMTT(60) DEF qvu, q
<1>17. PICK s4 : Lists(pqvu, s4) /\ Leads(s4, Tlv(138, <<4, 128>>), s3)
  <2>1. s3 \in Seq(Tlvs)
    BY <1>16 DEF Leads
  <2> QED
    BY <1>7, <1>16, <2>1, LowTags, ListsLeads, SMTT(60) DEF pqvu, p
<1>18. PICK z : Lists(body, z) /\ Leads(z, Tlv(161, NameBody), s4)
  <2>1. s4 \in Seq(Tlvs)
    BY <1>17 DEF Leads
  <2> QED
    BY <1>6, <1>17, <2>1, LowTags, ListsLeads DEF body
<1>19. /\ z \in Seq(Tlvs) /\ Len(z) = 5 /\ z[5] = Tlv(190, ui) /\ z[1] = Tlv(161, NameBody)
       /\ z[2] = Tlv(138, <<4, 128>>) /\ z[3] = Tlv(139, <<82, 3, 1>>) /\ z[4] = Tlv(172, pb)
  <2>1. Len(s2) = 2 /\ s2[1] = Tlv(172, pb) /\ s2[2] = Tlv(190, ui)
    <3>1. Len(s) \in Nat
      BY <1>14
    <3>2. /\ s2 \in Seq(Tlvs) /\ Len(s2) = Len(s) + 1 /\ s2[1] = Tlv(172, pb)
          /\ \A j \in 2..(Len(s) + 1) : s2[j] = s[j - 1]
      BY <1>15, <3>1, LeadsParts
    <3> QED
      BY <1>14, <3>2
  <2>2. /\ Len(s3) = 3 /\ s3[1] = Tlv(139, <<82, 3, 1>>) /\ s3[2] = Tlv(172, pb)
        /\ s3[3] = Tlv(190, ui)
    <3>1. Len(s2) \in Nat
      BY <2>1
    <3>2. /\ s3 \in Seq(Tlvs) /\ Len(s3) = Len(s2) + 1 /\ s3[1] = Tlv(139, <<82, 3, 1>>)
          /\ \A j \in 2..(Len(s2) + 1) : s3[j] = s2[j - 1]
      BY <1>16, <3>1, LeadsParts
    <3> QED
      BY <2>1, <3>2
  <2>3. /\ Len(s4) = 4 /\ s4[1] = Tlv(138, <<4, 128>>) /\ s4[2] = Tlv(139, <<82, 3, 1>>)
        /\ s4[3] = Tlv(172, pb) /\ s4[4] = Tlv(190, ui)
    <3>1. Len(s3) \in Nat
      BY <2>2
    <3>2. /\ s4 \in Seq(Tlvs) /\ Len(s4) = Len(s3) + 1 /\ s4[1] = Tlv(138, <<4, 128>>)
          /\ \A j \in 2..(Len(s3) + 1) : s4[j] = s3[j - 1]
      BY <1>17, <3>1, LeadsParts
    <3> QED
      BY <2>2, <3>2
  <2>4. Len(s4) \in Nat
    BY <2>3
  <2>5. /\ z \in Seq(Tlvs) /\ Len(z) = Len(s4) + 1 /\ z[1] = Tlv(161, NameBody)
        /\ \A j \in 2..(Len(s4) + 1) : z[j] = s4[j - 1]
    BY <1>18, <2>4, LeadsParts
  <2> QED
    BY <2>3, <2>5
<1>20. ParseAARQ(a) = extractMmsFromUserInfo[ui]
  <2>1. PICK k : k = 5
    OBVIOUS
  <2>2. k \in 1..Len(z) /\ z[k] = Tlv(190, ui)
    BY <1>19, <2>1
  <2>3. z[k].class = Context /\ z[k].tag = 30 /\ z[k].value = ui
    BY <2>2, TagsOfAARQ, TlvFields
  <2>4. \A j \in 1..Len(z) : j # k => z[j].tag # 30
    <3>1. z[1].tag # 30 /\ z[2].tag # 30 /\ z[3].tag # 30 /\ z[4].tag # 30
      BY <1>19, TagsOfAARQ
    <3>2. Len(z) = 5
      BY <1>19
    <3> QED
      BY <2>1, <3>1, <3>2
  <2>5. z \in Seq(Tlvs) /\ Lists(body, z) /\ k \in 1..Len(z)
    BY <1>18, <1>19, <2>2
  <2>6. z[k].class = Context /\ z[k].tag = 30
    BY <2>3
  <2>7. ParseAARQ(a) = extractMmsFromUserInfo[z[k].value]
    BY <1>12, <2>4, <2>5, <2>6, ParseAARQBody
  <2> QED
    BY <2>3, <2>7
<1> QED
  BY <1>1, <1>12, <1>13, <1>20

-----------------------------------------------------------------------------
(* Numbers in Initiate PDUs.                                               *)

(* The recursive function in SignedDigits.                                 *)
SignedTo ==
  LET d[m \in Int] == IF m \in {0, -1} THEN <<>> ELSE Append(d[m \div 256], m % 256)
  IN d

(* The distance from zero.                                                 *)
Magnitude(k) == IF k < 0 THEN -k ELSE k

(* A quotient is nearer to zero.                                           *)
LEMMA QuotientNearer ==
  ASSUME NEW k \in Int, k # 0, k # -1
  PROVE  Quot(k) \in Int /\ Magnitude(Quot(k)) < Magnitude(k) /\ Rem(k) \in Nat
  BY DEF Quot, Rem, Magnitude

(* The recursive function exists: each quotient is nearer to zero.         *)
LEMMA SignedStep ==
  \A k \in Int : SignedTo[k] = IF k \in {0, -1} THEN <<>> ELSE Append(SignedTo[Quot(k)], Rem(k))
<1> DEFINE D == Int
           Z == {0, -1}
           step(f, k) == IF k \in Z THEN <<>> ELSE Append(f[Quot(k)], Rem(k))
           body(f) == [k \in D |-> step(f, k)]
           X == Seq(Nat)
           halt == {k \in D : k \in Z}
           m == [k \in D |-> Magnitude(k)]
           h == [k \in D |-> <<>>]
           g == [k \in D |-> IF k \in halt THEN k ELSE Quot(k)]
           op == [k \in D |-> [r \in X |-> IF k \in Z THEN r ELSE Append(r, Rem(k))]]
           at == CHOOSE f : f = body(f)
<1>1. SignedTo = at
  BY DEF SignedTo, Quot, Rem
<1>2. \A k \in D : k \notin Z => Quot(k) \in D /\ Magnitude(Quot(k)) < Magnitude(k)
                                 /\ Rem(k) \in Nat
  BY QuotientNearer
<1>0. \A k \in D : Magnitude(k) \in Nat
  BY DEF Magnitude
<1> HIDE DEF D, Z
<1>3. Shrinks(D, m, halt, X, h, g, op)
  <2>1. m \in [D -> Nat]
    BY <1>0
  <2>2. halt \in SUBSET D /\ h \in [D -> X]
    OBVIOUS
  <2>3. op \in [D -> [X -> X]]
    BY <1>2
  <2>4. g \in [D -> D]
    BY <1>2
  <2>6. ASSUME NEW b \in D \ halt PROVE m[g[b]] < m[b]
    <3>1. g[b] = Quot(b) /\ Quot(b) \in D /\ Magnitude(Quot(b)) < Magnitude(b)
      BY <1>2
    <3> HIDE DEF g
    <3> QED
      BY <3>1
  <2> HIDE DEF m, halt, X, h, g, op
  <2> QED
    BY <2>1, <2>2, <2>3, <2>4, <2>6 DEF Shrinks
<1>4. PICK f \in [D -> X] : \A b \in D : SolvedAt(f, b, halt, h, g, op)
  <2> HIDE DEF m, halt, X, h, g, op
  <2> QED
    BY <1>3, MeasureRecursion
<1>5. f = body(f)
  <2>1. ASSUME NEW b \in D PROVE f[b] = step(f, b)
    <3>1. f[b] = IF b \in halt THEN h[b] ELSE op[b][f[g[b]]]
      BY <1>4 DEF SolvedAt
    <3>2. CASE b \in Z
      <4>1. b \in halt /\ h[b] = <<>>
        BY <3>2
      <4> HIDE DEF h, halt
      <4> QED
        BY <3>1, <3>2, <4>1
    <3>3. CASE b \notin Z
      <4>1. b \notin halt /\ g[b] = Quot(b) /\ Quot(b) \in D
        BY <1>2, <3>3
      <4>2. f[Quot(b)] \in X
        <5> HIDE DEF X
        <5> QED
          BY <4>1
      <4>3. op[b][f[Quot(b)]] = Append(f[Quot(b)], Rem(b))
        <5> HIDE DEF X
        <5> QED
          BY <3>3, <4>2
      <4>4. f[b] = Append(f[Quot(b)], Rem(b))
        <5> HIDE DEF op, g, h, halt, X
        <5> QED
          BY <3>1, <4>1, <4>3
      <4> QED
        BY <3>3, <4>4
    <3> QED
      BY <3>2, <3>3
  <2> HIDE DEF X, step
  <2>2. \A b \in D : f[b] = step(f, b)
    BY <2>1
  <2> QED
    BY <2>2
<1>6. at = body(at)
  <2> HIDE DEF body
  <2> QED
    BY <1>5
<1>7. ASSUME NEW x \in D PROVE at[x] = step(at, x)
  <2> HIDE DEF at, step
  <2>2. at[x] = body(at)[x]
    BY <1>6
  <2> HIDE DEF body
  <2>3. body(at)[x] = step(at, x)
    BY DEF body
  <2> QED
    BY <2>2, <2>3
<1>8. \A k \in D : at[k] = step(at, k)
  BY <1>7
<1> HIDE DEF at
<1> QED
  BY <1>1, <1>8 DEF D, Z

(* The content octets of the integers of the Initiate PDUs.                *)
LEMMA IntegerBytes ==
  /\ encodeIntegerBytes(1) = <<1>> /\ encodeIntegerBytes(5) = <<5>>
  /\ encodeIntegerBytes(10) = <<10>> /\ encodeIntegerBytes(65000) = <<0, 253, 232>>
<1>1. SignedTo[0] = <<>>
  BY SignedStep
<1>2. ASSUME NEW k \in Nat, k # 0, k < 256 PROVE SignedTo[k] = <<k>>
  <2>1. Quot(k) = 0 /\ Rem(k) = k /\ k \notin {0, -1} /\ k \in Int
    BY <1>2 DEF Quot, Rem
  <2>2. SignedTo[k] = Append(<<>>, k)
    BY <1>1, <2>1, SignedStep
  <2> QED
    BY <2>2
<1>3. SignedTo[65000] = <<253, 232>>
  <2>1. PICK k : k = 65000
    OBVIOUS
  <2>2. PICK q, r : q = 253 /\ r = 232
    OBVIOUS
  <2>3. Quot(k) = q /\ Rem(k) = r /\ k \notin {0, -1} /\ k \in Int
    BY <2>1, <2>2 DEF Quot, Rem
  <2>4. SignedTo[k] = Append(SignedTo[q], r)
    BY <2>3, SignedStep
  <2>5. q \in Nat /\ r \in Nat /\ q # 0 /\ q < 256
    BY <2>2
  <2>6. SignedTo[q] = <<q>>
    BY <1>2, <2>5
  <2>7. Append(<<q>>, r) = <<q, r>>
    BY <2>5, AppendOne
  <2> QED
    BY <2>1, <2>2, <2>4, <2>6, <2>7
<1>4. ASSUME NEW k \in Nat, k # 0, k < 128 PROVE encodeIntegerBytes(k) = <<k>>
  <2>1. SignedDigits(k) = <<k>>
    BY <1>2, <1>4 DEF SignedDigits, SignedTo
  <2>2. <<k>> # <<>> /\ <<k>>[1] = k /\ ~(k < 0) /\ ~(k >= 128)
    BY <1>4
  <2> QED
    BY <2>1, <2>2 DEF encodeIntegerBytes
<1>5. encodeIntegerBytes(65000) = <<0, 253, 232>>
  <2> DEFINE out == SignedDigits(65000)
  <2>1. out = <<253, 232>>
    BY <1>3 DEF SignedDigits, SignedTo
  <2> HIDE DEF out
  <2>2. out # <<>> /\ out[1] = 253 /\ out[1] >= 128 /\ ~(65000 < 0) /\ 65000 >= 0
    BY <2>1
  <2>3. encodeIntegerBytes(65000) = <<0>> \o out
    BY <2>2 DEF encodeIntegerBytes, out
  <2>4. <<0>> \o <<253, 232>> = <<0, 253, 232>>
    <3>1. PICK x, y, z : x = 0 /\ y = 253 /\ z = 232
      OBVIOUS
    <3>2. x \in Octet /\ y \in Octet /\ z \in Octet
      BY <3>1 DEF Octet
    <3>3. <<x>> \o <<y, z>> = <<x, y, z>>
      BY <3>2, BesideTwo
    <3> QED
      BY <3>1, <3>3
  <2> QED
    BY <2>1, <2>3, <2>4
<1> QED
  BY <1>4, <1>5

(* A number of three octets, the first of them the sign.                   *)
LEMMA Number3 ==
  ASSUME NEW a \in Nat, NEW b \in Nat, NEW c \in Nat
  PROVE  Number(256, 0, <<a, b, c>>) = 65536 * a + 256 * b + c
<1> DEFINE s == <<a, b, c>>
<1>1. s \in Seq(Nat) /\ Len(s) = 3 /\ s[1] = a /\ s[2] = b /\ s[3] = c
  OBVIOUS
<1> HIDE DEF s
<1>2. PICK f \in [0..Len(s) -> Nat] :
           /\ \A k \in 0..Len(s) : f[k] = IF k = 0 THEN 0 ELSE f[k - 1] * 256 + s[k]
           /\ Number(256, 0, s) = f[Len(s)]
  BY <1>1, NumberRecursion
<1>3. f[0] = 0 /\ f[1] = f[0] * 256 + a /\ f[2] = f[1] * 256 + b /\ f[3] = f[2] * 256 + c
  BY <1>1, <1>2
<1>4. Number(256, 0, s) = f[3]
  BY <1>1, <1>2
<1>5. f[3] = 65536 * a + 256 * b + c
  BY <1>3
<1> QED
  BY <1>4, <1>5 DEF s

(* What the decoder makes of the two integers.                             *)
LEMMA IntegersRead ==
  /\ DecodeInteger(<<0, 253, 232>>).ok /\ DecodeInteger(<<0, 253, 232>>).val = 65000
  /\ DecodeInteger(<<5>>).ok /\ DecodeInteger(<<5>>).val = 5
<1>1. Number(256, 0, <<5>>) = 5
  BY Number1
<1>2. Number(256, 0, <<0, 253, 232>>) = 65000
  <2>1. PICK a, b, c : a = 0 /\ b = 253 /\ c = 232
    OBVIOUS
  <2>2. a \in Nat /\ b \in Nat /\ c \in Nat
    BY <2>1
  <2>3. Number(256, 0, <<a, b, c>>) = 65536 * a + 256 * b + c
    BY <2>2, Number3
  <2>4. 65536 * a + 256 * b + c = 65000
    BY <2>1
  <2>5. <<a, b, c>> = <<0, 253, 232>>
    BY <2>1
  <2> QED
    BY <2>3, <2>4, <2>5
<1>3. ASSUME NEW s, NEW v, s # <<>>, s[1] < 128, ~(s[1] >= 128), Number(256, 0, s) = v
      PROVE  DecodeInteger(s).ok /\ DecodeInteger(s).val = v
  <2>1. (IF s[1] >= 128 THEN -1 ELSE 0) = 0
    BY <1>3
  <2>2. DecodeInteger(s) = Decoded(Number(256, 0, s), Len(s) + 1)
    BY <1>3, <2>1 DEF DecodeInteger
  <2> QED
    BY <1>3, <2>2, DecodedFields
<1>4. DecodeInteger(<<5>>).ok /\ DecodeInteger(<<5>>).val = 5
  <2> DEFINE s == <<5>>
  <2>1. s # <<>> /\ s[1] < 128 /\ ~(s[1] >= 128)
    OBVIOUS
  <2>2. Number(256, 0, s) = 5
    BY <1>1
  <2> HIDE DEF s
  <2>3. DecodeInteger(s).ok /\ DecodeInteger(s).val = 5
    BY <1>3, <2>1, <2>2
  <2> QED
    BY <2>3 DEF s
<1>5. DecodeInteger(<<0, 253, 232>>).ok /\ DecodeInteger(<<0, 253, 232>>).val = 65000
  <2> DEFINE s == <<0, 253, 232>>
  <2>1. s # <<>> /\ s[1] < 128 /\ ~(s[1] >= 128)
    OBVIOUS
  <2>2. Number(256, 0, s) = 65000
    BY <1>2
  <2> HIDE DEF s
  <2>3. DecodeInteger(s).ok /\ DecodeInteger(s).val = 65000
    BY <1>3, <2>1, <2>2
  <2> QED
    BY <2>3 DEF s
<1> QED
  BY <1>4, <1>5

(* The tag octet of a context-specific element.                            *)
ContextTag(c, n) == 128 + (IF c THEN 32 ELSE 0) + n

(* EncodeTLV is a block for the tags of one octet.                         *)
LEMMA EncodeContext ==
  ASSUME NEW c \in BOOLEAN, NEW n \in 0..30, NEW t, t = ContextTag(c, n),
         NEW b, IsElement(t, b)
  PROVE  EncodeTLV(Context, c, n, b) = Block(t, b)
<1> DEFINE e == EncodeLength(Len(b))
           f == encodeLength(Len(b))
           y == Block(t, b)
           g == EncodeTag(Context, c, n)
<1>1. e = f
  BY SameLength DEF IsElement, Octets
<1>2. g = <<t>>
  BY DEF EncodeTag, ContextTag, Context, Constructed
<1>3. EncodeTLV(Context, c, n, b) = g \o e \o b
  <2> DEFINE F(v) == EncodeTag(Context, c, n) \o EncodeLength(Len(v)) \o v
  <2>1. EncodeTLV(Context, c, n, b) = CHOOSE r \in {F(v) : v \in {b}} : TRUE
    BY Zenon DEF EncodeTLV, With
  <2>2. F(b) = g \o e \o b
    OBVIOUS
  <2> HIDE DEF F
  <2>3. {F(v) : v \in {b}} = {F(b)}
    OBVIOUS
  <2>4. (CHOOSE r \in {F(b)} : TRUE) = F(b)
    OBVIOUS
  <2> HIDE DEF g, e
  <2> QED
    BY <2>1, <2>2, <2>3, <2>4
<1>4. y = <<t>> \o f \o b
  BY BlockOctets, SMTT(60) DEF IsElement
<1> HIDE DEF e, f, g, y
<1>5. EncodeTLV(Context, c, n, b) = y
  BY <1>1, <1>2, <1>3, <1>4
<1> QED
  BY <1>5 DEF y

-----------------------------------------------------------------------------
(* The Initiate PDU as it is written.                                      *)

(* The elements of an Initiate PDU.                                        *)
LocalDetail == Block(128, <<0, 253, 232>>)
MaxCalling == Block(129, <<5>>)
MaxCalled == Block(130, <<5>>)
Nesting == Block(131, <<10>>)
DetailBody == Block(128, <<1>>) \o Block(129, <<5, 241, 0>>)
                \o Block(130, <<3, 238, 28, 0, 0, 4, 8, 0, 0, 121, 239, 24>>)
Detail == Block(164, DetailBody)

(* All of them.                                                            *)
InitiateBody == LocalDetail \o (MaxCalling \o (MaxCalled \o (Nesting \o Detail)))

(* Their sizes.                                                            *)
LEMMA InitiateSizes ==
  /\ IsElement(128, <<0, 253, 232>>) /\ Sized(LocalDetail, 5)
  /\ IsElement(129, <<5>>) /\ Sized(MaxCalling, 3)
  /\ IsElement(130, <<5>>) /\ Sized(MaxCalled, 3)
  /\ IsElement(131, <<10>>) /\ Sized(Nesting, 3)
  /\ IsElement(128, <<1>>) /\ IsElement(129, <<5, 241, 0>>)
  /\ IsElement(130, <<3, 238, 28, 0, 0, 4, 8, 0, 0, 121, 239, 24>>)
  /\ IsElement(164, DetailBody) /\ Sized(Detail, 24)
<1>0. 128 \in Octet /\ 129 \in Octet /\ 130 \in Octet /\ 131 \in Octet /\ 164 \in Octet
  BY DEF Octet
<1>1. IsElement(128, <<0, 253, 232>>) /\ Sized(LocalDetail, 5)
  <2> DEFINE b == <<0, 253, 232>>
  <2>1. Sized(b, 3)
    BY DEF Sized, Octets, Octet
  <2> HIDE DEF b
  <2>2. IsElement(128, b) /\ Sized(Block(128, b), 5)
    BY <1>0, <2>1, SizedBlock
  <2> QED
    BY <2>2 DEF LocalDetail, b
<1>2. Sized(<<5>>, 1) /\ Sized(<<10>>, 1) /\ Sized(<<1>>, 1)
  BY DEF Sized, Octets, Octet
<1>3. IsElement(129, <<5>>) /\ Sized(MaxCalling, 3)
  BY <1>0, <1>2, SizedBlock DEF MaxCalling
<1>4. IsElement(130, <<5>>) /\ Sized(MaxCalled, 3)
  BY <1>0, <1>2, SizedBlock DEF MaxCalled
<1>5. IsElement(131, <<10>>) /\ Sized(Nesting, 3)
  BY <1>0, <1>2, SizedBlock DEF Nesting
<1>6. IsElement(128, <<1>>) /\ Sized(Block(128, <<1>>), 3)
  BY <1>0, <1>2, SizedBlock
<1>7. IsElement(129, <<5, 241, 0>>) /\ Sized(Block(129, <<5, 241, 0>>), 5)
  <2> DEFINE b == <<5, 241, 0>>
  <2>1. Sized(b, 3)
    BY DEF Sized, Octets, Octet
  <2> HIDE DEF b
  <2>2. IsElement(129, b) /\ Sized(Block(129, b), 5)
    BY <1>0, <2>1, SizedBlock
  <2> QED
    BY <2>2 DEF b
<1>8. /\ IsElement(130, <<3, 238, 28, 0, 0, 4, 8, 0, 0, 121, 239, 24>>)
      /\ Sized(Block(130, <<3, 238, 28, 0, 0, 4, 8, 0, 0, 121, 239, 24>>), 14)
  <2> DEFINE b == <<3, 238, 28, 0, 0, 4, 8, 0, 0, 121, 239, 24>>
  <2>1. Sized(b, 12)
    BY DEF Sized, Octets, Octet
  <2> HIDE DEF b
  <2>2. IsElement(130, b) /\ Sized(Block(130, b), 14)
    BY <1>0, <2>1, SizedBlock
  <2> QED
    BY <2>2 DEF b
<1>9. Sized(DetailBody, 22)
  <2> DEFINE x == Block(128, <<1>>)
             y == Block(129, <<5, 241, 0>>)
             z == Block(130, <<3, 238, 28, 0, 0, 4, 8, 0, 0, 121, 239, 24>>)
             xy == x \o y
  <2>1. PICK i, j, k, m, n : i = 3 /\ j = 5 /\ k = 14 /\ m = 8 /\ n = 22
    OBVIOUS
  <2>2. Sized(x, i) /\ Sized(y, j) /\ Sized(z, k) /\ m = i + j /\ n = m + k
    BY <1>6, <1>7, <1>8, <2>1
  <2>3. DetailBody = xy \o z
    BY DEF DetailBody
  <2> HIDE DEF x, y, z
  <2>4. Sized(xy, m)
    BY <2>2, SizedJoin
  <2> HIDE DEF xy
  <2>5. Sized(xy \o z, n)
    BY <2>2, <2>4, SizedJoin
  <2> QED
    BY <2>1, <2>3, <2>5
<1>10. IsElement(164, DetailBody) /\ Sized(Detail, 24)
  BY <1>0, <1>9, SizedBlock DEF Detail
<1> QED
  BY <1>1, <1>3, <1>4, <1>5, <1>6, <1>7, <1>8, <1>10

(* EncodeTLV with the identifier octet given.                              *)
LEMMA EncodeTagged ==
  ASSUME NEW n \in 0..30, NEW t, NEW b, IsElement(t, b)
  PROVE  /\ t = 128 + n => EncodeTLV(Context, FALSE, n, b) = Block(t, b)
         /\ t = 160 + n => EncodeTLV(Context, TRUE, n, b) = Block(t, b)
<1>1. ContextTag(FALSE, n) = 128 + n /\ ContextTag(TRUE, n) = 160 + n
  BY DEF ContextTag
<1>2. TRUE \in BOOLEAN /\ FALSE \in BOOLEAN
  OBVIOUS
<1> QED
  BY <1>1, <1>2, EncodeContext, ZenonT(60)

(* v is the number whose encoding is the first element.                    *)
GivesLocalDetail(v) == EncodeTLV(Context, FALSE, 0, encodeIntegerBytes(v)) = LocalDetail

(* How the code writes the first element.                                  *)
LEMMA FirstElement == \A v : v = 65000 => GivesLocalDetail(v)
<1>1. PICK b : b = <<0, 253, 232>>
  OBVIOUS
<1>2. IsElement(128, b)
  BY <1>1, InitiateSizes
<1>3. PICK n, t : n = 0 /\ t = 128
  OBVIOUS
<1>4. n \in 0..30 /\ t = 128 + n
  BY <1>3
<1>5. IsElement(t, b)
  BY <1>2, <1>3
<1>6. EncodeTLV(Context, FALSE, n, b) = Block(t, b)
  BY <1>4, <1>5, EncodeTagged, ZenonT(60)
<1>7. Block(128, b) = LocalDetail
  BY <1>1, Zenon DEF LocalDetail
<1>8. EncodeTLV(Context, FALSE, 0, b) = LocalDetail
  BY <1>3, <1>6, <1>7, Zenon
<1>9. \A v : v = 65000 => encodeIntegerBytes(v) = b
  BY <1>1, IntegerBytes
<1>10. \A v : encodeIntegerBytes(v) = b => GivesLocalDetail(v)
  BY <1>8, Zenon DEF GivesLocalDetail
<1> QED
  BY <1>9, <1>10

(* How the code writes each element.                                       *)
LEMMA InitiateElements ==
  /\ EncodeTLV(Context, FALSE, 1, encodeIntegerBytes(5)) = MaxCalling
  /\ EncodeTLV(Context, FALSE, 2, encodeIntegerBytes(5)) = MaxCalled
  /\ EncodeTLV(Context, FALSE, 3, encodeIntegerBytes(10)) = Nesting
  /\ EncodeTLV(Context, FALSE, 0, encodeIntegerBytes(1)) = Block(128, <<1>>)
  /\ EncodeTLV(Context, FALSE, 1, <<5, 241, 0>>) = Block(129, <<5, 241, 0>>)
  /\ EncodeTLV(Context, FALSE, 2, <<3, 238, 28, 0, 0, 4, 8, 0, 0, 121, 239, 24>>) =
     Block(130, <<3, 238, 28, 0, 0, 4, 8, 0, 0, 121, 239, 24>>)
  /\ EncodeTLV(Context, TRUE, 4, DetailBody) = Detail
<1>2. EncodeTLV(Context, FALSE, 1, encodeIntegerBytes(5)) = MaxCalling
  <2>0. encodeIntegerBytes(5) = <<5>>
    BY IntegerBytes
  <2>1. PICK b : b = encodeIntegerBytes(5)
    OBVIOUS
  <2>2. IsElement(129, b)
    BY <2>0, <2>1, InitiateSizes
  <2>3. PICK n, t : n = 1 /\ t = 129
    OBVIOUS
  <2>4. n \in 0..30 /\ t = 128 + n
    BY <2>3
  <2>5. IsElement(t, b)
    BY <2>2, <2>3
  <2>6. EncodeTLV(Context, FALSE, n, b) = Block(t, b)
    BY <2>4, <2>5, EncodeTagged
  <2>7. Block(129, b) = MaxCalling
    BY <2>0, <2>1, Zenon DEF MaxCalling
  <2> QED
    BY <2>1, <2>3, <2>6, <2>7, Zenon
<1>3. EncodeTLV(Context, FALSE, 2, encodeIntegerBytes(5)) = MaxCalled
  <2>0. encodeIntegerBytes(5) = <<5>>
    BY IntegerBytes
  <2>1. PICK b : b = encodeIntegerBytes(5)
    OBVIOUS
  <2>2. IsElement(130, b)
    BY <2>0, <2>1, InitiateSizes
  <2>3. PICK n, t : n = 2 /\ t = 130
    OBVIOUS
  <2>4. n \in 0..30 /\ t = 128 + n
    BY <2>3
  <2>5. IsElement(t, b)
    BY <2>2, <2>3
  <2>6. EncodeTLV(Context, FALSE, n, b) = Block(t, b)
    BY <2>4, <2>5, EncodeTagged
  <2>7. Block(130, b) = MaxCalled
    BY <2>0, <2>1, Zenon DEF MaxCalled
  <2> QED
    BY <2>1, <2>3, <2>6, <2>7, Zenon
<1>4. EncodeTLV(Context, FALSE, 3, encodeIntegerBytes(10)) = Nesting
  <2>0. encodeIntegerBytes(10) = <<10>>
    BY IntegerBytes
  <2>1. PICK b : b = encodeIntegerBytes(10)
    OBVIOUS
  <2>2. IsElement(131, b)
    BY <2>0, <2>1, InitiateSizes
  <2>3. PICK n, t : n = 3 /\ t = 131
    OBVIOUS
  <2>4. n \in 0..30 /\ t = 128 + n
    BY <2>3
  <2>5. IsElement(t, b)
    BY <2>2, <2>3
  <2>6. EncodeTLV(Context, FALSE, n, b) = Block(t, b)
    BY <2>4, <2>5, EncodeTagged
  <2>7. Block(131, b) = Nesting
    BY <2>0, <2>1, Zenon DEF Nesting
  <2> QED
    BY <2>1, <2>3, <2>6, <2>7, Zenon
<1>5. EncodeTLV(Context, FALSE, 0, encodeIntegerBytes(1)) = Block(128, <<1>>)
  <2>0. encodeIntegerBytes(1) = <<1>>
    BY IntegerBytes
  <2>1. PICK b : b = encodeIntegerBytes(1)
    OBVIOUS
  <2>2. IsElement(128, b)
    BY <2>0, <2>1, InitiateSizes
  <2>3. PICK n, t : n = 0 /\ t = 128
    OBVIOUS
  <2>4. n \in 0..30 /\ t = 128 + n
    BY <2>3
  <2>5. IsElement(t, b)
    BY <2>2, <2>3
  <2>6. EncodeTLV(Context, FALSE, n, b) = Block(t, b)
    BY <2>4, <2>5, EncodeTagged
  <2>7. Block(128, b) = Block(128, <<1>>)
    BY <2>0, <2>1, Zenon
  <2> QED
    BY <2>1, <2>3, <2>6, <2>7, Zenon
<1>6. EncodeTLV(Context, FALSE, 1, <<5, 241, 0>>) = Block(129, <<5, 241, 0>>)
  <2>1. PICK b : b = <<5, 241, 0>>
    OBVIOUS
  <2>2. IsElement(129, b)
    BY <2>1, InitiateSizes
  <2>3. PICK n, t : n = 1 /\ t = 129
    OBVIOUS
  <2>4. n \in 0..30 /\ t = 128 + n
    BY <2>3
  <2>5. IsElement(t, b)
    BY <2>2, <2>3
  <2>6. EncodeTLV(Context, FALSE, n, b) = Block(t, b)
    BY <2>4, <2>5, EncodeTagged
  <2>7. Block(129, b) = Block(129, <<5, 241, 0>>)
    BY <2>1, Zenon
  <2> QED
    BY <2>1, <2>3, <2>6, <2>7, Zenon
<1>7. EncodeTLV(Context, FALSE, 2, <<3, 238, 28, 0, 0, 4, 8, 0, 0, 121, 239, 24>>) =
     Block(130, <<3, 238, 28, 0, 0, 4, 8, 0, 0, 121, 239, 24>>)
  <2>1. PICK b : b = <<3, 238, 28, 0, 0, 4, 8, 0, 0, 121, 239, 24>>
    OBVIOUS
  <2>2. IsElement(130, b)
    BY <2>1, InitiateSizes
  <2>3. PICK n, t : n = 2 /\ t = 130
    OBVIOUS
  <2>4. n \in 0..30 /\ t = 128 + n
    BY <2>3
  <2>5. IsElement(t, b)
    BY <2>2, <2>3
  <2>6. EncodeTLV(Context, FALSE, n, b) = Block(t, b)
    BY <2>4, <2>5, EncodeTagged
  <2>7. Block(130, b) = Block(130, <<3, 238, 28, 0, 0, 4, 8, 0, 0, 121, 239, 24>>)
    BY <2>1, Zenon
  <2> QED
    BY <2>1, <2>3, <2>6, <2>7, Zenon
<1>8. EncodeTLV(Context, TRUE, 4, DetailBody) = Detail
  <2>1. PICK b : b = DetailBody
    OBVIOUS
  <2>2. IsElement(164, b)
    BY <2>1, InitiateSizes
  <2>3. PICK n, t : n = 4 /\ t = 164
    OBVIOUS
  <2>4. n \in 0..30 /\ t = 160 + n
    BY <2>3
  <2>5. IsElement(t, b)
    BY <2>2, <2>3
  <2>6. EncodeTLV(Context, TRUE, n, b) = Block(t, b)
    BY <2>4, <2>5, EncodeTagged, ZenonT(60)
  <2>7. Block(164, b) = Detail
    BY <2>1, Zenon DEF Detail
  <2> QED
    BY <2>1, <2>3, <2>6, <2>7, Zenon
<1> QED
  BY <1>2, <1>3, <1>4, <1>5, <1>6, <1>7, <1>8, Zenon

(* The code writes these elements, in this order.                          *)
LEMMA InitiateShape ==
  ASSUME NEW t \in Octet
  PROVE  /\ Initiate(t) = Block(t, InitiateBody) /\ Sized(Block(t, InitiateBody), 40)
         /\ IsElement(t, InitiateBody)
<1>0. PICK v : v = 65000
  OBVIOUS
<1> DEFINE a == LocalDetail
           b == MaxCalling
           c == MaxCalled
           d == Nesting
           e == Detail
           de == d \o e
           cde == c \o de
           bcde == b \o cde
           body == a \o bcde
           int(n, x) == EncodeTLV(Context, FALSE, n, encodeIntegerBytes(x))
           written == int(0, v) \o int(1, 5) \o int(2, 5) \o int(3, 10)
                        \o EncodeTLV(Context, TRUE, 4,
                             int(0, 1) \o EncodeTLV(Context, FALSE, 1, <<5, 241, 0>>)
                               \o EncodeTLV(Context, FALSE, 2,
                                    <<3, 238, 28, 0, 0, 4, 8, 0, 0, 121, 239, 24>>))
<1>1. Initiate(t) = Tagged(t, written)
  BY <1>0 DEF Initiate
<1>2. int(0, v) = a
  <2>1. GivesLocalDetail(v)
    BY <1>0, FirstElement
  <2> QED
    BY <2>1, Zenon DEF GivesLocalDetail
<1>3. int(1, 5) = b /\ int(2, 5) = c /\ int(3, 10) = d
  BY InitiateElements, Zenon
<1>4. /\ int(0, 1) = Block(128, <<1>>)
      /\ EncodeTLV(Context, FALSE, 1, <<5, 241, 0>>) = Block(129, <<5, 241, 0>>)
      /\ EncodeTLV(Context, FALSE, 2, <<3, 238, 28, 0, 0, 4, 8, 0, 0, 121, 239, 24>>)
           = Block(130, <<3, 238, 28, 0, 0, 4, 8, 0, 0, 121, 239, 24>>)
      /\ EncodeTLV(Context, TRUE, 4, DetailBody) = e
  BY InitiateElements, Zenon
<1>8. written = a \o b \o c \o d \o e
  BY <1>2, <1>3, <1>4, ZenonT(60) DEF DetailBody
<1> HIDE DEF written, int
<1>9. Sized(a, 5) /\ Sized(b, 3) /\ Sized(c, 3) /\ Sized(d, 3) /\ Sized(e, 24)
  BY InitiateSizes
<1> HIDE DEF a, b, c, d, e
<1>10. a \in Octets /\ b \in Octets /\ c \in Octets /\ d \in Octets /\ e \in Octets
  BY <1>9, SizedOctets
<1>11. Sized(de, 27) /\ Sized(cde, 30) /\ Sized(bcde, 33) /\ Sized(body, 38)
  <2>1. PICK i, j, k : i = 3 /\ j = 5 /\ k = 24
    OBVIOUS
  <2>2. PICK l, m, n, o : l = 27 /\ m = 30 /\ n = 33 /\ o = 38
    OBVIOUS
  <2>3. l = i + k /\ m = i + l /\ n = i + m /\ o = j + n
    BY <2>1, <2>2
  <2>4. Sized(a, j) /\ Sized(b, i) /\ Sized(c, i) /\ Sized(d, i) /\ Sized(e, k)
    BY <1>9, <2>1
  <2>5. Sized(de, l)
    BY <2>3, <2>4, SizedJoin
  <2> HIDE DEF de
  <2>6. Sized(cde, m)
    BY <2>3, <2>4, <2>5, SizedJoin
  <2> HIDE DEF cde
  <2>7. Sized(bcde, n)
    BY <2>3, <2>4, <2>6, SizedJoin
  <2> HIDE DEF bcde
  <2>8. Sized(body, o)
    BY <2>3, <2>4, <2>7, SizedJoin
  <2> HIDE DEF body
  <2> QED
    BY <2>2, <2>5, <2>6, <2>7, <2>8
<1>12. a \o b \o c \o d \o e = body
  <2>1. de \in Octets /\ cde \in Octets
    BY <1>11, SizedOctets
  <2> DEFINE ab == a \o b
             abc == ab \o c
  <2>2. ab \in Octets
    BY <1>10, JoinOctets
  <2>3. abc \in Octets
    <3> HIDE DEF ab
    <3> QED
      BY <1>10, <2>2, JoinOctets
  <2>4. (abc \o d) \o e = abc \o de
    <3> HIDE DEF abc
    <3> QED
      BY <1>10, <2>3, JoinAssociative, ZenonT(60)
  <2>5. abc \o de = ab \o cde
    <3>1. ab \in Octets /\ c \in Octets /\ de \in Octets
      BY <1>10, <2>1, <2>2
    <3> HIDE DEF ab, de
    <3>2. (ab \o c) \o de = ab \o (c \o de)
      BY <3>1, JoinAssociative
    <3> QED
      BY <3>2
  <2>6. ab \o cde = body
    <3>1. a \in Octets /\ b \in Octets /\ cde \in Octets
      BY <1>10, <2>1
    <3> HIDE DEF cde
    <3>2. (a \o b) \o cde = a \o (b \o cde)
      BY <3>1, JoinAssociative
    <3> QED
      BY <3>2
  <2> HIDE DEF de, cde, body
  <2>7. a \o b \o c \o d \o e = (abc \o d) \o e
    OBVIOUS
  <2> HIDE DEF ab, abc
  <2> QED
    BY <2>4, <2>5, <2>6, <2>7
<1>13. InitiateBody = body
  BY DEF InitiateBody, a, b, c, d, e
<1> HIDE DEF body
<1>14. IsElement(t, body) /\ Sized(Block(t, body), 40)
  BY <1>11, SizedBlock
<1>15. Tagged(t, body) = Block(t, body)
  BY <1>14, TaggedIs
<1>16. written = body
  BY <1>8, <1>12
<1> QED
  BY <1>1, <1>13, <1>14, <1>15, <1>16

-----------------------------------------------------------------------------
(* The Initiate PDU as it is read.                                         *)

(* The TLVs of an Initiate PDU.                                            *)
LEMMA InitiateLists ==
  \E z : /\ Lists(InitiateBody, z) /\ z \in Seq(Tlvs) /\ Len(z) = 5
         /\ z[1] = Tlv(128, <<0, 253, 232>>) /\ z[2] = Tlv(129, <<5>>)
         /\ z[3] = Tlv(130, <<5>>) /\ z[4] = Tlv(131, <<10>>) /\ z[5] = Tlv(164, DetailBody)
<1> DEFINE ba == <<0, 253, 232>>
           bb == <<5>>
           bd == <<10>>
           be == DetailBody
           B == Block(129, bb)
           C == Block(130, bb)
           D == Block(131, bd)
           E == Block(164, be)
           de == D \o E
           cde == C \o de
           bcde == B \o cde
           body == Block(128, ba) \o bcde
<1>1. /\ IsElement(128, ba) /\ IsElement(129, bb) /\ IsElement(130, bb) /\ IsElement(131, bd)
      /\ IsElement(164, be)
  BY InitiateSizes
<1>2. InitiateBody = body
  BY DEF InitiateBody, LocalDetail, MaxCalling, MaxCalled, Nesting, Detail
<1> HIDE DEF ba, bb, bd, be
<1>3. PICK s : Lists(E, s) /\ s \in Seq(Tlvs) /\ Len(s) = 1 /\ s[1] = Tlv(164, be)
  BY <1>1, LowTags, ListsAlone
<1> HIDE DEF E
<1>4. PICK s2 : Lists(de, s2) /\ Leads(s2, Tlv(131, bd), s)
  BY <1>1, <1>3, LowTags, ListsLeads
<1> HIDE DEF de
<1>5. PICK s3 : Lists(cde, s3) /\ Leads(s3, Tlv(130, bb), s2)
  <2>1. s2 \in Seq(Tlvs)
    BY <1>4 DEF Leads
  <2> QED
    BY <1>1, <1>4, <2>1, LowTags, ListsLeads
<1> HIDE DEF cde
<1>6. PICK s4 : Lists(bcde, s4) /\ Leads(s4, Tlv(129, bb), s3)
  <2>1. s3 \in Seq(Tlvs)
    BY <1>5 DEF Leads
  <2> QED
    BY <1>1, <1>5, <2>1, LowTags, ListsLeads
<1> HIDE DEF bcde
<1>7. PICK z : Lists(body, z) /\ Leads(z, Tlv(128, ba), s4)
  <2>1. s4 \in Seq(Tlvs)
    BY <1>6 DEF Leads
  <2> QED
    BY <1>1, <1>6, <2>1, LowTags, ListsLeads
<1> HIDE DEF body
<1>8. Len(s2) = 2 /\ s2[1] = Tlv(131, bd) /\ s2[2] = Tlv(164, be)
  <2>1. Len(s) \in Nat
    BY <1>3
  <2>2. /\ Len(s2) = Len(s) + 1 /\ s2[1] = Tlv(131, bd)
        /\ \A j \in 2..(Len(s) + 1) : s2[j] = s[j - 1]
    BY <1>4, <2>1, LeadsParts
  <2> QED
    BY <1>3, <2>2
<1>9. Len(s3) = 3 /\ s3[1] = Tlv(130, bb) /\ s3[2] = Tlv(131, bd) /\ s3[3] = Tlv(164, be)
  <2>1. Len(s2) \in Nat
    BY <1>8
  <2>2. /\ Len(s3) = Len(s2) + 1 /\ s3[1] = Tlv(130, bb)
        /\ \A j \in 2..(Len(s2) + 1) : s3[j] = s2[j - 1]
    BY <1>5, <2>1, LeadsParts
  <2> QED
    BY <1>8, <2>2
<1>10. /\ Len(s4) = 4 /\ s4[1] = Tlv(129, bb) /\ s4[2] = Tlv(130, bb) /\ s4[3] = Tlv(131, bd)
       /\ s4[4] = Tlv(164, be)
  <2>1. Len(s3) \in Nat
    BY <1>9
  <2>2. /\ Len(s4) = Len(s3) + 1 /\ s4[1] = Tlv(129, bb)
        /\ \A j \in 2..(Len(s3) + 1) : s4[j] = s3[j - 1]
    BY <1>6, <2>1, LeadsParts
  <2> QED
    BY <1>9, <2>2
<1>11. /\ z \in Seq(Tlvs) /\ Len(z) = 5 /\ z[1] = Tlv(128, ba) /\ z[2] = Tlv(129, bb)
       /\ z[3] = Tlv(130, bb) /\ z[4] = Tlv(131, bd) /\ z[5] = Tlv(164, be)
  <2>1. Len(s4) \in Nat
    BY <1>10
  <2>2. /\ z \in Seq(Tlvs) /\ Len(z) = Len(s4) + 1 /\ z[1] = Tlv(128, ba)
        /\ \A j \in 2..(Len(s4) + 1) : z[j] = s4[j - 1]
    BY <1>7, <2>1, LeadsParts
  <2> QED
    BY <1>10, <2>2
<1>12. Lists(InitiateBody, z)
  BY <1>2, <1>7
<1> QED
  BY <1>11, <1>12 DEF ba, bb, bd, be

(* What ParseInitiate takes out of the list: the last [n], as a number.    *)
LastNumber(tlvs, n) ==
  LET at == {k \in DOMAIN tlvs : tlvs[k].class = Context /\ tlvs[k].tag = n}
  IN IF at = {} THEN 0
     ELSE LET v == DecodeInteger(tlvs[Max(at)].value) IN IF v.ok THEN v.val ELSE 0

(* The largest of one.                                                     *)
LEMMA MaxOne == ASSUME NEW n \in Nat PROVE Max({n}) = n
  BY DEF Max

(* When only one element has the tag.                                      *)
LEMMA OnlyNumber ==
  ASSUME NEW z \in Seq(Tlvs), NEW n, NEW k \in 1..Len(z), z[k].class = Context, z[k].tag = n,
         \A j \in 1..Len(z) : j # k => z[j].tag # n, DecodeInteger(z[k].value).ok
  PROVE  LastNumber(z, n) = DecodeInteger(z[k].value).val
<1> DEFINE at == {j \in DOMAIN z : z[j].class = Context /\ z[j].tag = n}
           v == DecodeInteger(z[Max(at)].value)
<1>1. at = {k}
  BY SMTT(60)
<1>2. k \in Nat
  OBVIOUS
<1>3. LastNumber(z, n) = IF at = {} THEN 0 ELSE IF v.ok THEN v.val ELSE 0
  BY DEF LastNumber
<1> HIDE DEF at
<1>4. Max(at) = k
  BY <1>1, <1>2, MaxOne
<1> QED
  BY <1>1, <1>3, <1>4

(* What ParseInitiate returns for an element.                              *)
LEMMA ParseInitiateBody ==
  ASSUME NEW t, NEW body, IsElement(t, body), NEW z, Lists(body, z)
  PROVE  ParseInitiate(t, Block(t, body))
           = Decoded([localDetail |-> LastNumber(z, 0), maxOutstanding |-> LastNumber(z, 1)], 1)
<1> DEFINE B == Block(t, body)
           l == DecodeLength(B, 2)
           R(s) == Decoded([localDetail |-> LastNumber(s, 0),
                            maxOutstanding |-> LastNumber(s, 1)], 1)
<1>1. /\ ~(Len(B) < 2) /\ Head(B) = t /\ l.ok /\ ~(l.pos + l.val > Len(B) + 1)
      /\ SubSeq(B, l.pos, l.pos + l.val - 1) = body
  <2> DEFINE pos == 2 + LL(Len(body))
             n == Len(body)
  <2>1. /\ B \in Octets /\ Len(B) >= 2 /\ Head(B) = t
        /\ LengthAmong(1..4, B, 2) = Decoded(n, pos)
        /\ pos + n = Len(B) + 1 /\ pos \in Nat \ {0} /\ n \in Nat
        /\ Slice(B, pos, n) = Decoded(body, Len(B) + 1)
    <3>1. B = Block(t, body)
      OBVIOUS
    <3> HIDE DEF B
    <3> QED
      BY <3>1, CountsOf, ReadOuter
  <2> HIDE DEF B, pos, n
  <2>2. l.ok /\ l.val = n /\ l.pos = pos
    BY <2>1, DecodedFields DEF DecodeLength
  <2> HIDE DEF l
  <2>3. Len(B) \in Nat
    BY <2>1 DEF Octets
  <2>4. ~(pos + n > Len(B) + 1)
    BY <2>1, <2>3
  <2>5. Slice(B, pos, n).val = SubSeq(B, pos, pos + n - 1)
    BY <2>4, DecodedFields DEF Slice
  <2>6. SubSeq(B, pos, pos + n - 1) = body
    BY <2>1, <2>5, DecodedFields
  <2>7. ~(Len(B) < 2)
    BY <2>1, <2>3
  <2> QED
    BY <2>1, <2>2, <2>4, <2>6, <2>7
<1>2. TLVsOf(body) = z
  BY ListsAll
<1>3. ParseInitiate(t, B) = With(TLVsOf(SubSeq(B, l.pos, l.pos + l.val - 1)), R)
  <2> HIDE DEF B
  <2> QED
    BY <1>1, Zenon DEF ParseInitiate, LastNumber
<1> DEFINE s == TLVsOf(SubSeq(B, l.pos, l.pos + l.val - 1))
<1>4. s = z
  <2> HIDE DEF B, l
  <2> QED
    BY <1>1, <1>2
<1>5. With(s, R) = CHOOSE v \in {R(x) : x \in {s}} : TRUE
  BY Zenon DEF With
<1> HIDE DEF R, s
<1>6. {R(x) : x \in {z}} = {R(z)}
  OBVIOUS
<1>7. With(s, R) = R(z)
  BY <1>4, <1>5, <1>6
<1>8. ParseInitiate(t, B) = R(z)
  BY <1>3, <1>7 DEF s
<1> QED
  BY <1>8 DEF R

(* What both sides propose: encodeDefaultParams.                           *)
Proposed == [localDetail |-> 65000, maxOutstanding |-> 5]

(* Each side reads from the Initiate PDU of the other what was proposed.   *)
THEOREM InitiateRoundTrip ==
  ASSUME NEW t \in Octet
  PROVE  ParseInitiate(t, Initiate(t)) = Decoded(Proposed, 1) /\ Sized(Initiate(t), 40)
<1> DEFINE body == InitiateBody
<1>1. Initiate(t) = Block(t, body) /\ Sized(Block(t, body), 40) /\ IsElement(t, body)
  BY InitiateShape
<1>2. PICK z : /\ Lists(body, z) /\ z \in Seq(Tlvs) /\ Len(z) = 5
               /\ z[1] = Tlv(128, <<0, 253, 232>>) /\ z[2] = Tlv(129, <<5>>)
               /\ z[3] = Tlv(130, <<5>>) /\ z[4] = Tlv(131, <<10>>)
               /\ z[5] = Tlv(164, DetailBody)
  BY InitiateLists
<1> HIDE DEF body
<1>3. /\ z[1].class = Context /\ z[1].tag = 0 /\ z[1].value = <<0, 253, 232>>
      /\ z[2].class = Context /\ z[2].tag = 1 /\ z[2].value = <<5>>
      /\ z[3].tag = 2 /\ z[4].tag = 3 /\ z[5].tag = 4
  BY <1>2, TlvFields DEF Context
<1>4. LastNumber(z, 0) = 65000
  <2>1. PICK k, n : k = 1 /\ n = 0
    OBVIOUS
  <2>2. /\ z \in Seq(Tlvs) /\ k \in 1..Len(z) /\ z[k].class = Context /\ z[k].tag = n
        /\ \A j \in 1..Len(z) : j # k => z[j].tag # n
    BY <1>2, <1>3, <2>1
  <2>3. DecodeInteger(z[k].value).ok /\ DecodeInteger(z[k].value).val = 65000
    BY <1>3, <2>1, IntegersRead
  <2>4. LastNumber(z, n) = DecodeInteger(z[k].value).val
    BY <2>2, <2>3, OnlyNumber
  <2> QED
    BY <2>1, <2>3, <2>4
<1>5. LastNumber(z, 1) = 5
  <2>1. PICK k, n : k = 2 /\ n = 1
    OBVIOUS
  <2>2. /\ z \in Seq(Tlvs) /\ k \in 1..Len(z) /\ z[k].class = Context /\ z[k].tag = n
        /\ \A j \in 1..Len(z) : j # k => z[j].tag # n
    BY <1>2, <1>3, <2>1
  <2>3. DecodeInteger(z[k].value).ok /\ DecodeInteger(z[k].value).val = 5
    BY <1>3, <2>1, IntegersRead
  <2>4. LastNumber(z, n) = DecodeInteger(z[k].value).val
    BY <2>2, <2>3, OnlyNumber
  <2> QED
    BY <2>1, <2>3, <2>4
<1>6. Lists(body, z)
  BY <1>2
<1>7. ParseInitiate(t, Block(t, body))
        = Decoded([localDetail |-> LastNumber(z, 0), maxOutstanding |-> LastNumber(z, 1)], 1)
  BY <1>1, <1>6, ParseInitiateBody
<1> QED
  BY <1>1, <1>4, <1>5, <1>7 DEF Proposed

-----------------------------------------------------------------------------
(* The elements of an AARE.                                                *)

(* One element that the client visits, as Elements records it.             *)
Visited(buf, j) ==
  LET l == LengthAmong(0..3, buf, j + 1)
  IN [ok |-> TRUE, tag |-> buf[j], pos |-> l.pos, val |-> l.val]

(* One step of the client's loop over the elements of an AARE.             *)
LEMMA ElementsStep ==
  ASSUME NEW buf \in Octets, NEW end \in Nat, NEW i \in Nat
  PROVE  Elements(buf, i, end) =
           IF i >= end THEN <<>>
           ELSE IF ~LengthAmong(0..3, buf, i + 1).ok THEN <<Fail>>
           ELSE <<Visited(buf, i)>>
                  \o Elements(buf, LengthAmong(0..3, buf, i + 1).pos
                                     + LengthAmong(0..3, buf, i + 1).val, end)
<1> DEFINE L(j) == LengthAmong(0..3, buf, j + 1)
           to(j) == L(j).pos + L(j).val
           W(j) == Visited(buf, j)
           V == {Fail} \union {W(j) : j \in Nat}
           X == Seq(V)
           step(f, j) == IF j >= end THEN <<>>
                         ELSE IF ~L(j).ok THEN <<Fail>> ELSE <<W(j)>> \o f[to(j)]
           body(f) == [j \in Nat |->
                         IF j >= end THEN <<>>
                         ELSE LET l == LengthAmong(0..3, buf, j + 1)
                              IN IF ~l.ok THEN <<Fail>>
                                 ELSE <<[ok |-> TRUE, tag |-> buf[j], pos |-> l.pos,
                                         val |-> l.val]>> \o f[l.pos + l.val]]
           from == CHOOSE f : f = body(f)
           halt == {j \in Nat : j >= end \/ ~L(j).ok}
           m == [j \in Nat |-> IF j >= end THEN 0 ELSE end - j]
           h == [j \in Nat |-> IF j >= end THEN <<>> ELSE <<Fail>>]
           g == [j \in Nat |-> IF j \in halt THEN j ELSE to(j)]
           op == [j \in Nat |-> [r \in X |-> <<W(j)>> \o r]]
<1>1. \A j \in Nat : Elements(buf, j, end) = from[j]
  BY DEF Elements
<1>2. \A j \in Nat : L(j).ok => to(j) \in Nat /\ to(j) > j
  <2> SUFFICES ASSUME NEW j \in Nat, L(j).ok PROVE to(j) \in Nat /\ to(j) > j
    OBVIOUS
  <2>1. j + 1 \in Nat \ {0} /\ 0..3 \in SUBSET Nat /\ buf \in Seq(Octet)
    BY DEF Octets
  <2>2. ~Fail.ok
    BY DEF Fail
  <2>3. L(j).val \in Nat /\ L(j).pos \in Nat /\ L(j).pos > j + 1
    BY <2>1, <2>2, LengthType
  <2> HIDE DEF L
  <2> QED
    BY <2>3
<1>3. ASSUME NEW f, NEW j \in Nat PROVE body(f)[j] = step(f, j)
  BY Zenon DEF Visited
<1> HIDE DEF L, body, W
<1>4. Shrinks(Nat, m, halt, X, h, g, op)
  <2> HIDE DEF to
  <2>1. m \in [Nat -> Nat]
    OBVIOUS
  <2>2. halt \in SUBSET Nat
    OBVIOUS
  <2>3. h \in [Nat -> X]
    <3>1. Fail \in V
      OBVIOUS
    <3> HIDE DEF V
    <3> QED
      BY <3>1
  <2>4. g \in [Nat -> Nat]
    BY <1>2
  <2>5. op \in [Nat -> [X -> X]]
    <3>1. \A j \in Nat : W(j) \in V
      OBVIOUS
    <3> HIDE DEF V
    <3>2. \A j \in Nat : \A r \in X : <<W(j)>> \o r \in X
      BY <3>1
    <3> QED
      BY <3>2
  <2>6. ASSUME NEW j \in Nat \ halt PROVE m[g[j]] < m[j]
    <3>1. L(j).ok /\ g[j] = to(j) /\ ~(j >= end)
      OBVIOUS
    <3>2. g[j] \in Nat /\ g[j] > j
      BY <1>2, <3>1
    <3>3. m[g[j]] = (IF g[j] >= end THEN 0 ELSE end - g[j]) /\ m[j] = end - j
      BY <3>1, <3>2
    <3> HIDE DEF g, m
    <3> QED
      BY <3>1, <3>2, <3>3
  <2> HIDE DEF m, halt, X, h, g, op
  <2> QED
    BY <2>1, <2>2, <2>3, <2>4, <2>5, <2>6 DEF Shrinks
<1>5. PICK f \in [Nat -> X] : \A j \in Nat : SolvedAt(f, j, halt, h, g, op)
  <2> HIDE DEF m, halt, X, h, g, op
  <2> QED
    BY <1>4, MeasureRecursion
<1>6. f = body(f)
  <2>1. ASSUME NEW j \in Nat PROVE f[j] = body(f)[j]
    <3>1. f[j] = IF j \in halt THEN h[j] ELSE op[j][f[g[j]]]
      BY <1>5 DEF SolvedAt
    <3>2. CASE j \in halt
      <4> HIDE DEF to, X
      <4>1. f[j] = step(f, j)
        BY <3>1, <3>2
      <4> QED
        BY <1>3, <4>1
    <3>3. CASE j \notin halt
      <4>1. L(j).ok /\ g[j] = to(j) /\ to(j) \in Nat /\ ~(j >= end)
        BY <1>2, <3>3
      <4> HIDE DEF to
      <4>2. f[to(j)] \in X
        <5> HIDE DEF X
        <5> QED
          BY <4>1
      <4>3. op[j][f[to(j)]] = <<W(j)>> \o f[to(j)]
        <5> HIDE DEF X
        <5> QED
          BY <4>2
      <4>4. f[j] = <<W(j)>> \o f[to(j)]
        <5> HIDE DEF op, g, h, halt, X
        <5> QED
          BY <3>1, <3>3, <4>1, <4>3
      <4>5. body(f)[j] = <<W(j)>> \o f[to(j)]
        <5>1. step(f, j) = <<W(j)>> \o f[to(j)]
          BY <4>1
        <5> HIDE DEF step
        <5> QED
          BY <1>3, <5>1
      <4> QED
        BY <4>4, <4>5
    <3> QED
      BY <3>2, <3>3
  <2>2. \A j \in Nat : f[j] = body(f)[j]
    BY <2>1
  <2>3. body(f) = [j \in Nat |-> body(f)[j]]
    BY DEF body
  <2> HIDE DEF body, X
  <2> QED
    BY <2>2, <2>3
<1>7. from = body(from)
  <2> HIDE DEF body
  <2> QED
    BY <1>6
<1>8. from[i] = step(from, i)
  <2>1. from[i] = body(from)[i]
    <3> HIDE DEF from
    <3> QED
      BY <1>7
  <2> HIDE DEF from, step
  <2> QED
    BY <1>3, <2>1
<1> HIDE DEF from
<1>9. ~(i >= end) /\ L(i).ok => from[to(i)] = Elements(buf, to(i), end)
  <2> HIDE DEF to
  <2> QED
    BY <1>1, <1>2
<1>10. Elements(buf, i, end) = step(from, i)
  BY <1>1, <1>8
<1>11. Elements(buf, i, end) = IF i >= end THEN <<>>
                               ELSE IF ~L(i).ok THEN <<Fail>>
                               ELSE <<W(i)>> \o Elements(buf, to(i), end)
  <2> HIDE DEF to
  <2> QED
    BY <1>9, <1>10
<1> QED
  BY <1>11, Zenon DEF L, W

(* The records of the elements of a buffer.                                *)
VisitsOf(buf) == {Visited(buf, j) : j \in Nat}

(* r records an element of buf with tag t and body b.                      *)
Shows(buf, r, t, b) ==
  /\ r.ok /\ r.tag = t /\ r.val = Len(b) /\ r.pos \in Nat
  /\ Cut(buf, r).ok /\ Cut(buf, r).val = b
  /\ \A k \in 1..Len(b) : buf[r.pos + k - 1] = b[k]

(* A sequence with one more element in front.                              *)
LEMMA PrependAny ==
  ASSUME NEW S, NEW v \in S, NEW s \in Seq(S)
  PROVE  /\ <<v>> \o s \in Seq(S) /\ Len(<<v>> \o s) = Len(s) + 1 /\ (<<v>> \o s)[1] = v
         /\ \A j \in 2..(Len(s) + 1) : (<<v>> \o s)[j] = s[j - 1]
<1> DEFINE a == <<v>>
           z == a \o s
<1>1. a \in Seq(S) /\ Len(a) = 1 /\ a[1] = v
  OBVIOUS
<1> HIDE DEF a
<1>2. /\ z \in Seq(S) /\ Len(z) = Len(a) + Len(s)
      /\ \A k \in 1..Len(a) : z[k] = a[k]
      /\ \A k \in 1..Len(s) : z[Len(a) + k] = s[k]
  <2>1. a \in Seq(S)
    BY <1>1
  <2>2. z \in Seq(S) /\ Len(z) = Len(a) + Len(s)
    BY <2>1
  <2>3. \A k \in 1..Len(a) : z[k] = a[k]
    BY <2>1
  <2>4. \A k \in 1..Len(s) : z[Len(a) + k] = s[k]
    BY <2>1
  <2> QED
    BY <2>2, <2>3, <2>4
<1> HIDE DEF z
<1>3. ASSUME NEW j \in 2..(Len(s) + 1) PROVE z[j] = s[j - 1]
  <2>1. PICK k : k = j - 1
    OBVIOUS
  <2>2. k \in 1..Len(s) /\ 1 + k = j
    BY <2>1
  <2> QED
    BY <1>1, <1>2, <2>1, <2>2
<1>4. z \in Seq(S) /\ Len(z) = Len(s) + 1 /\ z[1] = v
  BY <1>1, <1>2
<1> QED
  BY <1>3, <1>4 DEF z, a

(* The element in front is visited first.                                  *)
LEMMA VisitFirst ==
  ASSUME NEW t, NEW b, IsElement(t, b), NEW y \in Octets,
         NEW buf, NEW i, Ends(buf, i, Block(t, b) \o y),
         NEW s, s = Elements(buf, After(i, b), Len(buf) + 1), s \in Seq(VisitsOf(buf))
  PROVE  LET z == Elements(buf, i, Len(buf) + 1)
         IN /\ z \in Seq(VisitsOf(buf)) /\ Len(z) = Len(s) + 1
            /\ Shows(buf, z[1], t, b)
            /\ \A j \in 2..(Len(s) + 1) : z[j] = s[j - 1]
<1> DEFINE l == LengthAmong(0..3, buf, i + 1)
           pos == i + 1 + LL(Len(b))
           n == Len(b)
           v == Visited(buf, i)
           end == Len(buf) + 1
<1>1. /\ buf[i] = t /\ i + 1 <= Len(buf) /\ l = Decoded(n, pos)
      /\ Slice(buf, pos, n) = Decoded(b, After(i, b)) /\ Holds(buf, pos, b)
  BY CountsOf, ReadElement
<1>2. After(i, b) = pos + n
  BY DEF After
<1>3. buf \in Octets /\ i \in Nat /\ Len(buf) \in Nat
  BY DEF Ends, Octets
<1>11. pos \in Nat
  <2>1. Len(b) \in Nat
    BY DEF IsElement, Octets
  <2>2. LL(Len(b)) \in 1..3
    BY <2>1, LLType DEF IsElement
  <2> QED
    BY <1>3, <2>2
<1> HIDE DEF pos, n
<1>4. l.ok /\ l.pos = pos /\ l.val = n
  BY <1>1, DecodedFields
<1>5. v.ok /\ v.tag = t /\ v.pos = pos /\ v.val = n
  BY <1>1, <1>4 DEF Visited
<1>6. Elements(buf, i, end) = <<v>> \o s
  <2>1. ~(i >= end) /\ end \in Nat
    BY <1>1, <1>3
  <2>2. Elements(buf, i, end) = <<v>> \o Elements(buf, l.pos + l.val, end)
    <3> HIDE DEF end, v
    <3> QED
      BY <1>3, <1>4, <2>1, ElementsStep DEF v
  <2> HIDE DEF l, v
  <2> QED
    BY <1>2, <1>4, <2>2
<1> HIDE DEF l, v
<1>7. Shows(buf, v, t, b)
  <2>1. Cut(buf, v) = Decoded(b, After(i, b))
    BY <1>1, <1>5, CutIs
  <2>2. Cut(buf, v).ok /\ Cut(buf, v).val = b
    BY <2>1, DecodedFields
  <2>3. \A k \in 1..Len(b) : buf[v.pos + k - 1] = b[k]
    BY <1>1, <1>5 DEF Holds
  <2> QED
    BY <1>5, <1>11, <2>2, <2>3 DEF Shows, n
<1>8. v \in VisitsOf(buf)
  BY <1>3 DEF VisitsOf, v
<1> DEFINE z == <<v>> \o s
<1>9. /\ z \in Seq(VisitsOf(buf)) /\ Len(z) = Len(s) + 1 /\ z[1] = v
      /\ \A j \in 2..(Len(s) + 1) : z[j] = s[j - 1]
  BY <1>8, PrependAny
<1> HIDE DEF z
<1>10. Elements(buf, i, end) = z
  BY <1>6 DEF z
<1> QED
  BY <1>7, <1>9, <1>10

(* At the end nothing is visited.                                          *)
LEMMA VisitNone ==
  ASSUME NEW buf, NEW i, Ends(buf, i, <<>>)
  PROVE  Elements(buf, i, Len(buf) + 1) = <<>>
<1>1. buf \in Octets /\ i \in Nat /\ Len(buf) \in Nat /\ i = Len(buf) + 1
  BY DEF Ends, Octets
<1>2. i >= Len(buf) + 1 /\ Len(buf) + 1 \in Nat
  BY <1>1
<1> QED
  BY <1>1, <1>2, ElementsStep

(* What the client finds in the user information of the server.            *)
LEMMA ClientExtracts ==
  ASSUME NEW mms \in Octets, Len(mms) <= 100
  PROVE  parseUserInfo(buildUserInfo(mms)).ok /\ parseUserInfo(buildUserInfo(mms)).val = mms
<1> DEFINE body == UserInfoBody(mms)
           c == <<3>>
           B == Block(40, body)
           l == LengthAmong(0..3, B, 2)
           cut == Cut(B, l)
           found == Cut(body, Find(0..3, body, 1, Len(body) + 1, 160))
<1>1. /\ buildUserInfo(mms) = B /\ IsElement(40, body) /\ IsElement(160, mms) /\ IsElement(2, c)
      /\ body = Block(2, c) \o Block(160, mms)
  BY UserInfoShape
<1>2. /\ B # <<>> /\ Head(B) = 40 /\ cut.ok /\ cut.val = body
  <2> DEFINE pos == 2 + LL(Len(body))
             n == Len(body)
  <2> HIDE DEF body
  <2>1. /\ B # <<>> /\ Head(B) = 40
        /\ l = Decoded(n, pos)
        /\ Slice(B, pos, n) = Decoded(body, Len(B) + 1)
    <3>1. B = Block(40, body)
      OBVIOUS
    <3> HIDE DEF B
    <3>2. IsElement(40, body)
      BY <1>1
    <3> QED
      BY <3>1, <3>2, CountsOf, ReadOuter
  <2> HIDE DEF B, pos, n, l
  <2>2. l.ok /\ l.val = n /\ l.pos = pos
    BY <2>1, DecodedFields
  <2>3. cut = Decoded(body, Len(B) + 1)
    BY <2>1, <2>2, CutIs
  <2> QED
    BY <2>1, <2>3, DecodedFields
<1>3. found.ok /\ found.val = mms
  <2> HIDE DEF c
  <2>1. Finds(0..3, Block(160, mms), 160, mms)
    BY <1>1, CountsOf, FindsLast
  <2>2. Block(160, mms) \in Octets
    BY <1>1, BlockIn DEF IsElement
  <2> DEFINE y == Block(160, mms)
             x == Block(2, c)
             t == 2
             w == 160
  <2>3. Finds(0..3, x \o y, 160, mms)
    <3>1. PICK u, o : u = 2 /\ o = 160
      OBVIOUS
    <3>2. u # o
      BY <3>1
    <3>3. Finds(0..3, y, o, mms) /\ y \in Octets /\ IsElement(u, c)
      BY <1>1, <2>1, <2>2, <3>1
    <3> HIDE DEF y
    <3>4. Finds(0..3, Block(u, c) \o y, o, mms)
      BY <3>2, <3>3, CountsOf, FindsNext
    <3> QED
      BY <3>1, <3>4
  <2>4. Finds(0..3, body, 160, mms)
    <3> HIDE DEF body
    <3> QED
      BY <1>1, <2>3
  <2>5. body \in Octets
    <3> HIDE DEF body
    <3> QED
      BY <1>1 DEF IsElement
  <2>6. Ends(body, 1, body)
    <3> HIDE DEF body
    <3> QED
      BY <2>5, EndsWhole
  <2> HIDE DEF body
  <2> QED
    BY <2>4, <2>6 DEF Finds
<1>4. scanForSingleASN1(body) = found
  BY DEF scanForSingleASN1
<1>5. parseUserInfo(B) = Then(cut, scanForSingleASN1)
  <2> HIDE DEF B
  <2> QED
    BY <1>2, Zenon DEF parseUserInfo
<1>6. Then(cut, scanForSingleASN1) = scanForSingleASN1(body)
  <2> HIDE DEF cut, body
  <2> QED
    BY <1>2 DEF Then, With
<1> HIDE DEF B, cut, body, found
<1> QED
  BY <1>1, <1>3, <1>4, <1>5, <1>6

(* The elements with a tag, when all have been read.                       *)
LEMMA WithTags ==
  ASSUME NEW z, DOMAIN z = 1..4, z[1].ok, z[2].ok, z[3].ok, z[4].ok,
         z[1].tag = 161, z[2].tag = 162, z[3].tag = 163, z[4].tag = 190
  PROVE  /\ {k \in DOMAIN z : z[k].ok /\ z[k].tag = 162} = {2}
         /\ {k \in DOMAIN z : z[k].ok /\ z[k].tag = 190} = {4}
         /\ \A k \in DOMAIN z : z[k].ok
<1>1. \A k \in DOMAIN z : k = 1 \/ k = 2 \/ k = 3 \/ k = 4
  OBVIOUS
<1>2. 2 \in DOMAIN z /\ 4 \in DOMAIN z
  OBVIOUS
<1> QED
  BY <1>1, <1>2

(* What ParseAARE makes of the elements it has visited.                    *)
Associated(buf, els) ==
  LET withTag(tag) == {k \in DOMAIN els : els[k].ok /\ els[k].tag = tag}
      results == {k \in withTag(162) : els[k].val >= 3 /\ buf[els[k].pos] = 2}
      result == IF results = {} THEN 99 ELSE buf[els[Max(results)].pos + 2]
      info(k) == Then(Cut(buf, els[k]), parseUserInfo)
  IN CASE \E k \in DOMAIN els : ~els[k].ok -> Fail
       [] \E k \in withTag(190) : ~info(k).ok -> Fail
       [] result # 0 \/ withTag(190) = {} -> Fail
       [] OTHER -> info(Max(withTag(190)))

(* z records the four elements of an AARE, of which the second has a body  *)
(* that says that the association is accepted.                             *)
AareElements(buf, z, x1, x2, x3, ui) ==
  /\ z \in Seq(VisitsOf(buf)) /\ Len(z) = 4
  /\ Shows(buf, z[1], 161, x1) /\ Shows(buf, z[2], 162, x2)
  /\ Shows(buf, z[3], 163, x3) /\ Shows(buf, z[4], 190, ui)

Accepts(x) == Len(x) = 3 /\ x[1] = 2 /\ x[3] = 0

(* What ParseAARE returns for the four elements the server writes.         *)
LEMMA ParseAAREBody ==
  ASSUME NEW body, IsElement(97, body), NEW buf, buf = Block(97, body),
         NEW pos, pos = 2 + LL(Len(body)),
         NEW x1, NEW x2, NEW x3, NEW ui,
         AareElements(buf, Elements(buf, pos, Len(buf) + 1), x1, x2, x3, ui),
         Accepts(x2), parseUserInfo(ui).ok
  PROVE  ParseAARE(buf) = parseUserInfo(ui)
<1>0. PICK z : z = Elements(buf, pos, Len(buf) + 1)
  OBVIOUS
<1> DEFINE B == buf
           l == LengthAmong(0..3, B, 2)
           withTag(tag) == {k \in DOMAIN z : z[k].ok /\ z[k].tag = tag}
           results == {k \in withTag(162) : z[k].val >= 3 /\ B[z[k].pos] = 2}
           result == IF results = {} THEN 99 ELSE B[z[Max(results)].pos + 2]
           info(k) == Then(Cut(B, z[k]), parseUserInfo)
           els == Elements(B, l.pos, l.pos + l.val)
<1>1. /\ ~(Len(B) < 2) /\ Head(B) = 97 /\ l.ok /\ ~(l.pos + l.val > Len(B) + 1)
      /\ els = z /\ B \in Octets
  <2> DEFINE n == Len(body)
  <2>1. /\ B \in Octets /\ Len(B) >= 2 /\ Head(B) = 97
        /\ l = Decoded(n, pos)
        /\ pos + n = Len(B) + 1
    BY CountsOf, ReadOuter
  <2> HIDE DEF B, n, l
  <2>2. z = Elements(B, pos, Len(B) + 1)
    BY <1>0 DEF B
  <2>3. l.ok /\ l.val = n /\ l.pos = pos
    BY <2>1, DecodedFields
  <2>4. Len(B) \in Nat
    BY <2>1 DEF Octets
  <2> QED
    BY <2>1, <2>2, <2>3, <2>4
<1>2. /\ Shows(B, z[1], 161, x1) /\ Shows(B, z[2], 162, x2) /\ Shows(B, z[3], 163, x3)
      /\ Shows(B, z[4], 190, ui) /\ z \in Seq(VisitsOf(B)) /\ Len(z) = 4
  BY <1>0 DEF AareElements
<1> HIDE DEF B
<1>3. /\ z[1].ok /\ z[1].tag = 161 /\ z[2].ok /\ z[2].tag = 162
      /\ z[3].ok /\ z[3].tag = 163 /\ z[4].ok /\ z[4].tag = 190
  BY <1>2 DEF Shows
<1>4. DOMAIN z = 1..4
  BY <1>2
<1>5. withTag(162) = {2} /\ withTag(190) = {4} /\ \A k \in DOMAIN z : z[k].ok
  BY <1>3, <1>4, WithTags
<1>6. z[2].val = 3 /\ B[z[2].pos] = 2 /\ B[z[2].pos + 2] = 0
  <2>0. Len(x2) = 3
    BY DEF Accepts
  <2>1. z[2].val = Len(x2) /\ \A k \in 1..Len(x2) : B[z[2].pos + k - 1] = x2[k]
    BY <1>2 DEF Shows
  <2>2. 1 \in 1..Len(x2) /\ 3 \in 1..Len(x2) /\ x2[1] = 2 /\ x2[3] = 0
    BY DEF Accepts
  <2>3. z[2].pos \in Nat
    BY <1>2 DEF Shows
  <2> QED
    BY <2>0, <2>1, <2>2, <2>3
<1> HIDE DEF withTag
<1>7. results = {2}
  BY <1>5, <1>6
<1>8. Max(results) = 2 /\ Max(withTag(190)) = 4
  <2> HIDE DEF results
  <2> QED
    BY <1>5, <1>7, MaxOne
<1> HIDE DEF results
<1>9. result = 0
  BY <1>6, <1>7, <1>8
<1> HIDE DEF result
<1>10. Cut(B, z[4]).ok /\ Cut(B, z[4]).val = ui
  BY <1>2 DEF Shows
<1>11. info(4) = parseUserInfo(ui)
  <2> DEFINE c == Cut(B, z[4])
  <2>1. info(4) = Then(c, parseUserInfo)
    OBVIOUS
  <2>2. c.ok /\ c.val = ui
    BY <1>10
  <2> HIDE DEF c
  <2>3. Then(c, parseUserInfo) = parseUserInfo(c.val)
    BY <2>2 DEF Then, With
  <2> QED
    BY <2>1, <2>2, <2>3, Zenon
<1> HIDE DEF info
<1> DEFINE q == withTag(190)
<1>12. ParseAARE(B) = CASE \E k \in DOMAIN z : ~z[k].ok -> Fail
                         [] \E k \in q : ~info(k).ok -> Fail
                         [] result # 0 \/ q = {} -> Fail
                         [] OTHER -> info(Max(q))
  <2>1. ParseAARE(B) = Associated(B, els)
    BY <1>1, Zenon DEF ParseAARE, Associated
  <2>2. Associated(B, els) = Associated(B, z)
    <3> HIDE DEF els
    <3> QED
      BY <1>1
  <2>3. Associated(B, z) = CASE \E k \in DOMAIN z : ~z[k].ok -> Fail
                             [] \E k \in q : ~info(k).ok -> Fail
                             [] result # 0 \/ q = {} -> Fail
                             [] OTHER -> info(Max(q))
    BY Zenon DEF Associated, result, results, withTag, info
  <2> QED
    BY <2>1, <2>2, <2>3, Zenon
<1> HIDE DEF q
<1>13. q = {4}
  BY <1>5 DEF q
<1>14. Max(q) = 4 /\ info(4).ok
  BY <1>8, <1>11 DEF q
<1>15. /\ ~(\E k \in DOMAIN z : ~z[k].ok) /\ ~(\E k \in q : ~info(k).ok)
       /\ ~(result # 0 \/ q = {})
  BY <1>5, <1>9, <1>13, <1>14
<1>16. ParseAARE(B) = info(4)
  BY <1>12, <1>14, <1>15
<1> QED
  BY <1>11, <1>16 DEF B

-----------------------------------------------------------------------------
(* The AARE as it is written and read.                                     *)

(* The result and its source, as the server writes them: accepted.         *)
LEMMA LiteralsOfAARE ==
  /\ <<162, 3, 2, 1, 0>> = Block(162, <<2, 1, 0>>) /\ IsElement(162, <<2, 1, 0>>)
  /\ <<163, 5, 161, 3, 2, 1, 0>> = Block(163, <<161, 3, 2, 1, 0>>)
  /\ IsElement(163, <<161, 3, 2, 1, 0>>)
<1>1. IsLiteral(<<162, 3, 2, 1, 0>>, 162, <<2, 1, 0>>)
  BY DEF IsLiteral, Octets, Octet
<1>2. IsLiteral(<<163, 5, 161, 3, 2, 1, 0>>, 163, <<161, 3, 2, 1, 0>>)
  BY DEF IsLiteral, Octets, Octet
<1>3. <<162, 3, 2, 1, 0>> = Block(162, <<2, 1, 0>>) /\ IsElement(162, <<2, 1, 0>>)
  BY <1>1, LiteralIsBlock
<1>4. /\ <<163, 5, 161, 3, 2, 1, 0>> = Block(163, <<161, 3, 2, 1, 0>>)
      /\ IsElement(163, <<161, 3, 2, 1, 0>>)
  BY <1>2, LiteralIsBlock
<1> QED
  BY <1>3, <1>4

(* The shape of an AARE: four elements.                                    *)
AareBody(mms) ==
  Block(161, NameBody) \o (Block(162, <<2, 1, 0>>)
    \o (Block(163, <<161, 3, 2, 1, 0>>) \o Block(190, buildUserInfo(mms))))

(* The server writes these four, accepting.                                *)
LEMMA AareShape ==
  ASSUME NEW mms, Sized(mms, 40)
  PROVE  /\ BuildAARE(mms) = Block(97, AareBody(mms))
         /\ IsElement(97, AareBody(mms)) /\ Sized(BuildAARE(mms), 72)
         /\ IsElement(161, NameBody) /\ IsElement(162, <<2, 1, 0>>)
         /\ IsElement(163, <<161, 3, 2, 1, 0>>) /\ IsElement(190, buildUserInfo(mms))
<1> DEFINE ui == buildUserInfo(mms)
           a == appContextNameMMS
           b == <<162, 3, 2, 1, 0>>
           c == <<163, 5, 161, 3, 2, 1, 0>>
           d == Block(190, ui)
           cd == c \o d
           bcd == b \o cd
           body == a \o bcd
<1>1. Sized(ui, 47)
  BY SizedUserInfo
<1>2. BuildAARE(mms) = Tagged(97, a \o b \o c \o Tagged(190, ui))
  BY DEF BuildAARE
<1>3. Sized(a, 9) /\ Sized(b, 5) /\ Sized(c, 7)
  BY DEF appContextNameMMS, Sized, Octets, Octet
<1>4. AareBody(mms) = body
  BY LiteralsOfAARQ, LiteralsOfAARE, ZenonT(60) DEF AareBody
<1> HIDE DEF ui, a, b, c
<1>5. Sized(d, 49) /\ IsElement(190, ui)
  BY <1>1, OctetTags, SizedBlock
<1>6. Tagged(190, ui) = d
  BY <1>5, TaggedIs
<1> HIDE DEF d
<1>7. Sized(cd, 56) /\ Sized(bcd, 61) /\ Sized(body, 70)
  <2>1. PICK i, j, k, l : i = 9 /\ j = 5 /\ k = 7 /\ l = 49
    OBVIOUS
  <2>2. PICK m, n, o : m = 56 /\ n = 61 /\ o = 70
    OBVIOUS
  <2>3. m = k + l /\ n = j + m /\ o = i + n
    BY <2>1, <2>2
  <2>4. Sized(a, i) /\ Sized(b, j) /\ Sized(c, k) /\ Sized(d, l)
    BY <1>3, <1>5, <2>1
  <2>5. Sized(cd, m)
    BY <2>3, <2>4, SizedJoin
  <2> HIDE DEF cd
  <2>6. Sized(bcd, n)
    BY <2>3, <2>4, <2>5, SizedJoin
  <2> HIDE DEF bcd
  <2>7. Sized(body, o)
    BY <2>3, <2>4, <2>6, SizedJoin
  <2> HIDE DEF body
  <2> QED
    BY <2>2, <2>5, <2>6, <2>7
<1>8. a \o b \o c \o d = body
  <2>1. a \in Octets /\ b \in Octets /\ c \in Octets /\ d \in Octets /\ cd \in Octets
    BY <1>3, <1>5, <1>7, SizedOctets
  <2> DEFINE ab == a \o b
  <2>2. ab \in Octets
    BY <2>1, JoinOctets
  <2>3. ab \o cd = body
    <3>1. a \in Octets /\ b \in Octets /\ cd \in Octets
      BY <2>1
    <3> HIDE DEF cd
    <3>2. (a \o b) \o cd = a \o (b \o cd)
      BY <3>1, JoinAssociative
    <3> QED
      BY <3>2
  <2>4. ab \o c \o d = ab \o cd
    <3> HIDE DEF ab, body
    <3> QED
      BY <2>1, <2>2, JoinAssociative, ZenonT(60)
  <2> HIDE DEF cd, body
  <2> QED
    BY <2>3, <2>4
<1> HIDE DEF body
<1>9. IsElement(97, body) /\ Sized(Block(97, body), 72)
  BY <1>7, OctetTags, SizedBlock
<1>10. Tagged(97, body) = Block(97, body)
  BY <1>9, TaggedIs
<1>11. BuildAARE(mms) = Block(97, body)
  BY <1>2, <1>6, <1>8, <1>10
<1> QED
  BY <1>4, <1>5, <1>9, <1>11, LiteralsOfAARQ, LiteralsOfAARE DEF ui

(* The client finds the PDU the server put into the AARE.                  *)
LEMMA AareRoundTrip ==
  ASSUME NEW mms, Sized(mms, 40)
  PROVE  /\ Sized(BuildAARE(mms), 72)
         /\ ParseAARE(BuildAARE(mms)).ok /\ ParseAARE(BuildAARE(mms)).val = mms
<1> DEFINE ui == buildUserInfo(mms)
           body == AareBody(mms)
           B == Block(97, body)
           xb == <<2, 1, 0>>
           xc == <<161, 3, 2, 1, 0>>
           d == Block(190, ui)
           c == Block(163, xc)
           b == Block(162, xb)
           cd == c \o d
           bcd == b \o cd
           S == VisitsOf(B)
           E(i) == Elements(B, i, Len(B) + 1)
           p == 2 + LL(Len(body))
           q == After(p, NameBody)
           r == After(q, xb)
           s == After(r, xc)
           e == After(s, ui)
<1>1. /\ BuildAARE(mms) = B /\ IsElement(97, body) /\ Sized(BuildAARE(mms), 72)
      /\ IsElement(161, NameBody) /\ IsElement(162, xb) /\ IsElement(163, xc) /\ IsElement(190, ui)
  BY AareShape
<1>2. body = Block(161, NameBody) \o bcd
  BY DEF AareBody
<1>3. parseUserInfo(ui).ok /\ parseUserInfo(ui).val = mms
  BY ClientExtracts, SizedOctets
<1>4. Len(xb) = 3 /\ xb[1] = 2 /\ xb[3] = 0
  OBVIOUS
<1> HIDE DEF ui, xb, xc, body
<1>5. d \in Octets /\ c \in Octets /\ b \in Octets
  BY <1>1, BlockIn DEF IsElement
<1>6. Ends(B, p, body)
  <2>1. B = Block(97, body)
    OBVIOUS
  <2> HIDE DEF B
  <2>2. IsElement(97, body)
    BY <1>1
  <2> QED
    BY <2>1, <2>2, CountsOf, ReadOuter
<1> HIDE DEF B, p
<1> HIDE DEF d, c, b
<1>7. cd \in Octets
  BY <1>5, JoinOctets
<1> HIDE DEF cd
<1>8. bcd \in Octets
  BY <1>5, <1>7, JoinOctets
<1> HIDE DEF bcd
<1>9. Ends(B, q, bcd)
  <2>1. Ends(B, p, Block(161, NameBody) \o bcd)
    BY <1>2, <1>6
  <2> QED
    BY <1>1, <1>8, <2>1, CountsOf, ReadElement
<1>10. Ends(B, r, cd)
  <2>1. Ends(B, q, Block(162, xb) \o cd)
    BY <1>9 DEF bcd, b
  <2> HIDE DEF q
  <2> QED
    BY <1>1, <1>7, <2>1, CountsOf, ReadElement
<1>11. Ends(B, s, d)
  <2>1. Ends(B, r, Block(163, xc) \o d)
    BY <1>10 DEF cd, c
  <2> HIDE DEF r
  <2> QED
    BY <1>1, <1>5, <2>1, CountsOf, ReadElement
<1>12. PICK y : y = <<>>
  OBVIOUS
<1>13. Ends(B, s, Block(190, ui) \o y) /\ y \in Octets
  <2>1. d \o <<>> = d /\ <<>> \in Octets
    BY <1>5, JoinNothing
  <2>2. Block(190, ui) \o y = d
    BY <1>12, <2>1 DEF d
  <2> HIDE DEF s
  <2> QED
    BY <1>11, <1>12, <2>1, <2>2
<1>14. Ends(B, e, y)
  <2> HIDE DEF s
  <2> QED
    BY <1>1, <1>13, CountsOf, ReadElement
<1>15. E(e) = <<>>
  <2> HIDE DEF e
  <2> QED
    BY <1>12, <1>14, VisitNone
<1> HIDE DEF S
<1>16. E(e) \in Seq(S) /\ Len(E(e)) = 0
  <2> HIDE DEF E
  <2> QED
    BY <1>15
<1>17. E(s) \in Seq(S) /\ Len(E(s)) = 1 /\ Shows(B, E(s)[1], 190, ui)
  <2> DEFINE x == E(e)
             z == Elements(B, s, Len(B) + 1)
  <2>1. x = Elements(B, After(s, ui), Len(B) + 1) /\ x \in Seq(VisitsOf(B)) /\ Len(x) = 0
    BY <1>16 DEF S
  <2> HIDE DEF x, s
  <2>2. z \in Seq(VisitsOf(B)) /\ Len(z) = Len(x) + 1 /\ Shows(B, z[1], 190, ui)
    BY <1>1, <1>13, <2>1, VisitFirst
  <2>3. Len(z) = 1
    <3> HIDE DEF z
    <3> QED
      BY <2>1, <2>2
  <2> QED
    BY <2>2, <2>3 DEF S
<1>18. /\ E(r) \in Seq(S) /\ Len(E(r)) = 2 /\ Shows(B, E(r)[1], 163, xc)
       /\ Shows(B, E(r)[2], 190, ui)
  <2> DEFINE x == E(s)
             z == Elements(B, r, Len(B) + 1)
  <2>0. Ends(B, r, Block(163, xc) \o d)
    BY <1>10 DEF cd, c
  <2>1. x = Elements(B, After(r, xc), Len(B) + 1) /\ x \in Seq(VisitsOf(B)) /\ Len(x) = 1
    BY <1>17 DEF S
  <2>2. Shows(B, x[1], 190, ui)
    BY <1>17
  <2> HIDE DEF x, r
  <2>3. /\ z \in Seq(VisitsOf(B)) /\ Len(z) = Len(x) + 1 /\ Shows(B, z[1], 163, xc)
        /\ \A j \in 2..(Len(x) + 1) : z[j] = x[j - 1]
    BY <1>1, <1>5, <2>0, <2>1, VisitFirst
  <2>4. z[2] = x[1]
    BY <2>1, <2>3
  <2>5. Len(z) = 2
    <3> HIDE DEF z
    <3> QED
      BY <2>1, <2>3
  <2> QED
    BY <2>2, <2>3, <2>4, <2>5 DEF S
<1>19. /\ E(q) \in Seq(S) /\ Len(E(q)) = 3 /\ Shows(B, E(q)[1], 162, xb)
       /\ Shows(B, E(q)[2], 163, xc) /\ Shows(B, E(q)[3], 190, ui)
  <2> DEFINE x == E(r)
             z == Elements(B, q, Len(B) + 1)
  <2>0. Ends(B, q, Block(162, xb) \o cd)
    BY <1>9 DEF bcd, b
  <2>1. x = Elements(B, After(q, xb), Len(B) + 1) /\ x \in Seq(VisitsOf(B)) /\ Len(x) = 2
    BY <1>18 DEF S
  <2>2. Shows(B, x[1], 163, xc) /\ Shows(B, x[2], 190, ui)
    BY <1>18
  <2> HIDE DEF x, q
  <2>3. /\ z \in Seq(VisitsOf(B)) /\ Len(z) = Len(x) + 1 /\ Shows(B, z[1], 162, xb)
        /\ \A j \in 2..(Len(x) + 1) : z[j] = x[j - 1]
    BY <1>1, <1>7, <2>0, <2>1, VisitFirst, SMTT(60)
  <2>4. z[2] = x[1] /\ z[3] = x[2]
    BY <2>1, <2>3
  <2>5. Len(z) = 3
    <3> HIDE DEF z
    <3> QED
      BY <2>1, <2>3
  <2> QED
    BY <2>2, <2>3, <2>4, <2>5 DEF S
<1>20. /\ E(p) \in Seq(S) /\ Len(E(p)) = 4 /\ Shows(B, E(p)[1], 161, NameBody)
       /\ Shows(B, E(p)[2], 162, xb) /\ Shows(B, E(p)[3], 163, xc) /\ Shows(B, E(p)[4], 190, ui)
  <2> DEFINE x == E(q)
             z == Elements(B, p, Len(B) + 1)
  <2>0. Ends(B, p, Block(161, NameBody) \o bcd)
    BY <1>2, <1>6
  <2>1. x = Elements(B, After(p, NameBody), Len(B) + 1) /\ x \in Seq(VisitsOf(B)) /\ Len(x) = 3
    BY <1>19 DEF S
  <2>2. Shows(B, x[1], 162, xb) /\ Shows(B, x[2], 163, xc) /\ Shows(B, x[3], 190, ui)
    BY <1>19
  <2> HIDE DEF x, p
  <2>3. /\ z \in Seq(VisitsOf(B)) /\ Len(z) = Len(x) + 1 /\ Shows(B, z[1], 161, NameBody)
        /\ \A j \in 2..(Len(x) + 1) : z[j] = x[j - 1]
    BY <1>1, <1>8, <2>0, <2>1, VisitFirst, SMTT(60)
  <2>4. z[2] = x[1] /\ z[3] = x[2] /\ z[4] = x[3]
    BY <2>1, <2>3
  <2>5. Len(z) = 4
    <3> HIDE DEF z
    <3> QED
      BY <2>1, <2>3
  <2> QED
    BY <2>2, <2>3, <2>4, <2>5 DEF S
<1>21. ParseAARE(B) = parseUserInfo(ui)
  <2> DEFINE z == E(p)
  <2>1. AareElements(B, z, NameBody, xb, xc, ui)
    <3> HIDE DEF E
    <3> QED
      BY <1>20 DEF AareElements, S
  <2>2. Accepts(xb)
    BY <1>4 DEF Accepts
  <2>3. z = Elements(B, p, Len(B) + 1)
    OBVIOUS
  <2> HIDE DEF z
  <2>4. B = Block(97, body) /\ p = 2 + LL(Len(body))
    BY DEF B, p
  <2>5. AareElements(B, Elements(B, p, Len(B) + 1), NameBody, xb, xc, ui)
    BY <2>1, <2>3
  <2>6. IsElement(97, body) /\ parseUserInfo(ui).ok
    BY <1>1, <1>3
  <2> QED
    BY <2>2, <2>4, <2>5, <2>6, ParseAAREBody
<1> QED
  BY <1>1, <1>3, <1>21

-----------------------------------------------------------------------------
(* The layers together.                                                    *)

(* w is the length octet of an SPDU with parameters h and user data p.     *)
Counted(h, p, H, w) ==
  H \in Nat /\ H = Len(h) + 2 /\ H < 256 /\ w \in Nat /\ w = (H + Len(p)) % 256

(* An SPDU in terms of its length octet.                                   *)
LEMMA SpduCounted ==
  ASSUME NEW type \in Octet, NEW h, Passed(h), NEW p \in Octets, NEW H, NEW w,
         Counted(h, p, H, w)
  PROVE  /\ Spdu(type, h, p) \in Octets /\ Len(Spdu(type, h, p)) = 2 + H + Len(p)
         /\ ParseSPDU(type, Spdu(type, h, p)) =
              IF w < H THEN Fail ELSE Decoded(SubSeq(p, 1, w - H), w + 1)
  BY SpduParsed DEF Counted

(* An SPDU of a type with parameters h around the PPDU c that has pre      *)
(* before its user data a; H counts the octets up to the user data.        *)
Layers(type, h, H, pre, a, c) ==
  /\ type \in Octet /\ Passed(h) /\ H \in Nat /\ H = Len(h) + 2 /\ H < 256
  /\ Skips(1..3, pre, 97) /\ a \in Octets /\ Len(a) + Len(pre) <= 65511
  /\ c = Ppdu(pre, a)

(* A whole session and presentation layer around an ACSE PDU: the parsers  *)
(* give the PDU back when the length octet of the SPDU has not wrapped,    *)
(* and fail when it has.                                                   *)
LEMMA SessionRead ==
  ASSUME NEW type, NEW h, NEW H, NEW pre, NEW a, NEW c, Layers(type, h, H, pre, a, c)
  PROVE  LET s == Spdu(type, h, c)
             r == Then(ParseSPDU(type, s), ParseConnectAcceptPDU)
         IN /\ s \in Octets /\ Len(s) = 2 + H + Len(c) /\ Len(c) \in Nat
            /\ Len(c) <= Len(a) + Len(pre) + 28
            /\ H + Len(c) <= 255 => r.ok /\ r.val = a
            /\ H + Len(c) > 255 => r = Fail
<1> DEFINE s == Spdu(type, h, c)
           p == ParseSPDU(type, s)
           r == Then(p, ParseConnectAcceptPDU)
           w == (H + Len(c)) % 256
<1>0. Len(a) \in Nat /\ Len(pre) \in Nat
  BY DEF Layers, Skips, Octets
<1>1. PICK body :
        /\ c = Block(49, body) /\ body \in Octets /\ Len(body) \in Nat
        /\ Len(body) <= Len(a) + Len(pre) + 24
        /\ Len(body) < 65536 =>
             /\ IsElement(49, body)
             /\ ParseConnectAcceptPDU(Block(49, body)).ok
             /\ ParseConnectAcceptPDU(Block(49, body)).val = a
  <2>1. a \in Octets /\ Skips(1..3, pre, 97) /\ c = Ppdu(pre, a)
    BY DEF Layers
  <2> QED
    BY <2>1, PpduRoundTrip
<1>2. Len(body) < 65536
  BY <1>0, <1>1 DEF Layers
<1>3. /\ IsElement(49, body) /\ ParseConnectAcceptPDU(c).ok /\ ParseConnectAcceptPDU(c).val = a
  BY <1>1, <1>2
<1>4. c \in Octets /\ Len(c) \in Nat /\ Len(c) <= Len(body) + 4
  <2>1. 49 \in Octet
    BY DEF Octet
  <2>2. Block(49, body) \in Octets /\ Len(Block(49, body)) <= Len(body) + 4
    BY <1>1, <2>1, BlockAtMost
  <2> QED
    BY <1>1, <2>2 DEF Octets
<1>5. Len(c) <= Len(a) + Len(pre) + 28
  BY <1>0, <1>1, <1>4
<1>6. PICK n : n = Len(c)
  OBVIOUS
<1>11. H \in Nat /\ H = Len(h) + 2 /\ H < 256 /\ type \in Octet /\ Passed(h)
  BY DEF Layers
<1>7. w \in Nat /\ w <= H + n /\ w < 256 /\ (H + n <= 255 => w = H + n)
      /\ (H + n > 255 => w < H + n)
  BY <1>4, <1>6, <1>11
<1>8. /\ s \in Octets /\ Len(s) = 2 + H + Len(c)
      /\ p = IF w < H THEN Fail ELSE Decoded(SubSeq(c, 1, w - H), w + 1)
  <2>1. Counted(h, c, H, w)
    BY <1>7, <1>11 DEF Counted
  <2>2. type \in Octet /\ Passed(h) /\ c \in Octets
    BY <1>4, <1>11
  <2> HIDE DEF w
  <2> QED
    BY <2>1, <2>2, SpduCounted
<1> HIDE DEF w, p
<1>9. ASSUME H + Len(c) <= 255 PROVE r.ok /\ r.val = a
  <2>1. w - H = n /\ ~(w < H)
    BY <1>4, <1>6, <1>7, <1>9, <1>11
  <2>2. p.ok /\ p.val = SubSeq(c, 1, n)
    BY <1>8, <2>1, DecodedFields
  <2>3. SubSeq(c, 1, n) = c
    BY <1>4, <1>6 DEF Octets
  <2>4. r = ParseConnectAcceptPDU(c)
    BY <2>2, <2>3 DEF Then, With
  <2> QED
    BY <1>3, <2>4
<1>10. ASSUME H + Len(c) > 255 PROVE r = Fail
  <2>1. CASE w < H
    <3>1. p = Fail
      BY <1>8, <2>1
    <3>2. ~p.ok
      BY <3>1 DEF Fail
    <3> QED
      BY <3>1, <3>2 DEF Then, With
  <2>2. CASE ~(w < H)
    <3> DEFINE d == w - H
    <3>1. d \in Nat /\ d < Len(c)
      BY <1>4, <1>6, <1>7, <1>10, <1>11, <2>2
    <3>2. p.ok /\ p.val = SubSeq(c, 1, d)
      BY <1>8, <2>2, DecodedFields
    <3> HIDE DEF d
    <3>3. ParseConnectAcceptPDU(SubSeq(c, 1, d)) = Fail
      BY <1>1, <1>3, <3>1, PpduCut
    <3>4. r = ParseConnectAcceptPDU(p.val)
      BY <3>2 DEF Then, With
    <3> QED
      BY <3>2, <3>3, <3>4
  <2> QED
    BY <2>1, <2>2
<1> HIDE DEF r, s
<1> QED
  BY <1>4, <1>5, <1>8, <1>9, <1>10 DEF r, s, p

(* What the server makes of a Connect, up to the Initiate PDU.             *)
ServerFinds(buf) == Then(Then(ParseConnectSPDU(buf), ParseConnectAcceptPDU), ParseAARQ)

(* What the client makes of the answer to it.                              *)
ClientFinds(buf) ==
  Then(Then(ParseConnectResponseSPDU(buf), ParseConnectAcceptPDU), ParseAARE)

(* The Connect that carries an AARQ, and the answer that carries an AARE.  *)
ConnectOf(a) == BuildConnectSPDU(BuildConnectPDU(a))
AnswerOf(a) == BuildAcceptSPDU(BuildConnectAcceptPDU(a))

(* The server gets to the AARQ when the CP PPDU fits the CN SPDU.          *)
LEMMA ConnectRead ==
  ASSUME NEW a \in Octets, Len(a) <= 65462
  PROVE  /\ Len(ConnectOf(a)) \in Nat
         /\ Len(ConnectOf(a)) <= 257 => ServerFinds(ConnectOf(a)) = ParseAARQ(a)
         /\ Len(ConnectOf(a)) > 257 => ServerFinds(ConnectOf(a)) = Fail
<1> DEFINE h == ConnectParams
           c == Ppdu(CpHead, a)
           s == Spdu(13, h, c)
           p == ParseSPDU(13, s)
           r == Then(p, ParseConnectAcceptPDU)
<1>1. ConnectOf(a) = s
  BY CpIsPpdu DEF ConnectOf, BuildConnectSPDU, ConnectParams, SPDUConnect
<1>2. Layers(13, h, 22, CpHead, a, c)
  <2>1. 13 \in Octet /\ Passed(h) /\ Len(h) = 20
    BY ParamsPassed DEF Octet
  <2>2. Skips(1..3, CpHead, 97) /\ Len(CpHead) = 49
    BY CpIsPpdu
  <2>3. Len(a) \in Nat
    BY DEF Octets
  <2>4. Len(a) + Len(CpHead) <= 65511
    BY <2>2, <2>3
  <2> HIDE DEF h, c
  <2> QED
    BY <2>1, <2>2, <2>4 DEF Layers, c
<1> HIDE DEF h, c
<1>3. /\ Len(s) = 2 + 22 + Len(c) /\ Len(c) \in Nat
      /\ 22 + Len(c) <= 255 => r.ok /\ r.val = a
      /\ 22 + Len(c) > 255 => r = Fail
  BY <1>2, SessionRead
<1>4. ServerFinds(s) = Then(r, ParseAARQ)
  BY DEF ServerFinds, ParseConnectSPDU, SPDUConnect
<1> HIDE DEF s, r
<1>5. ASSUME Len(s) <= 257 PROVE ServerFinds(s) = ParseAARQ(a)
  <2>1. r.ok /\ r.val = a
    BY <1>3, <1>5
  <2>2. Then(r, ParseAARQ) = ParseAARQ(a)
    BY <2>1 DEF Then, With
  <2> QED
    BY <1>4, <2>2
<1>6. ASSUME Len(s) > 257 PROVE ServerFinds(s) = Fail
  <2>1. r = Fail
    BY <1>3, <1>6
  <2>2. Then(r, ParseAARQ) = Fail
    <3>1. ~r.ok
      BY <2>1 DEF Fail
    <3> QED
      BY <2>1, <3>1 DEF Then, With
  <2> QED
    BY <1>4, <2>2
<1>7. Len(s) \in Nat
  BY <1>3
<1> QED
  BY <1>1, <1>5, <1>6, <1>7

(* The client gets to the AARE: the answer is short.                       *)
LEMMA AnswerRead ==
  ASSUME NEW a, Sized(a, 72) PROVE ClientFinds(AnswerOf(a)) = ParseAARE(a)
<1> DEFINE h == AcceptParams
           c == Ppdu(CpaHead, a)
           s == Spdu(14, h, c)
           p == ParseSPDU(14, s)
           r == Then(p, ParseConnectAcceptPDU)
<1>0. a \in Octets /\ Len(a) = 72
  BY SizedOctets
<1>1. AnswerOf(a) = s
  BY <1>0, CpaIsPpdu DEF AnswerOf, BuildAcceptSPDU, AcceptParams, SPDUAccept
<1>2. Layers(14, h, 18, CpaHead, a, c) /\ Len(CpaHead) = 26
  <2>1. 14 \in Octet /\ Passed(h) /\ Len(h) = 16
    BY ParamsPassed DEF Octet
  <2>2. Skips(1..3, CpaHead, 97) /\ Len(CpaHead) = 26
    BY CpaIsPpdu
  <2>4. Len(a) + Len(CpaHead) <= 65511
    BY <1>0, <2>2
  <2> HIDE DEF h, c
  <2> QED
    BY <1>0, <2>1, <2>2, <2>4 DEF Layers, c
<1> HIDE DEF h, c
<1>3. /\ Len(c) \in Nat /\ Len(c) <= Len(a) + Len(CpaHead) + 28
      /\ 18 + Len(c) <= 255 => r.ok /\ r.val = a
  <2>1. Layers(14, h, 18, CpaHead, a, c)
    BY <1>2
  <2> HIDE DEF s, p, r
  <2> QED
    BY <2>1, SessionRead DEF s, p, r
<1>4. r.ok /\ r.val = a
  <2>1. 18 + Len(c) <= 255
    BY <1>0, <1>2, <1>3
  <2> QED
    BY <1>3, <2>1
<1>5. ClientFinds(s) = Then(r, ParseAARE)
  BY DEF ClientFinds, ParseConnectResponseSPDU, SPDUAccept
<1> HIDE DEF s, r
<1>6. Then(r, ParseAARE) = ParseAARE(a)
  BY <1>4 DEF Then, With
<1> QED
  BY <1>1, <1>5, <1>6

(* A password that no length but that of the SPDU wraps for, or none.      *)
Carried(w) == w = NoPassword \/ (w \in Octets /\ Len(w) <= 65385)

(* The Connect of a client.                                                *)
RequestOf(w) == ConnectOf(BuildAARQ(w, EncodeInitiateRequest))

(* What the server finds in it: the Initiate PDU, or nothing.              *)
THEOREM ServerReads ==
  ASSUME NEW w, Carried(w)
  PROVE  /\ Len(RequestOf(w)) <= 257 =>
              ServerFinds(RequestOf(w)) = Decoded(EncodeInitiateRequest, 1)
         /\ ~(Len(RequestOf(w)) <= 257) => ServerFinds(RequestOf(w)) = Fail
<1> DEFINE m == EncodeInitiateRequest
           a == BuildAARQ(w, m)
<1>1. Sized(m, 40)
  <2>1. 168 \in Octet
    BY DEF Octet
  <2> QED
    BY <2>1, InitiateRoundTrip DEF EncodeInitiateRequest, InitiateRequest
<1> HIDE DEF m
<1>2. a \in Octets /\ Len(a) <= 65462 /\ ParseAARQ(a) = Decoded(m, 1)
  <2>1. CASE w = NoPassword
    <3>1. Sized(a, 60) /\ ParseAARQ(a) = Decoded(m, 1)
      BY <1>1, <2>1, AarqWithout
    <3>2. a \in Octets /\ Len(a) = 60
      BY <3>1, SizedOctets
    <3> HIDE DEF a
    <3> QED
      BY <3>1, <3>2
  <2>2. CASE w \in Octets /\ Len(w) <= 65385
    <3>1. a \in Octets /\ Len(a) <= Len(w) + 77 /\ ParseAARQ(a) = Decoded(m, 1)
      BY <1>1, <2>2, AarqWith
    <3>2. Len(w) \in Nat
      BY <2>2 DEF Octets
    <3>3. Len(a) \in Nat
      BY <3>1 DEF Octets
    <3> HIDE DEF a
    <3> QED
      BY <2>2, <3>1, <3>2, <3>3
  <2> QED
    BY <2>1, <2>2 DEF Carried
<1> HIDE DEF a
<1>3. /\ Len(ConnectOf(a)) \in Nat
      /\ Len(ConnectOf(a)) <= 257 => ServerFinds(ConnectOf(a)) = ParseAARQ(a)
      /\ Len(ConnectOf(a)) > 257 => ServerFinds(ConnectOf(a)) = Fail
  BY <1>2, ConnectRead
<1>4. RequestOf(w) = ConnectOf(a)
  BY DEF RequestOf, a, m
<1> QED
  BY <1>2, <1>3, <1>4 DEF m

(* The parameters in it.                                                   *)
LEMMA ServerReadsInitiate ==
  ParseInitiateRequest(EncodeInitiateRequest) = Decoded(Proposed, 1)
<1>1. 168 \in Octet
  BY DEF Octet
<1> QED
  BY <1>1, InitiateRoundTrip DEF ParseInitiateRequest, EncodeInitiateRequest, InitiateRequest

(* What the client finds in the answer.                                    *)
THEOREM ClientReads ==
  Then(ClientFinds(AnswerOf(BuildAARE(EncodeInitiateResponse))), ParseInitiateResponse)
    = Decoded(Proposed, 1)
<1> DEFINE m == EncodeInitiateResponse
           a == BuildAARE(m)
           r == ClientFinds(AnswerOf(a))
<1>1. Sized(m, 40) /\ ParseInitiateResponse(m) = Decoded(Proposed, 1)
  <2>1. 169 \in Octet
    BY DEF Octet
  <2> QED
    BY <2>1, InitiateRoundTrip
       DEF EncodeInitiateResponse, InitiateResponse, ParseInitiateResponse
<1> HIDE DEF m
<1>2. Sized(a, 72) /\ ParseAARE(a).ok /\ ParseAARE(a).val = m
  BY <1>1, AareRoundTrip
<1> HIDE DEF a
<1>3. r = ParseAARE(a)
  BY <1>2, AnswerRead
<1> HIDE DEF r
<1>4. Then(r, ParseInitiateResponse) = ParseInitiateResponse(m)
  BY <1>2, <1>3 DEF Then, With
<1> QED
  BY <1>1, <1>4 DEF r, a, m

-----------------------------------------------------------------------------
(* What asn1ber writes is what it reads: integers, numbers of 32 bits,     *)
(* lengths and elements, for every value.                                  *)

(* The recursive function in Number, to base 256.                          *)
NumberTo(i, s) ==
  LET to[k \in 0..Len(s)] == IF k = 0 THEN i ELSE to[k - 1] * 256 + s[k]
  IN to

(* The recursive function exists.                                          *)
LEMMA NumberStep ==
  ASSUME NEW i \in Int, NEW s \in Seq(Nat)
  PROVE  \A k \in 0..Len(s) :
           /\ NumberTo(i, s)[k] \in Int
           /\ NumberTo(i, s)[k] = IF k = 0 THEN i ELSE NumberTo(i, s)[k - 1] * 256 + s[k]
<1> DEFINE D == 0..Len(s)
           R(k) == s[k]
           P(k) == k - 1
           Up(a, b) == a * 256 + b
           step(f, k) == IF k = 0 THEN i ELSE Up(f[P(k)], R(k))
           body(f) == [k \in D |-> step(f, k)]
           X == Int
           halt == {k \in D : k = 0}
           m == [k \in D |-> k]
           h == [k \in D |-> i]
           g == [k \in D |-> IF k \in halt THEN k ELSE P(k)]
           op == [k \in D |-> [r \in X |-> IF k = 0 THEN r ELSE Up(r, R(k))]]
           at == CHOOSE f : f = body(f)
<1>0. Len(s) \in Nat /\ \A k \in D : k # 0 => s[k] \in Nat
  OBVIOUS
<1>1. NumberTo(i, s) = at
  BY DEF NumberTo
<1>2. \A k \in D : k \in Nat /\ (k # 0 => P(k) \in D /\ P(k) < k /\ R(k) \in X)
  BY <1>0
<1>9. \A a \in X, b \in X : Up(a, b) \in X
  OBVIOUS
<1>10. i \in X
  OBVIOUS
<1> HIDE DEF P, R, Up, D
<1>3. Shrinks(D, m, halt, X, h, g, op)
  <2>1. m \in [D -> Nat]
    BY <1>2
  <2> HIDE DEF X
  <2>2. halt \in SUBSET D /\ h \in [D -> X]
    BY <1>10
  <2>3. op \in [D -> [X -> X]]
    BY <1>2, <1>9
  <2>4. g \in [D -> D]
    BY <1>2
  <2>6. ASSUME NEW b \in D \ halt PROVE m[g[b]] < m[b]
    <3>1. g[b] = P(b) /\ P(b) \in D /\ P(b) < b
      BY <1>2
    <3> HIDE DEF g
    <3> QED
      BY <3>1
  <2> HIDE DEF m, halt, h, g, op
  <2> QED
    BY <2>1, <2>2, <2>3, <2>4, <2>6 DEF Shrinks
<1>4. PICK f \in [D -> X] : \A b \in D : SolvedAt(f, b, halt, h, g, op)
  <2> HIDE DEF m, halt, X, h, g, op
  <2> QED
    BY <1>3, MeasureRecursion
<1> HIDE DEF X
<1>5. f = body(f)
  <2>1. ASSUME NEW b \in D PROVE f[b] = step(f, b)
    <3>1. f[b] = IF b \in halt THEN h[b] ELSE op[b][f[g[b]]]
      BY <1>4 DEF SolvedAt
    <3>2. CASE b = 0
      <4>1. b \in halt /\ h[b] = i
        BY <3>2
      <4> HIDE DEF h, halt
      <4> QED
        BY <3>1, <3>2, <4>1
    <3>3. CASE b # 0
      <4>1. b \notin halt /\ g[b] = P(b) /\ P(b) \in D
        BY <1>2, <3>3
      <4>2. f[P(b)] \in X
        BY <4>1
      <4>3. op[b][f[P(b)]] = Up(f[P(b)], R(b))
        BY <3>3, <4>2
      <4>4. f[b] = Up(f[P(b)], R(b))
        <5> HIDE DEF op, g, h, halt
        <5> QED
          BY <3>1, <4>1, <4>3
      <4> QED
        BY <3>3, <4>4
    <3> QED
      BY <3>2, <3>3
  <2> HIDE DEF step
  <2>2. \A b \in D : f[b] = step(f, b)
    BY <2>1
  <2> QED
    BY <2>2
<1>6. at = body(at)
  <2> HIDE DEF body
  <2> QED
    BY <1>5
<1>7. ASSUME NEW x \in D PROVE at[x] = step(at, x)
  <2> HIDE DEF at, step
  <2>2. at[x] = body(at)[x]
    BY <1>6
  <2> HIDE DEF body
  <2>3. body(at)[x] = step(at, x)
    BY DEF body
  <2> QED
    BY <2>2, <2>3
<1>8. \A k \in D : at[k] = step(at, k)
  BY <1>7
<1> HIDE DEF at
<1>11. \A k \in D : at[k] \in X
  <2> DEFINE S == {n \in Nat : n \in D => at[n] \in X}
  <2>1. 0 \in S
    BY <1>8, <1>10
  <2>2. ASSUME NEW n \in S PROVE n + 1 \in S
    <3> SUFFICES ASSUME n + 1 \in D PROVE at[n + 1] \in X
      OBVIOUS
    <3>1. n \in D /\ P(n + 1) = n /\ n + 1 # 0
      BY <1>0 DEF D, P
    <3>2. at[n + 1] = Up(at[n], R(n + 1)) /\ at[n] \in X /\ R(n + 1) \in X
      BY <1>2, <1>8, <3>1
    <3> QED
      BY <1>9, <3>2
  <2>3. S \in SUBSET Nat
    OBVIOUS
  <2> HIDE DEF S
  <2>4. S = Nat
    BY <2>1, <2>2, <2>3, SetInduction
  <2> QED
    BY <2>4, <1>2 DEF S
<1> QED
  BY <1>1, <1>8, <1>11 DEF R, P, Up, X, D

(* From the digit after the d-th on t has the digits of s, and the ones    *)
(* before make the number i.                                               *)
Continues(i, j, s, t, d) ==
  /\ d + Len(s) <= Len(t) /\ NumberTo(j, t)[d] = i
  /\ \A k \in 1..Len(s) : t[d + k] = s[k]

(* Then the numbers are the same, digit after digit.                       *)
LEMMA NumberSame ==
  ASSUME NEW i \in Int, NEW j \in Int, NEW s \in Seq(Nat), NEW t \in Seq(Nat),
         NEW d \in Nat, Continues(i, j, s, t, d)
  PROVE  NumberTo(j, t)[d + Len(s)] = NumberTo(i, s)[Len(s)]
<1> USE DEF Continues
<1> DEFINE N == Len(s)
           f == NumberTo(j, t)
           g == NumberTo(i, s)
           S == {n \in Nat : n <= N => f[d + n] = g[n]}
<1>0. N \in Nat /\ Len(t) \in Nat
  OBVIOUS
<1>1. \A k \in 0..N : g[k] = IF k = 0 THEN i ELSE g[k - 1] * 256 + s[k]
  BY NumberStep
<1>2. \A k \in 0..Len(t) : f[k] = IF k = 0 THEN j ELSE f[k - 1] * 256 + t[k]
  BY NumberStep
<1> HIDE DEF f, g
<1>3. 0 \in S
  <2>1. d + 0 = d /\ 0 \in 0..N
    BY <1>0
  <2>2. g[0] = i /\ f[d] = i
    BY <1>1, <2>1 DEF f
  <2> QED
    BY <2>1, <2>2
<1>4. ASSUME NEW n \in S PROVE n + 1 \in S
  <2> SUFFICES ASSUME n + 1 <= N PROVE f[d + (n + 1)] = g[n + 1]
    OBVIOUS
  <2>1. /\ f[d + n] = g[n] /\ n + 1 \in 0..N /\ n + 1 # 0 /\ (n + 1) - 1 = n
        /\ d + (n + 1) \in 0..Len(t) /\ d + (n + 1) # 0 /\ (d + (n + 1)) - 1 = d + n
        /\ n + 1 \in 1..Len(s)
    BY <1>0, SMTT(60)
  <2>2. g[n + 1] = g[n] * 256 + s[n + 1]
    BY <1>1, <2>1
  <2>3. f[d + (n + 1)] = f[d + n] * 256 + t[d + (n + 1)]
    BY <1>2, <2>1, SMTT(60)
  <2>4. t[d + (n + 1)] = s[n + 1]
    BY <2>1
  <2> QED
    BY <2>1, <2>2, <2>3, <2>4
<1>5. S \in SUBSET Nat
  OBVIOUS
<1>6. S = Nat
  <2> HIDE DEF S
  <2> QED
    BY <1>3, <1>4, <1>5, SetInduction
<1>7. f[d + N] = g[N]
  <2>1. N \in S /\ N <= N
    BY <1>0, <1>6
  <2> HIDE DEF N
  <2> QED
    BY <2>1
<1> QED
  BY <1>7 DEF f, g

(* Number reads the last of them.                                         *)
LEMMA NumberIs ==
  ASSUME NEW i, NEW s PROVE Number(256, i, s) = NumberTo(i, s)[Len(s)]
  BY DEF Number, NumberTo

(* No digits.                                                              *)
LEMMA NumberNone == ASSUME NEW i \in Int PROVE Number(256, i, <<>>) = i
<1> DEFINE s == <<>>
<1>1. s \in Seq(Nat) /\ Len(s) = 0 /\ 0 \in 0..Len(s)
  OBVIOUS
<1> HIDE DEF s
<1>2. NumberTo(i, s)[0] = i
  <2>1. /\ NumberTo(i, s)[0] \in Int
        /\ NumberTo(i, s)[0] = IF 0 = 0 THEN i ELSE NumberTo(i, s)[0 - 1] * 256 + s[0]
    BY <1>1, NumberStep, ZenonT(60)
  <2> QED
    BY <2>1
<1>3. Number(256, i, s) = i
  BY <1>1, <1>2, NumberIs
<1> QED
  BY <1>3 DEF s

(* A last digit.                                                           *)
LEMMA NumberMore ==
  ASSUME NEW i \in Int, NEW s \in Seq(Nat), NEW r \in Nat
  PROVE  Number(256, i, Append(s, r)) = Number(256, i, s) * 256 + r
<1> DEFINE t == Append(s, r)
           N == Len(s)
<1>1. t \in Seq(Nat) /\ Len(t) = N + 1 /\ t[N + 1] = r /\ \A k \in 1..N : t[k] = s[k]
  BY AppendParts
<1>0. N \in Nat
  OBVIOUS
<1> HIDE DEF t
<1>2. NumberTo(i, t)[0] = i
  <2>1. 0 \in 0..Len(t)
    BY <1>0, <1>1
  <2> QED
    BY <1>1, <2>1, NumberStep
<1>3. NumberTo(i, t)[N] = NumberTo(i, s)[N]
  <2>1. Continues(i, i, s, t, 0)
    <3>1. \A k \in 1..N : t[0 + k] = s[k]
      BY <1>0, <1>1
    <3>2. 0 + N <= Len(t)
      BY <1>0, <1>1
    <3> QED
      BY <1>2, <3>1, <3>2 DEF Continues
  <2>2. NumberTo(i, t)[0 + N] = NumberTo(i, s)[N]
    BY <1>1, <2>1, NumberSame
  <2> QED
    BY <1>0, <2>2
<1>4. NumberTo(i, t)[N + 1] = NumberTo(i, t)[N] * 256 + r
  <2>1. N + 1 \in 0..Len(t) /\ N + 1 # 0 /\ (N + 1) - 1 = N
    BY <1>0, <1>1
  <2> DEFINE f == NumberTo(i, t)
  <2>2. \A k \in 0..Len(t) : f[k] = IF k = 0 THEN i ELSE f[k - 1] * 256 + t[k]
    BY <1>1, NumberStep, SMTT(60)
  <2> HIDE DEF f, N
  <2>3. f[N + 1] = f[N] * 256 + r
    BY <1>1, <2>1, <2>2
  <2> QED
    BY <2>3 DEF f
<1>5. Number(256, i, t) = NumberTo(i, t)[N + 1] /\ Number(256, i, s) = NumberTo(i, s)[N]
  BY <1>1, NumberIs
<1> QED
  BY <1>3, <1>4, <1>5 DEF t

(* A first digit.                                                          *)
LEMMA NumberAfter ==
  ASSUME NEW i \in Int, NEW j \in Int, NEW a \in Nat, NEW s \in Seq(Nat), i = j * 256 + a
  PROVE  Number(256, j, <<a>> \o s) = Number(256, i, s)
<1> DEFINE t == <<a>> \o s
           N == Len(s)
<1>1. t \in Seq(Nat) /\ Len(t) = 1 + N /\ t[1] = a /\ \A k \in 1..N : t[1 + k] = s[k]
  OBVIOUS
<1>0. N \in Nat
  OBVIOUS
<1> HIDE DEF t
<1>2. NumberTo(j, t)[1] = i
  <2>1. 0 \in 0..Len(t) /\ 1 \in 0..Len(t) /\ 1 # 0 /\ 1 - 1 = 0
    BY <1>0, <1>1
  <2>2. NumberTo(j, t)[0] = j
    BY <1>1, <2>1, NumberStep
  <2>3. NumberTo(j, t)[1] = NumberTo(j, t)[1 - 1] * 256 + t[1]
    BY <1>1, <2>1, NumberStep, SMTT(60)
  <2> QED
    BY <1>1, <2>1, <2>2, <2>3
<1>4. NumberTo(j, t)[1 + N] = NumberTo(i, s)[N]
  <2>1. 1 + N <= Len(t)
    BY <1>0, <1>1
  <2>2. Continues(i, j, s, t, 1)
    BY <1>1, <1>2, <2>1 DEF Continues
  <2> QED
    BY <1>1, <2>2, NumberSame
<1>5. Number(256, j, t) = NumberTo(j, t)[1 + N] /\ Number(256, i, s) = NumberTo(i, s)[N]
  BY <1>1, NumberIs
<1> QED
  BY <1>4, <1>5 DEF t

(* Where decoding starts: the sign.                                        *)
Sign(v) == IF v < 0 THEN -1 ELSE 0

(* What SignedDigits has to be: octets, none for 0 and -1 only, that make  *)
(* the number.                                                             *)
Signed(v) ==
  /\ SignedTo[v] \in Octets /\ (SignedTo[v] = <<>> <=> v \in {0, -1})
  /\ Number(256, Sign(v), SignedTo[v]) = v

(* Octets are numbers.                                                     *)
LEMMA OctetsAreNats == ASSUME NEW s \in Seq(Octet) PROVE s \in Seq(Nat)
<1>1. Octet \subseteq Nat
  BY DEF Octet
<1>2. Len(s) \in Nat /\ s = [k \in 1..Len(s) |-> s[k]] /\ \A k \in 1..Len(s) : s[k] \in Octet
  OBVIOUS
<1>3. s \in [1..Len(s) -> Nat]
  BY <1>1, <1>2
<1> QED
  BY <1>2, <1>3

(* Octets with one more.                                                   *)
LEMMA AppendOctet ==
  ASSUME NEW s \in Octets, NEW r \in Octet
  PROVE  Append(s, r) \in Octets /\ Append(s, r) # <<>> /\ s \in Seq(Nat) /\ r \in Nat
<1>1. s \in Seq(Octet) /\ r \in Nat
  BY DEF Octets, Octet
<1>2. s \in Seq(Nat)
  BY <1>1, OctetsAreNats
<1>3. Append(s, r) \in Seq(Octet) /\ Append(s, r) # <<>>
  BY <1>1
<1> QED
  BY <1>1, <1>2, <1>3 DEF Octets

(* A number is its quotient and its remainder.                             *)
LEMMA Divided ==
  ASSUME NEW v \in Int
  PROVE  Rem(v) \in Octet /\ Quot(v) \in Int /\ Quot(v) * 256 + Rem(v) = v
         /\ Sign(Quot(v)) = Sign(v)
  BY DEF Rem, Quot, Sign, Octet

(* One more digit.                                                         *)
LEMMA SignedOnce ==
  ASSUME NEW v \in Int, v \notin {0, -1}, Signed(Quot(v))
  PROVE  Signed(v)
<1> DEFINE q == Quot(v)
           r == Rem(v)
           s == SignedTo[q]
           i == Sign(q)
<1>1. r \in Octet /\ q \in Int /\ q * 256 + r = v /\ Sign(v) = i
  BY Divided
<1>2. i \in Int
  BY DEF Sign
<1>3. SignedTo[v] = Append(s, r)
  BY SignedStep
<1>4. s \in Octets /\ Number(256, i, s) = q
  BY DEF Signed
<1> HIDE DEF q, r, s, i
<1>5. Append(s, r) \in Octets /\ Append(s, r) # <<>> /\ s \in Seq(Nat) /\ r \in Nat
  BY <1>1, <1>4, AppendOctet, ZenonT(60)
<1>6. Number(256, i, Append(s, r)) = Number(256, i, s) * 256 + r
  BY <1>2, <1>5, NumberMore
<1>7. Number(256, Sign(v), SignedTo[v]) = v
  BY <1>1, <1>3, <1>4, <1>6
<1> QED
  BY <1>3, <1>5, <1>7 DEF Signed

(* SignedDigits of every integer.                                          *)
LEMMA SignedAll == \A v \in Int : Signed(v)
<1> DEFINE S == {n \in Nat : \A v \in Int : Magnitude(v) < n => Signed(v)}
<1>1. 0 \in S
  BY DEF Magnitude
<1>2. ASSUME NEW n \in S PROVE n + 1 \in S
  <2> SUFFICES ASSUME NEW v \in Int, Magnitude(v) < n + 1 PROVE Signed(v)
    OBVIOUS
  <2>1. CASE v \in {0, -1}
    <3>1. SignedTo[v] = <<>> /\ Sign(v) = v /\ v \in Int
      BY <2>1, SignedStep DEF Sign
    <3>2. <<>> \in Octets
      BY DEF Octets
    <3> QED
      BY <2>1, <3>1, <3>2, NumberNone DEF Signed
  <2>2. CASE v \notin {0, -1}
    <3>1. Quot(v) \in Int /\ Magnitude(Quot(v)) < Magnitude(v)
      BY <2>2, QuotientNearer
    <3>2. Magnitude(Quot(v)) \in Nat /\ Magnitude(v) \in Nat
      BY <3>1 DEF Magnitude
    <3>3. Magnitude(Quot(v)) < n
      BY <3>1, <3>2
    <3>4. Signed(Quot(v))
      BY <3>1, <3>3
    <3> QED
      BY <2>2, <3>4, SignedOnce
  <2> QED
    BY <2>1, <2>2
<1>3. S \in SUBSET Nat
  OBVIOUS
<1>4. S = Nat
  <2> HIDE DEF S
  <2> QED
    BY <1>1, <1>2, <1>3, SetInduction
<1>5. ASSUME NEW v \in Int PROVE Signed(v)
  <2>1. Magnitude(v) + 1 \in Nat /\ Magnitude(v) < Magnitude(v) + 1
    BY DEF Magnitude
  <2>2. Magnitude(v) + 1 \in S
    BY <1>4, <2>1
  <2> QED
    BY <2>1, <2>2
<1> QED
  BY <1>5

(* A first octet before others.                                            *)
LEMMA OctetBefore ==
  ASSUME NEW a \in Octet, NEW s \in Octets
  PROVE  /\ <<a>> \o s \in Octets /\ <<a>> \o s # <<>> /\ (<<a>> \o s)[1] = a
         /\ s \in Seq(Nat) /\ a \in Nat
<1>1. s \in Seq(Octet) /\ a \in Nat
  BY DEF Octets, Octet
<1>2. s \in Seq(Nat)
  BY <1>1, OctetsAreNats
<1>3. <<a>> \o s \in Seq(Octet) /\ <<a>> \o s # <<>> /\ (<<a>> \o s)[1] = a
  BY <1>1
<1> QED
  BY <1>1, <1>2, <1>3 DEF Octets

(* EncodeInteger and DecodeInteger, for every integer: the octets are at   *)
(* least one, the first shows the sign, and the number is read from them.  *)
THEOREM IntegerRoundTrip ==
  \A v \in Int :
    LET c == encodeIntegerBytes(v)
    IN /\ c \in Octets /\ c # <<>> /\ (c[1] >= 128 <=> v < 0)
       /\ DecodeInteger(c) = Decoded(v, Len(c) + 1)
<1> SUFFICES ASSUME NEW v \in Int
             PROVE  /\ encodeIntegerBytes(v) \in Octets /\ encodeIntegerBytes(v) # <<>>
                    /\ encodeIntegerBytes(v)[1] >= 128 <=> v < 0
                    /\ DecodeInteger(encodeIntegerBytes(v))
                         = Decoded(v, Len(encodeIntegerBytes(v)) + 1)
  OBVIOUS
<1> DEFINE c == encodeIntegerBytes(v)
           s == SignedDigits(v)
           i == Sign(v)
<1>1. s \in Octets /\ (s = <<>> <=> v \in {0, -1}) /\ Number(256, i, s) = v
  BY SignedAll DEF Signed, SignedDigits, SignedTo
<1>2. c = CASE s = <<>> -> <<v % 256>>
            [] v < 0 /\ s # <<>> /\ s[1] < 128 -> <<255>> \o s
            [] v >= 0 /\ s # <<>> /\ s[1] >= 128 -> <<0>> \o s
            [] OTHER -> s
  BY DEF encodeIntegerBytes
<1>3. s # <<>> => s[1] \in Nat
  <2> HAVE s # <<>>
  <2> HIDE DEF s
  <2>1. s \in Seq(Octet) /\ 1 <= Len(s)
    BY <1>1 DEF Octets
  <2> QED
    BY <2>1, OctetAt
<1>4. i \in Int /\ 255 \in Octet /\ 0 \in Octet
  BY DEF Sign, Octet
<1> HIDE DEF s, c
<1>5. /\ c \in Octets /\ c # <<>> /\ (c[1] >= 128 <=> v < 0)
      /\ Number(256, i, c) = v
  <2>1. CASE s = <<>>
    <3> DEFINE a == v % 256
    <3>1. a \in Octet /\ (a >= 128 <=> v < 0) /\ v = i * 256 + a
      <4>1. v = 0 \/ v = -1
        BY <1>1, <2>1
      <4> QED
        BY <4>1 DEF Octet, Sign
    <3>2. c = <<a>>
      BY <1>2, <2>1
    <3> HIDE DEF a, i
    <3>3. <<a>> \o <<>> = <<a>> /\ <<>> \in Octets
      BY DEF Octets
    <3>4. v = i * 256 + a
      BY <3>1
    <3>5. <<a>> \in Octets /\ <<a>> # <<>> /\ <<a>>[1] = a /\ <<>> \in Seq(Nat) /\ a \in Nat
      BY <3>1, <3>3, OctetBefore
    <3>6. Number(256, i, <<a>> \o <<>>) = Number(256, v, <<>>)
      <4>1. PICK e : e = <<>>
        OBVIOUS
      <4>2. e \in Seq(Nat)
        BY <3>5, <4>1
      <4>3. Number(256, i, <<a>> \o e) = Number(256, v, e)
        BY <1>4, <3>4, <3>5, <4>2, NumberAfter
      <4> QED
        BY <4>1, <4>3
    <3>7. Number(256, i, <<a>>) = v
      BY <3>3, <3>6, NumberNone
    <3> QED
      BY <3>1, <3>2, <3>5, <3>7
  <2>2. CASE v < 0 /\ s # <<>> /\ s[1] < 128
    <3>1. c = <<255>> \o s
      BY <1>2, <2>2
    <3>2. c \in Octets /\ c # <<>> /\ c[1] = 255 /\ s \in Seq(Nat)
      BY <1>1, <1>4, <3>1, OctetBefore
    <3>3. i = i * 256 + 255 /\ 255 \in Nat
      BY <2>2 DEF Sign
    <3>4. Number(256, i, c) = v
      BY <1>1, <1>4, <3>1, <3>2, <3>3, NumberAfter
    <3> QED
      BY <2>2, <3>2, <3>4
  <2>3. CASE v >= 0 /\ s # <<>> /\ s[1] >= 128
    <3>1. c = <<0>> \o s
      <4>1. s # <<>> /\ ~(v < 0) /\ v >= 0 /\ s[1] >= 128
        BY <2>3
      <4> QED
        BY <1>2, <4>1
    <3>2. c \in Octets /\ c # <<>> /\ c[1] = 0 /\ s \in Seq(Nat)
      BY <1>1, <1>4, <3>1, OctetBefore
    <3>3. i = i * 256 + 0 /\ 0 \in Nat
      BY <2>3 DEF Sign
    <3>4. Number(256, i, c) = v
      BY <1>1, <1>4, <3>1, <3>2, <3>3, NumberAfter
    <3> QED
      BY <2>3, <3>2, <3>4
  <2>4. CASE s # <<>> /\ (v < 0 <=> s[1] >= 128)
    <3>1. s[1] \in Nat
      BY <1>3, <2>4
    <3>2. c = s
      BY <1>2, <2>4, <3>1
    <3> QED
      BY <1>1, <2>4, <3>2
  <2> QED
    BY <1>3, <2>1, <2>2, <2>3, <2>4
<1>6. DecodeInteger(c) = Decoded(v, Len(c) + 1)
  <2>1. (IF c[1] >= 128 THEN -1 ELSE 0) = i
    BY <1>5 DEF Sign
  <2>2. DecodeInteger(c)
          = Decoded(Number(256, IF c[1] >= 128 THEN -1 ELSE 0, c), Len(c) + 1)
    BY <1>5 DEF DecodeInteger
  <2> QED
    BY <1>5, <2>1, <2>2
<1> QED
  BY <1>5, <1>6 DEF c

(* What the digits of k have to be: octets that make the number, none for  *)
(* zero, the first one not zero.                                           *)
Digital(n, k) ==
  LET s == DigitsTo(n)[k]
  IN /\ s \in Octets /\ (s = <<>> <=> k = 0) /\ (k # 0 => s[1] # 0)
     /\ Number(256, 0, s) = k

(* The first of the octets stays the first.                                *)
LEMMA AppendFirst ==
  ASSUME NEW s \in Seq(Nat), NEW r \in Nat
  PROVE  Append(s, r)[1] = IF s = <<>> THEN r ELSE s[1]
  OBVIOUS

(* One more digit.                                                         *)
LEMMA DigitalOnce ==
  ASSUME NEW n \in Nat, NEW k \in Nat, k # 0, k <= n, Digital(n, Quot(k))
  PROVE  Digital(n, k)
<1> DEFINE q == Quot(k)
           r == Rem(k)
           s == DigitsTo(n)[q]
           i == 0
<1>1. r \in Octet /\ q \in Int /\ q * 256 + r = k
  BY Divided
<1>2. q = 0 => r # 0
  BY <1>1
<1>3. DigitsTo(n)[k] = Append(s, r)
  BY DigitsNext
<1>4. s \in Octets /\ (s = <<>> <=> q = 0) /\ (q # 0 => s[1] # 0) /\ Number(256, i, s) = q
  BY DEF Digital
<1>5. i \in Int
  OBVIOUS
<1> HIDE DEF q, r, s, i
<1>6. Append(s, r) \in Octets /\ Append(s, r) # <<>> /\ s \in Seq(Nat) /\ r \in Nat
  BY <1>1, <1>4, AppendOctet, ZenonT(60)
<1>7. Number(256, i, Append(s, r)) = Number(256, i, s) * 256 + r
  BY <1>5, <1>6, NumberMore
<1>8. Number(256, i, DigitsTo(n)[k]) = k
  BY <1>1, <1>3, <1>4, <1>7
<1>9. DigitsTo(n)[k][1] # 0
  BY <1>2, <1>3, <1>4, <1>6, AppendFirst
<1> QED
  BY <1>3, <1>6, <1>8, <1>9 DEF Digital, i

(* The digits of every number.                                             *)
LEMMA DigitalAll == \A n \in Nat : \A k \in 0..n : Digital(n, k)
<1> SUFFICES ASSUME NEW n \in Nat PROVE \A k \in 0..n : Digital(n, k)
  OBVIOUS
<1> DEFINE S == {m \in Nat : \A k \in 0..n : k < m => Digital(n, k)}
<1>1. 0 \in S
  OBVIOUS
<1>2. ASSUME NEW m \in S PROVE m + 1 \in S
  <2> SUFFICES ASSUME NEW k \in 0..n, k < m + 1 PROVE Digital(n, k)
    OBVIOUS
  <2>1. CASE k = 0
    <3>1. DigitsTo(n)[0] = <<>>
      BY <2>1, DigitsStep
    <3>2. <<>> \in Octets
      BY DEF Octets
    <3> QED
      BY <2>1, <3>1, <3>2, NumberNone DEF Digital
  <2>2. CASE k # 0
    <3>1. Quot(k) \in 0..n /\ Quot(k) < m /\ k \in Nat /\ k <= n
      BY <2>2 DEF Quot
    <3>2. Digital(n, Quot(k))
      BY <3>1
    <3> QED
      BY <2>2, <3>1, <3>2, DigitalOnce
  <2> QED
    BY <2>1, <2>2
<1>3. S \in SUBSET Nat
  OBVIOUS
<1>4. n + 1 \in S
  <2> HIDE DEF S
  <2>1. S = Nat
    BY <1>1, <1>2, <1>3, SetInduction
  <2> QED
    BY <2>1
<1> QED
  BY <1>4

(* The numbers of 32 bits.                                                 *)
Word32 == {n \in Nat : n < 4294967296}

(* How many octets they take.                                              *)
OctetsOf(k) ==
  CASE k = 0 -> 0 [] 1 <= k /\ k <= 255 -> 1 [] 256 <= k /\ k <= 65535 -> 2
    [] 65536 <= k /\ k <= 16777215 -> 3 [] OTHER -> 4

(* As many digits as that.                                                 *)
LEMMA DigitsCount ==
  ASSUME NEW n \in Nat, NEW k \in 0..n, k \in Word32
  PROVE  Len(DigitsTo(n)[k]) = OctetsOf(k)
<1> DEFINE L(j) == Len(DigitsTo(n)[j])
<1>1. L(0) = 0
  <2>1. DigitsTo(n)[0] = <<>>
    BY DigitsStep
  <2> QED
    BY <2>1
<1>2. ASSUME NEW j \in Nat, j # 0, j <= n
      PROVE  L(j) = L(Quot(j)) + 1 /\ Quot(j) \in Nat /\ Quot(j) <= n
  <2>1. Quot(j) \in 0..n /\ Rem(j) \in Nat
    BY <1>2 DEF Quot, Rem
  <2>2. Digital(n, Quot(j))
    BY <2>1, DigitalAll
  <2> DEFINE s == DigitsTo(n)[Quot(j)]
  <2>3. s \in Seq(Octet)
    BY <2>2 DEF Digital, Octets
  <2>4. DigitsTo(n)[j] = Append(s, Rem(j))
    BY <1>2, DigitsNext
  <2> HIDE DEF s
  <2>5. s \in Seq(Nat)
    BY <2>3, OctetsAreNats
  <2>6. Len(Append(s, Rem(j))) = Len(s) + 1
    BY <2>1, <2>5, AppendParts
  <2> QED
    BY <2>1, <2>4, <2>6 DEF s
<1> HIDE DEF L
<1>3. ASSUME NEW j \in Nat, j # 0, j <= n, j < 256 PROVE L(j) = 1
  <2>1. Quot(j) = 0
    BY <1>3, SMT DEF Quot
  <2> QED
    BY <1>1, <1>2, <1>3, <2>1, SMT
<1>4. ASSUME NEW j \in Nat, j <= n, 256 <= j, j < 65536 PROVE L(j) = 2
  <2>1. Quot(j) # 0 /\ Quot(j) < 256 /\ j # 0
    BY <1>4, SMT DEF Quot
  <2> QED
    BY <1>2, <1>3, <1>4, <2>1, SMT
<1>5. ASSUME NEW j \in Nat, j <= n, 65536 <= j, j < 16777216 PROVE L(j) = 3
  <2>1. 256 <= Quot(j) /\ Quot(j) < 65536 /\ j # 0
    BY <1>5, SMT DEF Quot
  <2> QED
    BY <1>2, <1>4, <1>5, <2>1, SMT
<1>6. ASSUME NEW j \in Nat, j <= n, 16777216 <= j, j < 4294967296 PROVE L(j) = 4
  <2>1. 65536 <= Quot(j) /\ Quot(j) < 16777216 /\ j # 0
    BY <1>6, SMT DEF Quot
  <2> QED
    BY <1>2, <1>5, <1>6, <2>1, SMT
<1>7. L(k) = OctetsOf(k)
  <2>1. k \in Nat /\ k <= n /\ k < 4294967296
    BY SMT DEF Word32
  <2>2. CASE k < 65536
    BY <1>1, <1>3, <1>4, <2>1, <2>2, SMT DEF OctetsOf
  <2>3. CASE 65536 <= k /\ k < 16777216
    BY <1>5, <2>1, <2>3, SMT DEF OctetsOf
  <2>4. CASE 16777216 <= k
    BY <1>6, <2>1, <2>4, SMT DEF OctetsOf
  <2> QED
    BY <2>1, <2>2, <2>3, <2>4, SMT
<1> QED
  BY <1>7 DEF L

(* Digits of a number.                                                     *)
LEMMA DigitsAll ==
  ASSUME NEW n \in Nat, n # 0, n \in Word32
  PROVE  /\ Digits(256, n) \in Octets /\ Len(Digits(256, n)) = OctetsOf(n)
         /\ OctetsOf(n) \in 1..4
         /\ Digits(256, n)[1] # 0 /\ Number(256, 0, Digits(256, n)) = n
<1>1. Digits(256, n) = DigitsTo(n)[n]
  BY DEF Digits, DigitsTo
<1>2. n \in 0..n
  OBVIOUS
<1>3. Digital(n, n)
  BY <1>2, DigitalAll
<1>4. Len(DigitsTo(n)[n]) = OctetsOf(n)
  BY <1>2, DigitsCount
<1>5. OctetsOf(n) \in 1..4
  BY SMT DEF OctetsOf
<1> QED
  BY <1>1, <1>3, <1>4, <1>5 DEF Digital

(* They are numbers.                                                       *)
LEMMA WordsAreNats == \A v \in Word32 : v \in Nat
  BY SMT DEF Word32

(* EncodeUnsigned and DecodeUint32, for every number of 32 bits: read back *)
(* as it was, and never negative to a reader of signed integers.           *)
THEOREM UnsignedRoundTrip ==
  \A v \in Word32 :
    LET c == UnsignedBytes(v)
    IN /\ c \in Octets /\ c # <<>> /\ c[1] < 128
       /\ DecodeUint32(c) = Decoded(v, Len(c) + 1)
<1> SUFFICES ASSUME NEW v \in Nat, v \in Word32
             PROVE  /\ UnsignedBytes(v) \in Octets /\ UnsignedBytes(v) # <<>>
                    /\ UnsignedBytes(v)[1] < 128
                    /\ DecodeUint32(UnsignedBytes(v)) = Decoded(v, Len(UnsignedBytes(v)) + 1)
  BY WordsAreNats
<1> DEFINE s == IF v = 0 THEN <<0>> ELSE Digits(256, v)
           c == UnsignedBytes(v)
           i == 0
<1>1. s \in Octets /\ Len(s) \in 1..4 /\ Number(256, i, s) = v
  <2>1. CASE v = 0
    <3>1. s = <<0>> /\ <<0>> \in Seq(Octet) /\ Len(<<0>>) = 1 /\ Number(256, 0, <<0>>) = 0
      BY <2>1, Number1 DEF Octet
    <3> QED
      BY <2>1, <3>1 DEF Octets
  <2>2. CASE v # 0
    <3>1. /\ Digits(256, v) \in Octets /\ Len(Digits(256, v)) = OctetsOf(v)
          /\ OctetsOf(v) \in 1..4 /\ Number(256, 0, Digits(256, v)) = v
      BY <2>2, DigitsAll, ZenonT(60)
    <3>2. s = Digits(256, v)
      BY <2>2
    <3> HIDE DEF s
    <3> QED
      BY <3>1, <3>2
  <2> QED
    BY <2>1, <2>2
<1>2. c = IF s[1] >= 128 THEN <<0>> \o s ELSE s
  BY DEF UnsignedBytes
<1> HIDE DEF s, c
<1>3. s # <<>> /\ s[1] \in Nat /\ s \in Seq(Octet)
  <2>1. s \in Seq(Octet) /\ 1 <= Len(s)
    BY <1>1, SMTT(60) DEF Octets
  <2> QED
    BY <2>1, OctetAt
<1>4. 0 \in Octet /\ i \in Int /\ i = i * 256 + 0 /\ 0 \in Nat
  BY DEF Octet
<1> HIDE DEF i
<1>5. /\ c \in Octets /\ c # <<>> /\ c[1] < 128 /\ Len(c) \in 1..5 /\ Number(256, i, c) = v
  <2>1. CASE s[1] >= 128
    <3>1. c = <<0>> \o s
      BY <1>2, <2>1
    <3>2. c \in Octets /\ c # <<>> /\ c[1] = 0 /\ s \in Seq(Nat)
      BY <1>1, <1>4, <3>1, OctetBefore
    <3>3. Number(256, i, <<0>> \o s) = Number(256, i, s)
      BY <1>4, <3>2, NumberAfter
    <3>4. Len(<<0>> \o s) = 1 + Len(s)
      BY <1>3
    <3>5. Len(c) \in 1..5
      <4>1. Len(c) = 1 + Len(s) /\ Len(s) \in 1..4
        BY <1>1, <3>1, <3>4
      <4>2. \A a \in 1..4 : 1 + a \in 1..5
        OBVIOUS
      <4> QED
        BY <4>1, <4>2, Zenon
    <3>6. Number(256, i, c) = v
      BY <1>1, <3>1, <3>3
    <3> QED
      BY <3>2, <3>5, <3>6
  <2>2. CASE ~(s[1] >= 128)
    <3>1. c = s
      BY <1>2, <2>2
    <3> QED
      BY <1>1, <1>3, <2>2, <3>1
  <2> QED
    BY <2>1, <2>2
<1>6. DecodeUint32(c) = Decoded(Number(256, i, c), Len(c) + 1)
  BY <1>5 DEF DecodeUint32, i
<1> QED
  BY <1>5, <1>6 DEF c

(* The octets of a length.                                                 *)
LEMMA LengthShape ==
  ASSUME NEW n \in Nat, n \in Word32
  PROVE  /\ EncodeLength(n) \in Octets /\ Len(EncodeLength(n)) = LengthSize(n)
         /\ n < 128 => EncodeLength(n) = <<n>>
         /\ n >= 128 => /\ EncodeLength(n)[1] = 128 + OctetsOf(n) /\ OctetsOf(n) \in 1..4
                        /\ LengthSize(n) = 1 + OctetsOf(n)
                        /\ SubSeq(EncodeLength(n), 2, LengthSize(n)) = Digits(256, n)
<1>1. CASE n < 128
  <2>1. EncodeLength(n) = <<n>> /\ LengthSize(n) = 1
    BY <1>1, SMT DEF EncodeLength, LengthSize
  <2>2. <<n>> \in Octets /\ Len(<<n>>) = 1
    <3>1. n \in Octet
      BY <1>1 DEF Octet
    <3> QED
      BY <3>1 DEF Octets
  <2> QED
    BY <1>1, <2>1, <2>2
<1>2. CASE n >= 128
  <2> DEFINE s == Digits(256, n)
             m == OctetsOf(n)
             b == 128 + m
             e == <<b>> \o s
  <2>1. s \in Octets /\ Len(s) = m /\ m \in 1..4
    BY <1>2, DigitsAll
  <2>2. EncodeLength(n) = e
    BY <1>2, <2>1 DEF EncodeLength
  <2>3. LengthSize(n) = 1 + m
    BY <1>2, SMT DEF LengthSize, OctetsOf
  <2> HIDE DEF s, m
  <2>4. b \in Octet
    BY <2>1 DEF Octet
  <2> HIDE DEF b
  <2>5. s \in Seq(Octet)
    BY <2>1 DEF Octets
  <2>6. e \in Seq(Octet) /\ Len(e) = 1 + m /\ e[1] = b /\ SubSeq(e, 2, 1 + m) = s
    <3>1. e \in Seq(Octet) /\ Len(e) = 1 + m /\ e[1] = b /\ \A k \in 1..m : e[1 + k] = s[k]
      BY <2>1, <2>4, <2>5
    <3> HIDE DEF e
    <3> DEFINE z == SubSeq(e, 2, 1 + m)
    <3>2. z \in Seq(Octet) /\ Len(z) = m /\ \A k \in 1..m : z[k] = e[1 + k]
      BY <2>1, <3>1
    <3> HIDE DEF z
    <3>3. z = s
      BY <2>1, <2>5, <3>1, <3>2
    <3> QED
      BY <3>1, <3>3 DEF z
  <2> HIDE DEF e
  <2> QED
    BY <1>2, <2>1, <2>2, <2>3, <2>6 DEF Octets, b, m, s
<1> QED
  BY <1>1, <1>2

(* EncodeLength and DecodeLength, for every length of 32 bits and wherever *)
(* in a buffer it stands; a length that the end of the buffer cuts is an   *)
(* error.  LengthSize counts the octets.                                   *)
THEOREM LengthRoundTrip ==
  ASSUME NEW n \in Word32, NEW x \in Octets, NEW y \in Octets
  PROVE  /\ Len(EncodeLength(n)) = LengthSize(n)
         /\ DecodeLength(x \o (EncodeLength(n) \o y), Len(x) + 1)
              = Decoded(n, Len(x) + LengthSize(n) + 1)
         /\ \A d \in 0..(LengthSize(n) - 1) :
              DecodeLength(x \o SubSeq(EncodeLength(n), 1, d), Len(x) + 1) = Fail
<1> DEFINE e == EncodeLength(n)
           z == LengthSize(n)
           m == OctetsOf(n)
           s == Digits(256, n)
           buf == x \o (e \o y)
           i == Len(x) + 1
<1>0. n \in Nat
  BY WordsAreNats
<1>1. e \in Octets /\ Len(e) = z /\ z \in 1..5
  <2>1. z \in 1..5
    BY <1>0, SMT DEF LengthSize
  <2> QED
    BY <1>0, <2>1, LengthShape
<1>2. n < 128 => e[1] = n /\ z = 1
  <2> HAVE n < 128
  <2>1. EncodeLength(n) = <<n>>
    BY <1>0, LengthShape
  <2>2. z = 1
    BY <1>0, SMT DEF LengthSize
  <2> QED
    BY <2>1, <2>2
<1>3. n >= 128 => /\ e[1] = 128 + m /\ m \in 1..4 /\ z = 1 + m /\ SubSeq(e, 2, z) = s
                  /\ Number(256, 0, s) = n
  <2> HAVE n >= 128
  <2>1. n # 0
    BY <1>0
  <2>2. Number(256, 0, s) = n
    BY <1>0, <2>1, DigitsAll
  <2> QED
    BY <1>0, <2>2, LengthShape
<1> HIDE DEF e, z, m, s
<1>4. buf \in Seq(Octet) /\ Len(buf) = Len(x) + z + Len(y) /\ i \in Nat
      /\ Len(x) \in Nat /\ Len(y) \in Nat
      /\ \A k \in 1..z : buf[Len(x) + k] = e[k]
  <2>1. x \in Seq(Octet) /\ y \in Seq(Octet) /\ e \in Seq(Octet)
    BY <1>1 DEF Octets
  <2>2. e \o y \in Seq(Octet) /\ Len(e \o y) = z + Len(y) /\ \A k \in 1..z : (e \o y)[k] = e[k]
    BY <1>1, <2>1
  <2> DEFINE ey == e \o y
  <2>3. Len(x) \in Nat /\ Len(y) \in Nat /\ Len(ey) = z + Len(y) /\ ey \in Seq(Octet)
    BY <2>1, <2>2
  <2>4. \A k \in 1..z : ey[k] = e[k] /\ k <= Len(ey) /\ k \in Nat \ {0}
    BY <1>1, <2>2, <2>3
  <2> HIDE DEF ey
  <2>5. /\ x \o ey \in Seq(Octet) /\ Len(x \o ey) = Len(x) + Len(ey)
        /\ \A k \in 1..z : (x \o ey)[Len(x) + k] = ey[k]
    BY <1>1, <2>1, <2>3, <2>4, SMTT(60)
  <2> QED
    BY <1>1, <2>3, <2>4, <2>5 DEF ey
<1> HIDE DEF buf
<1>5. DecodeLength(buf, i) = Decoded(n, Len(x) + z + 1)
  <2>1. ~(i > Len(buf)) /\ buf[i] = e[1]
    BY <1>1, <1>4
  <2>2. CASE n < 128
    BY <1>0, <1>2, <1>4, <2>1, <2>2 DEF DecodeLength, LengthAmong
  <2>3. CASE n >= 128
    <3>1. /\ buf[i] = 128 + m /\ ~(buf[i] < 128) /\ buf[i] - 128 = m /\ m \in 1..4
          /\ ~(i + m > Len(buf)) /\ i + m + 1 = Len(x) + z + 1
      BY <1>3, <1>4, <2>1, <2>3, SMTT(60)
    <3>2. SubSeq(buf, i + 1, i + m) = s
      <4> DEFINE u == SubSeq(buf, i + 1, i + m)
                 v == SubSeq(e, 2, z)
      <4>1. u \in Seq(Octet) /\ Len(u) = m /\ \A k \in 1..m : u[k] = buf[Len(x) + (1 + k)]
        BY <1>4, <3>1
      <4>2. v \in Seq(Octet) /\ Len(v) = m /\ \A k \in 1..m : v[k] = e[1 + k]
        <5>1. e \in Seq(Octet)
          BY <1>1 DEF Octets
        <5> QED
          BY <1>1, <1>3, <2>3, <5>1, SMTT(60)
      <4>3. ASSUME NEW k \in 1..m PROVE buf[Len(x) + (1 + k)] = e[1 + k]
        <5>1. z = 1 + m /\ m \in 1..4
          BY <1>3, <2>3
        <5>2. 1 + k \in 1..z
          BY <5>1
        <5> QED
          BY <1>4, <5>2, ZenonT(60)
      <4> HIDE DEF u, v
      <4>4. u = v
        BY <4>1, <4>2, <4>3
      <4> QED
        BY <1>3, <2>3, <4>4 DEF u, v
    <3>3. DecodeLength(buf, i)
            = Decoded(Number(256, 0, SubSeq(buf, i + 1, i + m)), i + m + 1)
      BY <2>1, <3>1 DEF DecodeLength, LengthAmong
    <3> QED
      BY <1>3, <2>3, <3>1, <3>2, <3>3, ZenonT(60)
  <2> QED
    BY <1>0, <2>2, <2>3
<1>6. ASSUME NEW d \in 0..(z - 1) PROVE DecodeLength(x \o SubSeq(e, 1, d), i) = Fail
  <2> DEFINE a == SubSeq(e, 1, d)
             u == x \o a
             b == u[i]
  <2>1. a \in Seq(Octet) /\ Len(a) = d /\ (d # 0 => a[1] = e[1]) /\ d \in Nat /\ d < z
    <3>1. e \in Seq(Octet) /\ d \in Nat /\ d < z
      BY <1>1 DEF Octets
    <3> QED
      BY <1>1, <3>1
  <2> HIDE DEF a
  <2>2. Len(u) = Len(x) + d /\ (d # 0 => u[i] = e[1])
    <3>1. x \in Seq(Octet)
      BY DEF Octets
    <3> QED
      BY <2>1, <3>1
  <2> HIDE DEF u
  <2>3. LengthAmong(1..4, u, i)
          = IF i > Len(u) THEN Fail
            ELSE CASE b < 128 -> Decoded(b, i + 1)
                   [] b >= 128 /\ (b - 128 \notin 1..4 \/ i + (b - 128) > Len(u)) -> Fail
                   [] OTHER -> Decoded(Number(256, 0, SubSeq(u, i + 1, i + (b - 128))),
                                       i + (b - 128) + 1)
    BY DEF LengthAmong
  <2>4. CASE d = 0
    <3>1. i > Len(u)
      BY <1>4, <2>2, <2>4
    <3>2. DecodeLength(u, i) = Fail
      BY <2>3, <3>1, Zenon DEF DecodeLength
    <3> QED
      BY <3>2 DEF u, a
  <2>5. CASE d # 0
    <3>1. n >= 128
      BY <1>0, <1>1, <1>2, <2>1, <2>5
    <3>2. b = 128 + m /\ m \in 1..4 /\ z = 1 + m
      BY <1>3, <2>2, <2>5, <3>1
    <3> HIDE DEF b
    <3>3. ~(b < 128) /\ b >= 128 /\ i + (b - 128) > Len(u) /\ ~(i > Len(u))
      <4> HIDE DEF i
      <4>1. i = Len(x) + 1
        BY DEF i
      <4> QED
        BY <1>4, <2>1, <2>2, <2>5, <3>2, <4>1
    <3>4. DecodeLength(u, i) = Fail
      BY <2>3, <3>3, Zenon DEF DecodeLength
    <3> QED
      BY <3>4 DEF u, a
  <2> QED
    BY <2>4, <2>5
<1> QED
  BY <1>1, <1>5, <1>6 DEF e, z, buf, i

(* Sequences of the same octets.                                           *)
LEMMA SameOctets ==
  ASSUME NEW s \in Seq(Octet), NEW v \in Seq(Octet), Len(s) = Len(v),
         \A k \in 1..Len(v) : s[k] = v[k]
  PROVE  s = v
  OBVIOUS

(* All the octets of a sequence.                                           *)
LEMMA WholeOctets ==
  ASSUME NEW s \in Seq(Octet)
  PROVE  SubSeq(s, 1, Len(s)) = s
<1> DEFINE v == SubSeq(s, 1, Len(s))
<1>1. v \in Seq(Octet) /\ Len(v) = Len(s) /\ \A k \in 1..Len(s) : v[k] = s[k]
  OBVIOUS
<1> HIDE DEF v
<1>2. v = s
  BY <1>1, SameOctets
<1> QED
  BY <1>2 DEF v

(* The first octets of two sequences.                                      *)
LEMMA FirstOctets ==
  ASSUME NEW a \in Octets, NEW b \in Octets, NEW d \in 0..(Len(a) + Len(b))
  PROVE  SubSeq(a \o b, 1, d)
           = IF d <= Len(a) THEN SubSeq(a, 1, d) ELSE a \o SubSeq(b, 1, d - Len(a))
<1> DEFINE c == a \o b
           s == SubSeq(c, 1, d)
<1>1. a \in Seq(Octet) /\ b \in Seq(Octet) /\ Len(a) \in Nat /\ Len(b) \in Nat /\ d \in Nat
  BY DEF Octets
<1>2. /\ c \in Seq(Octet) /\ Len(c) = Len(a) + Len(b)
      /\ \A k \in 1..Len(c) : c[k] = IF k <= Len(a) THEN a[k] ELSE b[k - Len(a)]
  BY <1>1
<1> HIDE DEF c
<1>3. s \in Seq(Octet) /\ Len(s) = d /\ \A k \in 1..d : s[k] = c[k]
  BY <1>1, <1>2
<1> HIDE DEF s
<1>4. CASE d <= Len(a)
  <2> DEFINE u == SubSeq(a, 1, d)
  <2>1. u \in Seq(Octet) /\ Len(u) = d /\ \A k \in 1..d : u[k] = a[k]
    BY <1>1, <1>4
  <2> HIDE DEF u
  <2>2. \A k \in 1..Len(u) : s[k] = u[k]
    BY <1>1, <1>2, <1>3, <1>4, <2>1
  <2>3. s = u
    BY <1>3, <2>1, <2>2, SameOctets
  <2> QED
    BY <1>4, <2>3 DEF s, u, c
<1>5. CASE ~(d <= Len(a))
  <2> DEFINE r == SubSeq(b, 1, d - Len(a))
             u == a \o r
  <2>1. r \in Seq(Octet) /\ Len(r) = d - Len(a) /\ \A k \in 1..(d - Len(a)) : r[k] = b[k]
    BY <1>1, <1>5
  <2> HIDE DEF r
  <2>2. /\ u \in Seq(Octet) /\ Len(u) = d
        /\ \A k \in 1..d : u[k] = IF k <= Len(a) THEN a[k] ELSE r[k - Len(a)]
    BY <1>1, <1>5, <2>1
  <2> HIDE DEF u
  <2>3. ASSUME NEW k \in 1..Len(u) PROVE s[k] = u[k]
    <3>1. k \in 1..d /\ k \in 1..Len(c) /\ s[k] = c[k]
      BY <1>1, <1>2, <1>3, <2>2
    <3>2. CASE k <= Len(a)
      BY <1>2, <2>2, <3>1, <3>2
    <3>3. CASE ~(k <= Len(a))
      <4>1. k - Len(a) \in 1..(d - Len(a))
        BY <1>1, <3>1, <3>3
      <4> QED
        BY <1>2, <2>1, <2>2, <3>1, <3>3, <4>1
    <3> QED
      BY <3>2, <3>3
  <2>4. s = u
    BY <1>3, <2>2, <2>3, SameOctets
  <2> QED
    BY <1>5, <2>4 DEF s, u, r, c
<1> QED
  BY <1>4, <1>5

(* What lies between two others.                                           *)
LEMMA Middle ==
  ASSUME NEW x \in Octets, NEW v \in Octets, NEW y \in Octets
  PROVE  /\ SubSeq(x \o (v \o y), Len(x) + 1, Len(x) + Len(v)) = v
         /\ Len(x \o (v \o y)) = Len(x) + Len(v) + Len(y)
         /\ Len(x) \in Nat /\ Len(v) \in Nat /\ Len(y) \in Nat
<1> DEFINE w == v \o y
           b == x \o w
           s == SubSeq(b, Len(x) + 1, Len(x) + Len(v))
<1>1. /\ x \in Seq(Octet) /\ v \in Seq(Octet) /\ y \in Seq(Octet)
      /\ Len(x) \in Nat /\ Len(v) \in Nat /\ Len(y) \in Nat
  BY DEF Octets
<1>2. w \in Seq(Octet) /\ Len(w) = Len(v) + Len(y) /\ \A k \in 1..Len(v) : w[k] = v[k]
  BY <1>1
<1> HIDE DEF w
<1>3. /\ b \in Seq(Octet) /\ Len(b) = Len(x) + Len(w)
      /\ \A k \in 1..Len(w) : b[Len(x) + k] = w[k]
  BY <1>1, <1>2, SMTT(60)
<1> HIDE DEF b
<1>4. s \in Seq(Octet) /\ Len(s) = Len(v) /\ \A k \in 1..Len(v) : s[k] = b[Len(x) + k]
  BY <1>1, <1>2, <1>3, SMTT(60)
<1>5. \A k \in 1..Len(v) : b[Len(x) + k] = v[k]
  BY <1>1, <1>2, <1>3
<1> HIDE DEF s
<1>6. s = v
  <2>1. \A k \in 1..Len(v) : s[k] = v[k]
    BY <1>4, <1>5
  <2> QED
    BY <1>1, <1>4, <2>1, SameOctets
<1> QED
  BY <1>1, <1>2, <1>3, <1>6 DEF s, b, w

(* The first octet of a TLV whose tag is below 31.                         *)
TagOctet(class, constructed, tag) == class + (IF constructed THEN 32 ELSE 0) + tag

(* DecodeTag reads in it what EncodeTag wrote.                             *)
ShowsTag(octet, class, constructed, tag) ==
  /\ LowTag(octet) /\ octet \in Octet
  /\ octet - (octet % 64) = class /\ octet % 32 = tag
  /\ (octet \div 32) % 2 = (IF constructed THEN 1 ELSE 0)
  /\ EncodeTag(class, constructed, tag) = <<octet>>

(* So it does, for every class and every such tag.                         *)
LEMMA TagOctetIs ==
  ASSUME NEW class \in {Universal, Application, Context, Private}, NEW constructed \in BOOLEAN,
         NEW tag \in 0..30
  PROVE  ShowsTag(TagOctet(class, constructed, tag), class, constructed, tag)
<1> DEFINE c == IF constructed THEN 32 ELSE 0
           t == class + c + tag
<1>0. TagOctet(class, constructed, tag) = t
  BY DEF TagOctet
<1>1. c \in {0, 32}
  OBVIOUS
<1>2. class \in {0, 64, 128, 192}
  BY DEF Universal, Application, Context, Private
<1>3. EncodeTag(class, constructed, tag) = <<t>>
  BY DEF EncodeTag, Constructed
<1>4. (t \div 32) % 2 = (IF constructed THEN 1 ELSE 0)
  BY <1>2
<1> HIDE DEF c
<1>5. t \in 0..255 /\ t % 32 # 31 /\ t - (t % 64) = class /\ t % 32 = tag
  BY <1>1, <1>2
<1> QED
  BY <1>0, <1>3, <1>4, <1>5 DEF LowTag, Octet, c, ShowsTag

(* EncodeTLV and ParseTLV, for every class, every tag below 31, every      *)
(* value of a length of 32 bits and wherever in a buffer the element       *)
(* stands; an element that the end of the buffer cuts is an error.         *)
THEOREM TlvRoundTrip ==
  ASSUME NEW class \in {Universal, Application, Context, Private}, NEW constructed \in BOOLEAN,
         NEW tag \in 0..30, NEW value \in Octets, Len(value) \in Word32,
         NEW x \in Octets, NEW y \in Octets
  PROVE  LET tlv == EncodeTLV(class, constructed, tag, value)
         IN /\ tlv \in Octets /\ Len(tlv) = 1 + LengthSize(Len(value)) + Len(value)
            /\ ParseTLV(x \o (tlv \o y), Len(x) + 1) =
                 Decoded([class |-> class, constructed |-> constructed, tag |-> tag,
                          value |-> value], Len(x) + Len(tlv) + 1)
            /\ \A d \in 0..(Len(tlv) - 1) :
                 ParseTLV(x \o SubSeq(tlv, 1, d), Len(x) + 1) = Fail
<1> DEFINE n == Len(value)
           z == LengthSize(n)
           e == EncodeLength(n)
           t == TagOctet(class, constructed, tag)
           h == <<t>>
           xh == x \o h
           ev == e \o value
           tlv == h \o ev
           i == Len(x) + 1
           id == [class |-> class, constructed |-> constructed, number |-> tag]
           T == [class |-> class, constructed |-> constructed, tag |-> tag, value |-> value]
<1>1. /\ t \in Octet /\ LowTag(t) /\ EncodeTag(class, constructed, tag) = h
      /\ [class |-> t - (t % 64), constructed |-> (t \div 32) % 2 = 1, number |-> t % 32] = id
  <2>1. /\ t \in Octet /\ LowTag(t) /\ EncodeTag(class, constructed, tag) = h
        /\ t - (t % 64) = class /\ t % 32 = tag
        /\ (t \div 32) % 2 = (IF constructed THEN 1 ELSE 0)
    <3>1. ShowsTag(t, class, constructed, tag)
      BY TagOctetIs
    <3> HIDE DEF t
    <3> QED
      BY <3>1 DEF ShowsTag
  <2>2. ((t \div 32) % 2 = 1) = constructed
    <3> DEFINE r == (t \div 32) % 2
    <3>1. r = IF constructed THEN 1 ELSE 0
      BY <2>1
    <3> HIDE DEF r
    <3>2. constructed => (r = 1) = TRUE
      BY <3>1
    <3>3. ~constructed => (r = 1) = FALSE
      BY <3>1
    <3>4. constructed = TRUE \/ constructed = FALSE
      OBVIOUS
    <3>5. (r = 1) = constructed
      BY <3>2, <3>3, <3>4
    <3> QED
      BY <3>5 DEF r
  <2> HIDE DEF t
  <2> QED
    BY <2>1, <2>2
<1>2. n \in Nat /\ Len(x) \in Nat /\ Len(y) \in Nat
  BY DEF Octets
<1>3. z \in 1..5
  <2> HIDE DEF n
  <2> QED
    BY <1>2, SMT DEF LengthSize
<1>4. e \in Octets /\ Len(e) = z
  <2> HIDE DEF n
  <2>1. n \in Word32
    BY DEF n
  <2> QED
    BY <1>2, <2>1, LengthShape
<1>5. EncodeTLV(class, constructed, tag, value) = tlv
  <2>1. EncodeTLV(class, constructed, tag, value)
          = EncodeTag(class, constructed, tag) \o e \o value
    BY DEF EncodeTLV, With
  <2>2. h \in Octets
    BY <1>1 DEF Octets
  <2> HIDE DEF e, h
  <2> QED
    BY <1>1, <1>4, <2>1, <2>2, JoinAssociative, ZenonT(60)
<1> HIDE DEF t, id
<1>6. /\ h \in Octets /\ ev \in Octets /\ xh \in Octets /\ tlv \in Octets
      /\ Len(h) = 1 /\ Len(xh) = i /\ xh[i] = t /\ Len(ev) = z + n /\ Len(tlv) = 1 + z + n
  <2>1. h \in Seq(Octet) /\ x \in Seq(Octet) /\ e \in Seq(Octet) /\ value \in Seq(Octet)
    BY <1>1, <1>4 DEF Octets
  <2>2. ev \in Seq(Octet) /\ Len(ev) = z + n
    BY <1>4, <2>1
  <2> HIDE DEF ev
  <2>3. /\ xh \in Seq(Octet) /\ tlv \in Seq(Octet) /\ Len(h) = 1 /\ Len(xh) = i /\ xh[i] = t
        /\ Len(tlv) = 1 + (z + n)
    <3> HIDE DEF z, n
    <3> QED
      BY <1>2, <1>3, <2>1, <2>2
  <2> QED
    BY <1>2, <1>3, <2>1, <2>2, <2>3 DEF Octets
<1>7. n \in Word32
  OBVIOUS
<1> HIDE DEF n, z, e, h, xh, ev, tlv, T
<1>8. ASSUME NEW b \in Octets, Len(b) \in Nat, i <= Len(b), b[i] = t
      PROVE  DecodeTag(b, i) = Decoded(id, i + 1)
  <2>1. ~(i > Len(b))
    BY <1>2, <1>8
  <2> QED
    BY <1>1, <1>8, <2>1, TagLow
<1>9. ParseTLV(x \o (tlv \o y), i) = Decoded(T, Len(x) + Len(tlv) + 1)
  <2> DEFINE vy == value \o y
             w == e \o vy
             buf == x \o (tlv \o y)
             xhe == xh \o e
             p == Len(xh) + z + 1
             id1 == DecodeTag(buf, i)
             l == DecodeLength(buf, id1.pos)
  <2>1. vy \in Octets /\ w \in Octets
    BY <1>4, JoinOctets
  <2>2. buf = xh \o w
    <3>1. tlv \o y = h \o (ev \o y)
      <4>1. h \in Octets /\ ev \in Octets
        BY <1>6
      <4>2. (h \o ev) \o y = h \o (ev \o y)
        BY <4>1, JoinAssociative, ZenonT(60)
      <4> QED
        BY <4>2 DEF tlv
    <3>3. ev \o y = w
      BY <1>4, JoinAssociative DEF ev
    <3>2. x \o (h \o w) = xh \o w
      <4>1. h \in Octets /\ w \in Octets
        BY <1>6, <2>1
      <4> HIDE DEF w
      <4> QED
        BY <4>1, JoinAssociative, ZenonT(60) DEF xh
    <3> QED
      BY <3>1, <3>2, <3>3
  <2>3. xh \o w = xhe \o vy /\ xhe \in Octets
    <3>1. vy \in Octets
      BY <2>1
    <3> HIDE DEF vy
    <3>2. (xh \o e) \o vy = xh \o (e \o vy)
      <4>1. xh \in Octets /\ e \in Octets
        BY <1>4, <1>6
      <4> QED
        BY <3>1, <4>1, JoinAssociative, ZenonT(60)
    <3>3. xh \o e \in Octets
      BY <1>4, <1>6, JoinOctets
    <3> QED
      BY <3>2, <3>3
  <2>4. /\ SubSeq(buf, Len(xhe) + 1, Len(xhe) + n) = value
        /\ Len(buf) = Len(xhe) + n + Len(y) /\ buf \in Octets
    <3>1. buf = xhe \o (value \o y)
      BY <2>2, <2>3
    <3>2. vy \in Octets /\ xhe \in Octets
      BY <2>1, <2>3
    <3> HIDE DEF xhe, buf
    <3>3. buf \in Octets
      BY <3>1, <3>2, JoinOctets
    <3>4. /\ SubSeq(buf, Len(xhe) + 1, Len(xhe) + Len(value)) = value
          /\ Len(buf) = Len(xhe) + Len(value) + Len(y)
      BY <3>1, <3>2, Middle
    <3> QED
      BY <3>3, <3>4 DEF n
  <2>5. Len(xhe) = Len(xh) + z
    <3>1. xh \in Seq(Octet) /\ e \in Seq(Octet)
      BY <1>4, <1>6 DEF Octets
    <3> QED
      BY <1>4, <3>1
  <2>6. DecodeLength(buf, i + 1) = Decoded(n, p)
    <3>1. DecodeLength(xh \o (EncodeLength(n) \o vy), Len(xh) + 1)
            = Decoded(n, Len(xh) + LengthSize(n) + 1)
      BY <1>6, <1>7, <2>1, LengthRoundTrip
    <3> QED
      BY <1>6, <2>2, <3>1 DEF e, z
  <2>7. buf[i] = t
    <3>1. xh \in Seq(Octet) /\ w \in Seq(Octet) /\ i \in 1..Len(xh)
      BY <1>2, <1>6, <2>1 DEF Octets
    <3> HIDE DEF w, i
    <3>2. (xh \o w)[i] = xh[i]
      BY <3>1
    <3> QED
      BY <1>6, <2>2, <3>2
  <2> HIDE DEF buf, xhe, vy, w
  <2>8. id1 = Decoded(id, i + 1)
    <3>1. i <= Len(buf) /\ Len(buf) \in Nat
      BY <1>2, <1>3, <1>6, <2>4, <2>5
    <3> QED
      BY <1>8, <2>4, <2>7, <3>1
  <2>9. id1.ok /\ id1.val = id /\ id1.pos = i + 1
    BY <2>8, DecodedFields
  <2>10. l.ok /\ l.val = n /\ l.pos = p
    <3>1. l = Decoded(n, p)
      BY <2>6, <2>9
    <3> QED
      BY <3>1, DecodedFields
  <2> HIDE DEF id1, l
  <2>11. /\ ~(l.pos + l.val > Len(buf) + 1)
         /\ p + n - 1 = Len(xhe) + n /\ p = Len(xhe) + 1
         /\ p + n = Len(x) + Len(tlv) + 1
    BY <1>2, <1>3, <1>6, <2>4, <2>5, <2>10
  <2> HIDE DEF p, i
  <2>12. ParseTLV(buf, i)
           = Decoded([class |-> id1.val.class, constructed |-> id1.val.constructed,
                      tag |-> id1.val.number,
                      value |-> SubSeq(buf, l.pos, l.pos + l.val - 1)],
                     l.pos + l.val)
    BY <2>9, <2>10, <2>11, ParseTLVIs DEF id1, l
  <2>13. /\ id1.val.class = class /\ id1.val.constructed = constructed
         /\ id1.val.number = tag
    BY <2>9 DEF id
  <2>14. SubSeq(buf, l.pos, l.pos + l.val - 1) = value
    BY <2>4, <2>10, <2>11
  <2> QED
    BY <2>10, <2>11, <2>12, <2>13, <2>14 DEF T, buf
<1>10. ASSUME NEW d \in 0..(Len(tlv) - 1) PROVE ParseTLV(x \o SubSeq(tlv, 1, d), i) = Fail
  <2> DEFINE a == SubSeq(tlv, 1, d)
             buf == x \o a
             c == SubSeq(ev, 1, d - 1)
             id1 == DecodeTag(buf, i)
             l == DecodeLength(buf, id1.pos)
             p == Len(xh) + z + 1
  <2>1. d \in Nat /\ d < 1 + z + n /\ z \in Nat
    BY <1>2, <1>3, <1>6
  <2>2. a \in Octets /\ Len(a) = d
    <3>1. tlv \in Seq(Octet) /\ d \in 0..Len(tlv)
      BY <1>6, <2>1 DEF Octets
    <3> QED
      BY <3>1 DEF Octets
  <2> HIDE DEF a
  <2>3. buf \in Octets /\ Len(buf) = Len(x) + d
    BY <2>2, JoinOctets
  <2>4. CASE d = 0
    <3>1. i > Len(buf)
      BY <1>2, <2>3, <2>4
    <3> HIDE DEF i, buf
    <3>2. id1 = Fail
      BY <3>1 DEF DecodeTag
    <3>3. ~id1.ok
      BY <3>2 DEF Fail
    <3> HIDE DEF id1, l
    <3>4. ParseTLV(buf, i) = Fail
      BY <3>3, ParseTLVIs DEF id1, l
    <3> QED
      BY <3>4 DEF buf, a
  <2>5. CASE d # 0
    <3>1. a = h \o c
      <4>1. d \in 0..(Len(h) + Len(ev))
        BY <1>2, <1>3, <1>6, <2>1
      <4>2. SubSeq(h \o ev, 1, d)
              = IF d <= Len(h) THEN SubSeq(h, 1, d) ELSE h \o SubSeq(ev, 1, d - Len(h))
        BY <1>6, <4>1, FirstOctets
      <4>3. CASE d = 1
        <5>1. SubSeq(h, 1, 1) = h /\ c = <<>> /\ h \o <<>> = h
          <6>1. h \in Seq(Octet) /\ ev \in Seq(Octet)
            BY <1>6 DEF Octets
          <6>3. SubSeq(h, 1, 1) = h
            BY <1>6, <6>1, WholeOctets
          <6>4. c = <<>> /\ h \o <<>> = h
            BY <4>3, <6>1
          <6> QED
            BY <6>3, <6>4
        <5> HIDE DEF c
        <5> QED
          BY <1>6, <4>2, <4>3, <5>1 DEF a, tlv
      <4>4. CASE d # 1
        BY <1>6, <2>1, <2>5, <4>2, <4>4, SMTT(60) DEF a, tlv
      <4> QED
        BY <4>3, <4>4
    <3>2. c \in Octets /\ Len(c) = d - 1
      <4>1. ev \in Seq(Octet) /\ d - 1 \in 0..Len(ev)
        BY <1>2, <1>3, <1>6, <2>1, <2>5 DEF Octets
      <4> QED
        BY <4>1 DEF Octets
    <3>3. buf = xh \o c
      <4> HIDE DEF c
      <4>1. h \in Octets /\ c \in Octets
        BY <1>6, <3>2
      <4>2. x \o (h \o c) = xh \o c
        BY <4>1, JoinAssociative, ZenonT(60) DEF xh
      <4> QED
        BY <3>1, <4>2
    <3>4. buf[i] = t /\ i <= Len(buf) /\ Len(buf) \in Nat
      <4>1. xh \in Seq(Octet) /\ c \in Seq(Octet) /\ i \in 1..Len(xh)
        BY <1>2, <1>6, <3>2 DEF Octets
      <4>2. i <= Len(buf) /\ Len(buf) \in Nat
        BY <1>2, <2>1, <2>3, <2>5
      <4> HIDE DEF c, i, buf
      <4>3. (xh \o c)[i] = xh[i]
        BY <4>1
      <4> QED
        BY <1>6, <3>3, <4>2, <4>3
    <3> HIDE DEF c, buf
    <3>5. id1 = Decoded(id, i + 1)
      BY <1>8, <2>3, <3>4
    <3>6. id1.ok /\ id1.pos = i + 1
      BY <3>5, DecodedFields
    <3> HIDE DEF id1
    <3>7. ~l.ok \/ l.pos + l.val > Len(buf) + 1
      <4>1. d - 1 \in 0..(Len(e) + Len(value))
        BY <1>2, <1>3, <1>4, <2>1, <2>5 DEF n
      <4>2. SubSeq(e \o value, 1, d - 1)
              = IF d - 1 <= Len(e) THEN SubSeq(e, 1, d - 1)
                ELSE e \o SubSeq(value, 1, (d - 1) - Len(e))
        BY <1>4, <4>1, FirstOctets
      <4>3. CASE d - 1 < z
        <5>1. c = SubSeq(e, 1, d - 1)
          BY <1>4, <2>1, <4>2, <4>3 DEF c, ev
        <5>2. d - 1 \in 0..(LengthSize(n) - 1)
          BY <2>1, <2>5, <4>3 DEF z
        <5>3. DecodeLength(xh \o SubSeq(EncodeLength(n), 1, d - 1), Len(xh) + 1) = Fail
          BY <1>6, <1>7, <5>2, LengthRoundTrip
        <5>4. l = Fail
          BY <1>6, <3>3, <3>6, <5>1, <5>3 DEF e
        <5> QED
          BY <5>4 DEF Fail
      <4>4. CASE ~(d - 1 < z)
        <5> DEFINE v == SubSeq(value, 1, (d - 1) - z)
        <5>1. v \in Octets
          <6>1. value \in Seq(Octet) /\ (d - 1) - z \in 0..Len(value)
            BY <1>2, <2>1, <4>4 DEF Octets, n
          <6> QED
            BY <6>1 DEF Octets
        <5>2. c = e \o v
          <6>1. CASE d - 1 > z
            <7>1. ~(d - 1 <= Len(e)) /\ Len(e) = z
              BY <1>4, <2>1, <6>1
            <7>2. SubSeq(e \o value, 1, d - 1) = e \o SubSeq(value, 1, (d - 1) - Len(e))
              BY <4>2, <7>1
            <7> QED
              BY <7>1, <7>2 DEF c, ev
          <6>2. CASE d - 1 = z
            <7>1. e \in Seq(Octet) /\ value \in Seq(Octet)
              BY <1>4 DEF Octets
            <7>3. SubSeq(e, 1, z) = e
              BY <1>4, <7>1, WholeOctets
            <7>4. v = <<>> /\ e \o <<>> = e
              <8>1. (d - 1) - z = 0
                BY <2>1, <6>2
              <8> QED
                BY <7>1, <8>1
            <7>5. SubSeq(ev, 1, d - 1) = SubSeq(e, 1, z)
              BY <1>4, <2>1, <4>2, <6>2 DEF ev
            <7> HIDE DEF v
            <7> QED
              BY <7>3, <7>4, <7>5 DEF c
          <6> QED
            BY <2>1, <4>4, <6>1, <6>2
        <5>3. DecodeLength(xh \o (EncodeLength(n) \o v), Len(xh) + 1)
                = Decoded(n, Len(xh) + LengthSize(n) + 1)
          BY <1>6, <1>7, <5>1, LengthRoundTrip
        <5>4. l = Decoded(n, p)
          BY <1>6, <3>3, <3>6, <5>2, <5>3 DEF e, z
        <5>5. l.pos = p /\ l.val = n
          BY <5>4, DecodedFields
        <5> HIDE DEF l
        <5> QED
          BY <1>2, <1>6, <2>1, <2>3, <5>5
      <4> QED
        BY <4>3, <4>4
    <3> HIDE DEF l
    <3>8. ParseTLV(buf, i) = Fail
      BY <3>6, <3>7, ParseTLVIs DEF id1, l
    <3> QED
      BY <3>8 DEF buf, a
  <2> QED
    BY <2>4, <2>5
<1> QED
  BY <1>5, <1>6, <1>9, <1>10 DEF n, z, T
=============================================================================
