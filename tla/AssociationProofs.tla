------------------------- MODULE AssociationProofs --------------------------
(***************************************************************************)
(* Proofs about Association: what is taken out of the frames of the data   *)
(* phase is what was put in, and each side reads in the handshake what the *)
(* other has proposed, or the server refuses.                              *)
(***************************************************************************)
EXTENDS Association, HandshakeProofs

(* A PDU of at most LargestPdu octets comes out of the frame as it went    *)
(* in; one of 65525 to 65535 octets, for which the length of the outermost *)
(* block wraps, is refused with an error and never misread.                *)
LEMMA UnwrapWrap ==
  ASSUME NEW p \in Octets, Len(p) <= 65535
  PROVE  IF Len(p) <= LargestPdu THEN Unwrap(Wrap(p)).ok /\ Unwrap(Wrap(p)).val = p
         ELSE Unwrap(Wrap(p)) = Fail
<1> DEFINE n == Len(p)
           m == 4 + LL(n) + n
           a == 2 + LL(m)
           s == Block(48, Inner(p, 3))
           B == Block(97, s)
<1>1. n \in Nat /\ LL(n) \in 1..3
  BY LLType DEF Octets
<1>2. m \in Nat
  BY <1>1
<1>3. LL(m) \in 1..3
  <2> HIDE DEF m
  <2> QED
    BY <1>2, LLType
<1>4. a \in Nat
  BY <1>3
<1>5. IsPdv(s, p, n, m, a)
  <2>1. 3 \in Octet
    BY DEF Octet
  <2> HIDE DEF m
  <2>2. m = 4 + LL(n) + n
    BY DEF m
  <2> QED
    BY <1>1, <1>2, <2>1, <2>2, PdvShape
<1>6. Wrap(p) = WrapDataSPDU(B)
  BY DEF Wrap, WrapUserData, buildFullyEncodedData, Inner
<1> HIDE DEF s
<1>7. s \in Octets /\ Len(s) = a + m - 1
  BY <1>5 DEF IsPdv
<1>8. Len(s) = 5 + LL(m) + LL(n) + n /\ Len(s) >= 1 /\ Len(s) < 65792
  <2> DEFINE y == LL(n)
             z == LL(m)
             x == Len(s)
  <2>1. y \in 1..3 /\ z \in 1..3 /\ x = (2 + z) + (4 + y + n) - 1 /\ n <= 65535 /\ n \in Nat
    BY <1>1, <1>3, <1>7
  <2> HIDE DEF m, n, x, y, z
  <2>2. x = 5 + z + y + n /\ x >= 1 /\ x < 65792
    BY <2>1
  <2> QED
    BY <2>2 DEF x, y, z
<1>9. B \in Octets
  <2>1. 97 \in Octet
    BY DEF Octet
  <2> QED
    BY <1>7, <2>1, BlockShape DEF IsBlock
<1> HIDE DEF B
<1>10. Unwrap(Wrap(p)) = UnwrapUserData(B)
  <2>1. UnwrapDataSPDU(WrapDataSPDU(B)).ok /\ UnwrapDataSPDU(WrapDataSPDU(B)).val = B
    BY <1>9, UnwrapData, DecodedFields
  <2> QED
    BY <1>6, <2>1 DEF Unwrap, Then, With
<1>11. Unwrap(Wrap(p)) = parseFullyEncodedData(SubSeq(s, 1, Announced(Len(s))))
  BY <1>7, <1>8, <1>10, UnwrapBlock DEF B
<1>12. CASE n <= LargestPdu
  <2>1. Len(s) < 65536 /\ m < 65536
    BY <1>1, <1>3, <1>8, <1>12, SMTT(60) DEF LargestPdu
  <2>2. Announced(Len(s)) = Len(s) /\ SubSeq(s, 1, Len(s)) = s
    BY <1>7, <2>1 DEF Announced, Octets
  <2>3. parseFullyEncodedData(s) = Decoded(p, Len(s) + 1)
    <3> HIDE DEF a, m, n
    <3> QED
      BY <1>1, <1>2, <1>4, <1>5, <2>1, ParseWhole
  <2> HIDE DEF a, m, n
  <2> DEFINE w == Unwrap(Wrap(p))
             cut == SubSeq(s, 1, Announced(Len(s)))
             r == Decoded(p, Len(s) + 1)
  <2>6. cut = s
    BY <2>2
  <2>7. w = parseFullyEncodedData(cut)
    BY <1>11
  <2>8. parseFullyEncodedData(s) = r
    BY <2>3
  <2> HIDE DEF cut, w, r
  <2>9. w = r
    BY <2>6, <2>7, <2>8
  <2>4. Unwrap(Wrap(p)) = Decoded(p, Len(s) + 1)
    BY <2>9 DEF w, r
  <2>5. Unwrap(Wrap(p)).ok /\ Unwrap(Wrap(p)).val = p
    BY <2>4, DecodedFields
  <2> QED
    BY <1>12, <2>5 DEF n
<1>13. CASE n > LargestPdu
  <2>1. n > 65524 /\ n < 65536
    BY <1>1, <1>13 DEF LargestPdu
  <2>2. LL(n) = 3
    BY <1>1, <2>1, LongLength
  <2>3. LL(m) = 3
    <3>1. m > 255
      BY <1>1, <2>1
    <3> HIDE DEF m
    <3> QED
      BY <1>2, <3>1, LongLength
  <2> DEFINE d == n - 65525
             t == SubSeq(s, 1, d)
  <2>4. d \in Nat /\ Announced(Len(s)) = d
    BY <1>1, <1>8, <2>1, <2>2, <2>3 DEF Announced
  <2>5. IsCut(t, d, m) /\ m = d + 65532 /\ d <= 10
    <3> HIDE DEF a, m, t, d, n
    <3>1. n = d + 65525
      BY <1>1 DEF d
    <3> QED
      BY <1>1, <1>2, <1>4, <1>5, <2>1, <2>4, <3>1, CutShape DEF t
  <2> HIDE DEF m, d, t
  <2>6. parseFullyEncodedData(t) = Fail
    BY <1>2, <2>4, <2>5, ParseCut
  <2> QED
    BY <1>1, <1>11, <1>13, <2>4, <2>6 DEF t, LargestPdu
<1> QED
  BY <1>1, <1>12, <1>13 DEF LargestPdu

(* Nothing sent, nothing in flight, nothing taken.                         *)
LEMMA FlowEmpty == Flow(<<>>, <<>>, <<>>)
  BY DEF Flow

(* Sending keeps the order.                                                *)
LEMMA FlowSend ==
  ASSUME NEW sent \in Seq(PduLengths), NEW flying \in Seq(DataFrames),
         NEW got \in Seq(Readings), Flow(sent, flying, got), NEW n \in PduLengths
  PROVE  Flow(Append(sent, n), Append(flying, Wrap(Pdu(n))), got)
<1> DEFINE F(k) == Wrap(Pdu(k))
           G(k) == Unwrap(Wrap(Pdu(k)))
<1>1. F(n) \in DataFrames
  BY DEF DataFrames
<1>2. /\ Len(sent) = Len(got) + Len(flying)
      /\ \A k \in 1..Len(got) : got[k] = G(sent[k])
      /\ \A k \in 1..Len(flying) : flying[k] = F(sent[Len(got) + k])
  BY DEF Flow
<1> HIDE DEF F, G
<1> DEFINE s == Append(sent, n)
           f == Append(flying, F(n))
<1>3. Len(s) = Len(got) + Len(f)
  <2>1. Len(s) = Len(sent) + 1
    OBVIOUS
  <2>2. Len(f) = Len(flying) + 1
    BY <1>1
  <2>3. Len(sent) \in Nat /\ Len(got) \in Nat /\ Len(flying) \in Nat
    OBVIOUS
  <2> HIDE DEF s, f
  <2> QED
    BY <1>2, <2>1, <2>2, <2>3
<1>4. \A k \in 1..Len(got) : got[k] = G(s[k])
  BY <1>2
<1>5. ASSUME NEW k \in 1..Len(f) PROVE f[k] = F(s[Len(got) + k])
  <2>1. CASE k = Len(f)
    BY <1>1, <1>2, <2>1
  <2>2. CASE k # Len(f)
    BY <1>1, <1>2, <2>2
  <2> QED
    BY <2>1, <2>2
<1> QED
  BY <1>3, <1>4, <1>5 DEF Flow, F, G

(* Taking the oldest frame keeps the order.                                *)
LEMMA FlowTake ==
  ASSUME NEW sent \in Seq(PduLengths), NEW flying \in Seq(DataFrames), flying # <<>>,
         NEW got \in Seq(Readings), Flow(sent, flying, got)
  PROVE  Flow(sent, Tail(flying), Append(got, Unwrap(Head(flying))))
<1> DEFINE F(k) == Wrap(Pdu(k))
           G(k) == Unwrap(Wrap(Pdu(k)))
           t == Tail(flying)
           g == Append(got, Unwrap(Head(flying)))
<1>1. /\ Len(sent) = Len(got) + Len(flying)
      /\ \A k \in 1..Len(got) : got[k] = G(sent[k])
      /\ \A k \in 1..Len(flying) : flying[k] = F(sent[Len(got) + k])
  BY DEF Flow
<1>2. Head(flying) \in DataFrames /\ Unwrap(Head(flying)) \in Readings
  BY DEF Readings
<1>3. Unwrap(Head(flying)) = G(sent[Len(got) + 1])
  BY <1>1
<1> HIDE DEF F, G
<1>4. Len(sent) = Len(g) + Len(t)
  BY <1>1, <1>2
<1>5. ASSUME NEW k \in 1..Len(g) PROVE g[k] = G(sent[k])
  BY <1>1, <1>2, <1>3
<1>6. ASSUME NEW k \in 1..Len(t) PROVE t[k] = F(sent[Len(g) + k])
  <2>1. t[k] = flying[k + 1] /\ k + 1 \in 1..Len(flying)
    OBVIOUS
  <2>2. Len(g) + k = Len(got) + (k + 1)
    BY <1>2
  <2> QED
    BY <1>1, <2>1, <2>2
<1> QED
  BY <1>4, <1>5, <1>6 DEF Flow, F, G

(* Frames that are in the flow are data frames.                            *)
LEMMA DownIsData ==
  ASSUME NEW s \in Seq(PduLengths), NEW d \in Seq({ConnectResponse} \union DataFrames),
         NEW g \in Seq(Readings), Flow(s, d, g)
  PROVE  d \in Seq(DataFrames)
<1>1. ASSUME NEW k \in 1..Len(d) PROVE d[k] \in DataFrames
  <2>1. Len(g) + k \in 1..Len(s)
    BY DEF Flow
  <2>2. s[Len(g) + k] \in PduLengths
    BY <2>1
  <2>3. d[k] = Wrap(Pdu(s[Len(g) + k]))
    BY DEF Flow
  <2> QED
    BY <2>2, <2>3 DEF DataFrames
<1> QED
  BY <1>1

(* The initial states.                                                     *)
LEMMA InitInv == Init => AssociationInv
  BY FlowEmpty DEF Init, AssociationInv, TypeOK, PhaseInv, FlowInv

(* One lemma for each action.                                              *)
LEMMA DialInv == AssociationInv /\ Dial => AssociationInv'
  BY DEF AssociationInv, TypeOK, PhaseInv, FlowInv, Dial

(* The step preserves the invariant.                                        *)
LEMMA HandshakeInv == AssociationInv /\ Handshake => AssociationInv'
<1> SUFFICES ASSUME AssociationInv, Handshake PROVE AssociationInv'
  OBVIOUS
<1> USE DEF AssociationInv
<1>1. /\ server = "waiting" /\ client = "waiting" /\ up' = <<>>
      /\ UNCHANGED <<client, asked, answered, heard, read>>
      /\ asked = <<>> /\ answered = <<>> /\ heard = <<>> /\ read = <<>> /\ down = <<>>
  BY DEF Handshake, TypeOK, PhaseInv
<1>2. \/ server' = "serving" /\ down' = Append(down, ConnectResponse)
      \/ server' = "closed" /\ down' = down
  BY DEF Handshake
<1> DEFINE R == ConnectResponse
<1> HIDE DEF R
<1>3. Append(<<>>, R) # <<>> /\ Tail(Append(<<>>, R)) = <<>>
  OBVIOUS
<1>4. Append(<<>>, R) \in Seq({R} \union DataFrames) /\ <<>> \in Seq({R} \union DataFrames)
  OBVIOUS
<1>5. TypeOK'
  <2>1. down' \in Seq({ConnectResponse} \union DataFrames)
    BY <1>1, <1>2, <1>4 DEF R
  <2> QED
    BY <1>1, <1>2, <2>1 DEF TypeOK
<1>6. PhaseInv'
  BY <1>1, <1>2 DEF PhaseInv
<1>7. FlowInv'
  <2>1. server' = "serving" => down' # <<>> /\ Tail(down') = <<>>
    BY <1>1, <1>2, <1>3 DEF R
  <2> QED
    BY <1>1, <2>1, FlowEmpty DEF FlowInv
<1> QED
  BY <1>5, <1>6, <1>7

(* The step preserves the invariant.                                        *)
LEMMA ConnectedInv == AssociationInv /\ Connected => AssociationInv'
<1> SUFFICES ASSUME AssociationInv, Connected PROVE AssociationInv'
  OBVIOUS
<1>1. /\ client = "waiting" /\ down # <<>> /\ down' = Tail(down)
      /\ client' \in {"connected", "failed"}
      /\ UNCHANGED <<server, up, asked, answered, heard, read>>
  BY DEF Connected
<1> QED
  BY <1>1 DEF AssociationInv, TypeOK, PhaseInv, FlowInv

(* The step preserves the invariant.                                        *)
LEMMA RefusedInv == AssociationInv /\ Refused => AssociationInv'
  BY DEF AssociationInv, TypeOK, PhaseInv, FlowInv, Refused

(* The step preserves the invariant.                                        *)
LEMMA RequestInv ==
  ASSUME NEW n \in PduLengths, AssociationInv, Request(n)
  PROVE  AssociationInv'
<1> USE DEF AssociationInv
<1>1. Wrap(Pdu(n)) \in DataFrames
  BY DEF DataFrames
<1>2. Flow(asked', up', heard')
  BY FlowSend DEF Request, TypeOK, PhaseInv, FlowInv
<1> QED
  BY <1>1, <1>2 DEF Request, TypeOK, PhaseInv, FlowInv

(* The step preserves the invariant.                                        *)
LEMMA ServeInv == AssociationInv /\ Serve => AssociationInv'
<1> SUFFICES ASSUME AssociationInv, Serve PROVE AssociationInv'
  OBVIOUS
<1> USE DEF AssociationInv
<1>1. Head(up) \in DataFrames /\ Unwrap(Head(up)) \in Readings
  BY DEF Serve, TypeOK, Readings
<1>2. Flow(asked', up', heard')
  BY FlowTake DEF Serve, TypeOK, FlowInv
<1> QED
  BY <1>1, <1>2 DEF Serve, TypeOK, PhaseInv, FlowInv

(* The step preserves the invariant.                                        *)
LEMMA RespondInv ==
  ASSUME NEW n \in PduLengths, AssociationInv, Respond(n)
  PROVE  AssociationInv'
<1> USE DEF AssociationInv
<1>1. Wrap(Pdu(n)) \in DataFrames
  BY DEF DataFrames
<1>2. client = "connected" => Flow(answered', down', read')
  BY FlowSend, DownIsData DEF Respond, TypeOK, PhaseInv, FlowInv
<1>3. client = "waiting" => down' # <<>> /\ Flow(answered', Tail(down'), read')
  <2> HAVE client = "waiting"
  <2>1. down # <<>> /\ Flow(answered, Tail(down), read)
    BY DEF FlowInv, Respond
  <2>2. Tail(down) \in Seq(DataFrames)
    <3>1. Tail(down) \in Seq({ConnectResponse} \union DataFrames)
      BY <2>1 DEF TypeOK
    <3> QED
      BY <2>1, <3>1, DownIsData DEF TypeOK
  <2>3. Tail(down') = Append(Tail(down), Wrap(Pdu(n))) /\ down' # <<>>
    BY <1>1, <2>1, SMTT(60) DEF Respond, TypeOK
  <2> QED
    BY <2>1, <2>2, <2>3, FlowSend DEF Respond, TypeOK
<1> QED
  BY <1>1, <1>2, <1>3 DEF Respond, TypeOK, PhaseInv, FlowInv

(* The step preserves the invariant.                                        *)
LEMMA ReadLoopInv == AssociationInv /\ ReadLoop => AssociationInv'
<1> SUFFICES ASSUME AssociationInv, ReadLoop PROVE AssociationInv'
  OBVIOUS
<1> USE DEF AssociationInv
<1>1. down \in Seq(DataFrames)
  BY DownIsData DEF ReadLoop, TypeOK, FlowInv
<1>2. Unwrap(Head(down)) \in Readings
  BY <1>1 DEF ReadLoop, Readings
<1>3. Flow(answered', down', read')
  BY <1>1, FlowTake DEF ReadLoop, TypeOK, FlowInv
<1> QED
  BY <1>1, <1>2, <1>3 DEF ReadLoop, TypeOK, PhaseInv, FlowInv

(* The inductive invariant holds of every behaviour: each side takes the   *)
(* frames of the other out in the order in which they were sent, each      *)
(* once, and the answer to the Connect comes before any of them, for every *)
(* number of PDUs and every password.                                      *)
THEOREM AssociationInvariance == Spec => []AssociationInv
<1>1. ASSUME AssociationInv, [Next]_vars PROVE AssociationInv'
  <2>1. CASE UNCHANGED vars
    BY <1>1, <2>1 DEF vars, AssociationInv, TypeOK, PhaseInv, FlowInv
  <2>2. CASE Next
    BY <1>1, <2>2, DialInv, HandshakeInv, ConnectedInv, RefusedInv, ServeInv,
       ReadLoopInv, RequestInv, RespondInv DEF Next
  <2> QED
    BY <1>1, <2>1, <2>2
<1> QED
  BY <1>1, InitInv, PTL DEF Spec

(* A PDU is a buffer of its length.                                        *)
LEMMA PduOctets ==
  ASSUME NEW n \in PduLengths
  PROVE  Pdu(n) \in Octets /\ Len(Pdu(n)) = n /\ n \in Nat /\ n <= 65535
<1>1. n \in Nat /\ n <= 65535
  BY AssociationAssumption
<1>2. \A k \in 1..n : k % 251 \in Octet
  BY <1>1 DEF Octet
<1> QED
  BY <1>1, <1>2 DEF Pdu, Octets

(* In a flow, what was taken is exact: the frames keep their order, and    *)
(* UnwrapWrap.                                                             *)
LEMMA FlowExact ==
  ASSUME NEW sent \in Seq(PduLengths), NEW flying \in Seq(DataFrames),
         NEW got \in Seq(Readings), Flow(sent, flying, got)
  PROVE  FrameExact(sent, got)
<1> SUFFICES ASSUME NEW k \in DOMAIN got
             PROVE  IF sent[k] <= LargestPdu THEN got[k].ok /\ got[k].val = Pdu(sent[k])
                    ELSE ~got[k].ok
  BY DEF FrameExact
<1>1. k \in 1..Len(got) /\ k \in 1..Len(sent) /\ sent[k] \in PduLengths
  BY DEF Flow
<1>2. got[k] = Unwrap(Wrap(Pdu(sent[k])))
  BY <1>1 DEF Flow
<1>3. /\ Pdu(sent[k]) \in Octets /\ Len(Pdu(sent[k])) = sent[k]
      /\ Len(Pdu(sent[k])) <= 65535
  BY <1>1, PduOctets
<1>4. ~Fail.ok
  BY DEF Fail
<1> QED
  BY <1>2, <1>3, <1>4, UnwrapWrap

(* What the server takes out of the client's frames, and the client out of *)
(* the server's, is what was put in, for every PDU length up to 65535 and  *)
(* any number of PDUs: a PDU that the two-octet lengths of the             *)
(* presentation layer cannot carry is refused, never misread.              *)
THEOREM PdusAreExact == Spec => []PdusExact
<1>1. AssociationInv => PdusExact
  <2> SUFFICES ASSUME AssociationInv PROVE PdusExact
    OBVIOUS
  <2> USE DEF AssociationInv
  <2>1. FrameExact(asked, heard)
    <3>1. CASE server = "waiting"
      BY <3>1 DEF PhaseInv, FrameExact
    <3>2. CASE server # "waiting"
      BY <3>2, FlowExact DEF TypeOK, FlowInv
    <3> QED
      BY <3>1, <3>2
  <2>2. FrameExact(answered, read)
    <3>1. CASE client # "connected"
      BY <3>1 DEF PhaseInv, FrameExact
    <3>2. CASE client = "connected"
      BY <3>2, DownIsData, FlowExact DEF TypeOK, FlowInv
    <3> QED
      BY <3>1, <3>2
  <2> QED
    BY <2>1, <2>2 DEF PdusExact
<1> QED
  BY <1>1, AssociationInvariance, PTL

-----------------------------------------------------------------------------
(* The requests and the answer of the module, as the lemmas of             *)
(* HandshakeProofs name them.                                              *)
LEMMA Handshakes ==
  /\ ConnectRequest = RequestOf(password) /\ ConnectRequest' = RequestOf(password')
  /\ ConnectResponse = AnswerOf(BuildAARE(EncodeInitiateResponse))
  /\ Agreement = Proposed
  BY DEF ConnectRequest, RequestOf, ConnectOf, ConnectResponse, AnswerOf, Agreement, Proposed

(* A password of the model is one that HandshakeProofs speaks of.          *)
LEMMA PasswordCarried ==
  ASSUME PasswordsCarried, password \in {NoPassword} \union {Pdu(n) : n \in PasswordLengths}
  PROVE  Carried(password)
<1>1. CASE password = NoPassword
  BY <1>1 DEF Carried
<1>2. CASE password # NoPassword
  <2>1. PICK n \in PasswordLengths : password = Pdu(n)
    BY <1>2
  <2>2. n \in Nat /\ n <= 65385
    BY AssociationAssumption DEF PasswordsCarried, LargestPassword
  <2>3. \A k \in 1..n : k % 251 \in Octet
    BY <2>2 DEF Octet
  <2>4. Pdu(n) \in Octets /\ Len(Pdu(n)) = n
    BY <2>2, <2>3 DEF Pdu, Octets
  <2> QED
    BY <2>1, <2>2, <2>4 DEF Carried
<1> QED
  BY <1>1, <1>2

(* What the server reads in the Connect: the proposal, when the CP PPDU    *)
(* fits the CN SPDU, and nothing otherwise.                                *)
LEMMA RequestIsRead ==
  ASSUME Carried(password)
  PROVE  LET initiate == Then(Then(ParseConnectSPDU(ConnectRequest), ParseConnectAcceptPDU),
                              ParseAARQ)
         IN /\ FitsSession => /\ initiate.ok
                              /\ ParseInitiateRequest(initiate.val) = Decoded(Agreement, 1)
            /\ ~FitsSession => initiate = Fail /\ ~initiate.ok
<1> DEFINE r == ServerFinds(RequestOf(password))
           d == Decoded(EncodeInitiateRequest, 1)
<1>1. FitsSession <=> Len(RequestOf(password)) <= 257
  BY Handshakes DEF FitsSession
<1>2. FitsSession => r = d
  BY <1>1, ServerReads
<1>3. ~FitsSession => r = Fail
  BY <1>1, ServerReads
<1>4. d.ok /\ d.val = EncodeInitiateRequest
  BY DecodedFields
<1>5. Then(Then(ParseConnectSPDU(ConnectRequest), ParseConnectAcceptPDU), ParseAARQ) = r
  BY Handshakes DEF ServerFinds
<1>6. ~Fail.ok
  BY DEF Fail
<1> HIDE DEF r, d
<1> QED
  BY <1>2, <1>3, <1>4, <1>5, <1>6, ServerReadsInitiate, Handshakes

(* What the client reads in the answer: the proposal.                      *)
LEMMA ResponseIsRead ==
  Then(Then(Then(ParseConnectResponseSPDU(ConnectResponse), ParseConnectAcceptPDU), ParseAARE),
       ParseInitiateResponse) = Decoded(Agreement, 1)
  BY Handshakes, ClientReads DEF ClientFinds

(* The initial states.                                                     *)
LEMMA InitAgreement == Init => AgreementInv
  BY DEF Init, AgreementInv

(* The Connect is what is in flight when the server has not answered.      *)
LEMMA DialAgreement == AssociationInv /\ AgreementInv /\ Dial => AgreementInv'
<1> SUFFICES ASSUME AssociationInv, AgreementInv, Dial PROVE AgreementInv'
  OBVIOUS
<1>1. server = "waiting" /\ up = <<>> /\ up' = <<ConnectRequest>> /\ client # "connected"
  BY DEF Dial, AssociationInv, PhaseInv
<1>2. ConnectRequest' = ConnectRequest
  BY Handshakes DEF Dial
<1> QED
  BY <1>1, <1>2 DEF Dial, AgreementInv

(* The server serves exactly the client whose Connect it could read.       *)
LEMMA HandshakeAgreement ==
  PasswordsCarried /\ AssociationInv /\ AgreementInv /\ Handshake => AgreementInv'
<1> SUFFICES ASSUME PasswordsCarried, AssociationInv, AgreementInv, Handshake
             PROVE  AgreementInv'
  OBVIOUS
<1> DEFINE R == ConnectResponse
           initiate == Then(Then(ParseConnectSPDU(Head(up)), ParseConnectAcceptPDU), ParseAARQ)
<1>1. /\ server = "waiting" /\ client = "waiting" /\ up = <<ConnectRequest>> /\ down = <<>>
      /\ UNCHANGED <<password, client, calling>>
  BY DEF Handshake, AssociationInv, PhaseInv, AgreementInv
<1>2. FitsSession' <=> FitsSession
  BY <1>1, Handshakes DEF FitsSession
<1>3. Carried(password)
  BY PasswordCarried DEF AgreementInv
<1>4. Head(up) = ConnectRequest
  BY <1>1
<1>5. /\ FitsSession => /\ initiate.ok
                        /\ ParseInitiateRequest(initiate.val) = Decoded(Agreement, 1)
      /\ ~FitsSession => initiate = Fail /\ ~initiate.ok
  <2> DEFINE q == Then(Then(ParseConnectSPDU(ConnectRequest), ParseConnectAcceptPDU), ParseAARQ)
  <2>1. initiate = q
    BY <1>4
  <2>2. /\ FitsSession => /\ q.ok /\ ParseInitiateRequest(q.val) = Decoded(Agreement, 1)
        /\ ~FitsSession => q = Fail /\ ~q.ok
    BY <1>3, RequestIsRead
  <2> HIDE DEF initiate, q
  <2> QED
    BY <2>1, <2>2
<1>6. IF initiate.ok
      THEN /\ server' = "serving" /\ called' = ParseInitiateRequest(initiate.val)
           /\ down' = Append(down, R)
      ELSE server' = "closed" /\ called' = initiate
  BY DEF Handshake
<1> HIDE DEF initiate
<1>7. CASE FitsSession
  <2>1. server' = "serving" /\ called' = Decoded(Agreement, 1) /\ down' = Append(down, R)
    BY <1>5, <1>6, <1>7
  <2>2. Head(down') = R
    <3> HIDE DEF R
    <3> QED
      BY <1>1, <2>1
  <2> QED
    BY <1>1, <1>2, <1>7, <2>1, <2>2 DEF AgreementInv, R
<1>8. CASE ~FitsSession
  <2>1. server' = "closed" /\ called' = Fail
    BY <1>5, <1>6, <1>8
  <2> QED
    BY <1>1, <1>2, <1>8, <2>1 DEF AgreementInv
<1> QED
  BY <1>7, <1>8

(* The client reads the answer, and what it reads is the proposal.         *)
LEMMA ConnectedAgreement ==
  AssociationInv /\ AgreementInv /\ Connected => AgreementInv'
<1> SUFFICES ASSUME AssociationInv, AgreementInv, Connected PROVE AgreementInv'
  OBVIOUS
<1>1. server = "serving" /\ client = "waiting" /\ UNCHANGED <<password, server, up, called>>
  BY DEF Connected, AssociationInv, TypeOK, PhaseInv
<1>2. Head(down) = ConnectResponse
  BY <1>1 DEF AgreementInv
<1>3. calling' = Decoded(Agreement, 1)
  <2>1. calling' = Then(Then(Then(ParseConnectResponseSPDU(Head(down)),
                                  ParseConnectAcceptPDU), ParseAARE), ParseInitiateResponse)
    BY DEF Connected
  <2> QED
    BY <1>2, <2>1, ResponseIsRead
<1>4. client' = "connected"
  <2>1. calling'.ok
    BY <1>3, DecodedFields
  <2> QED
    BY <2>1 DEF Connected
<1>5. FitsSession' <=> FitsSession
  BY <1>1, Handshakes DEF FitsSession
<1> QED
  BY <1>1, <1>3, <1>4, <1>5 DEF AgreementInv

(* The rest does not touch the handshake; a frame that is sent goes behind *)
(* the answer to the Connect.                                              *)
LEMMA OtherAgreement ==
  ASSUME AssociationInv, AgreementInv,
         UNCHANGED vars \/ Refused \/ Serve \/ ReadLoop
           \/ \E n \in PduLengths : Request(n) \/ Respond(n)
  PROVE  AgreementInv'
<1>1. /\ UNCHANGED <<password, server, called, calling>>
      /\ client' = client \/ (client = "waiting" /\ client' = "failed")
  BY DEF vars, Refused, Serve, ReadLoop, Request, Respond
<1>2. (FitsSession' <=> FitsSession) /\ ConnectRequest' = ConnectRequest
  BY <1>1, Handshakes DEF FitsSession
<1>3. server = "waiting" /\ client' = "waiting" => up' = up
  BY DEF vars, Refused, Serve, ReadLoop, Request, Respond
<1>4. client' = "waiting" /\ server = "serving" => Head(down') = Head(down)
  <2> SUFFICES ASSUME client' = "waiting", server = "serving" PROVE Head(down') = Head(down)
    OBVIOUS
  <2>1. client = "waiting"
    BY <1>1
  <2>2. down # <<>> /\ down \in Seq({ConnectResponse} \union DataFrames)
    BY <2>1 DEF AssociationInv, FlowInv, TypeOK
  <2>3. CASE \E n \in PduLengths : Respond(n)
    <3>1. PICK n \in PduLengths : Respond(n)
      BY <2>3
    <3> DEFINE w == Wrap(Pdu(n))
               S == {ConnectResponse} \union DataFrames
    <3>2. down' = Append(down, w)
      BY <3>1 DEF Respond
    <3> HIDE DEF w, S
    <3>3. Head(Append(down, w)) = Head(down)
      BY <2>2 DEF S
    <3> QED
      BY <3>2, <3>3
  <2>4. CASE down' = down
    BY <2>4
  <2>5. CASE ReadLoop
    BY <2>1, <2>5 DEF ReadLoop
  <2> QED
    BY <2>3, <2>4, <2>5 DEF vars, Refused, Serve, Request
<1> QED
  BY <1>1, <1>2, <1>3, <1>4 DEF AgreementInv

(* What each side has read in the handshake is invariant.                  *)
THEOREM AgreementInvariance == PasswordsCarried => (Spec => []AgreementInv)
<1> SUFFICES ASSUME PasswordsCarried PROVE Spec => []AgreementInv
  OBVIOUS
<1>1. ASSUME AssociationInv, AgreementInv, [Next]_vars PROVE AgreementInv'
  <2>1. CASE Dial
    BY <1>1, <2>1, DialAgreement
  <2>2. CASE Handshake
    BY <1>1, <2>2, HandshakeAgreement
  <2>3. CASE Connected
    BY <1>1, <2>3, ConnectedAgreement
  <2>4. CASE ~(Dial \/ Handshake \/ Connected)
    BY <1>1, <2>4, OtherAgreement DEF Next
  <2> QED
    BY <2>1, <2>2, <2>3, <2>4
<1> QED
  BY <1>1, InitAgreement, AssociationInvariance, PTL DEF Spec

(* An association is set up only with what was proposed: through the four  *)
(* layers of framing each side reads the Initiate parameters the other has *)
(* encoded, and the server serves exactly the clients whose CP PPDU fits   *)
(* the CN SPDU: a request whose length octet wraps is refused, never       *)
(* misread.                                                                *)
THEOREM SidesAgree == PasswordsCarried => (Spec => []Agreed)
<1> SUFFICES ASSUME PasswordsCarried PROVE Spec => []Agreed
  OBVIOUS
<1>1. AssociationInv /\ AgreementInv => Agreed
  BY DecodedFields DEF AssociationInv, PhaseInv, AgreementInv, Agreed
<1> QED
  BY <1>1, AssociationInvariance, AgreementInvariance, PTL

(* What is taken out of a frame of the data phase is no slice past its end.*)
LEMMA FlowSafe ==
  ASSUME NEW sent \in Seq(PduLengths), NEW flying, NEW got \in Seq(Readings),
         Len(flying) \in Nat, Flow(sent, flying, got)
  PROVE  \A k \in DOMAIN got : ~got[k].ok => ~got[k].panic
<1> SUFFICES ASSUME NEW k \in DOMAIN got, ~got[k].ok PROVE ~got[k].panic
  OBVIOUS
<1>1. k \in 1..Len(got) /\ k \in 1..Len(sent) /\ sent[k] \in PduLengths
  BY DEF Flow
<1>2. got[k] = Unwrap(Wrap(Pdu(sent[k])))
  BY <1>1 DEF Flow
<1>3. Pdu(sent[k]) \in Octets /\ Len(Pdu(sent[k])) <= 65535
  BY <1>1, PduOctets
<1>4. got[k] = Fail
  BY <1>2, <1>3, UnwrapWrap
<1> QED
  BY <1>4 DEF Fail

(* No side slices past the end of a buffer while it takes a frame of the   *)
(* other apart: not the CN SPDU whose length octet has wrapped, and not    *)
(* the data frame whose presentation length has.                           *)
THEOREM NothingPanics == PasswordsCarried => (Spec => []NoSlicePanic)
<1> SUFFICES ASSUME PasswordsCarried PROVE Spec => []NoSlicePanic
  OBVIOUS
<1>1. AssociationInv /\ AgreementInv => NoSlicePanic
  <2> SUFFICES ASSUME AssociationInv, AgreementInv PROVE NoSlicePanic
    OBVIOUS
  <2> USE DEF AssociationInv
  <2>1. \A k \in DOMAIN heard : ~heard[k].ok => ~heard[k].panic
    <3>1. CASE server = "waiting"
      BY <3>1 DEF PhaseInv
    <3>2. CASE server # "waiting"
      BY <3>2, FlowSafe, SMTT(60) DEF TypeOK, FlowInv
    <3> QED
      BY <3>1, <3>2
  <2>2. \A k \in DOMAIN read : ~read[k].ok => ~read[k].panic
    <3>1. CASE client # "connected"
      BY <3>1 DEF PhaseInv
    <3>2. CASE client = "connected"
      BY <3>2, FlowSafe DEF TypeOK, FlowInv
    <3> QED
      BY <3>1, <3>2
  <2>3. called = Fail \/ called = Decoded(Agreement, 1)
    BY DEF TypeOK, AgreementInv
  <2>4. calling = Fail \/ calling = Decoded(Agreement, 1)
    BY DEF AgreementInv
  <2>5. ~Fail.panic /\ Decoded(Agreement, 1).ok
    BY DecodedFields DEF Fail
  <2> QED
    BY <2>1, <2>2, <2>3, <2>4, <2>5 DEF NoSlicePanic
<1> QED
  BY <1>1, AssociationInvariance, AgreementInvariance, PTL
=============================================================================
