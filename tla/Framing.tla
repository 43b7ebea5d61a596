------------------------------ MODULE Framing ------------------------------
(***************************************************************************)
(* The layers between COTP and MMS: ISO session (pkg/isosession), ISO      *)
(* presentation (pkg/isopresentation) and ACSE (pkg/acse and its server    *)
(* half in pkg/mms), and the MMS Initiate PDUs that ride in them.          *)
(*                                                                         *)
(* Each Build... and Wrap... operator takes and returns octets; each       *)
(* Parse... and Unwrap... operator returns Fail where the code returns an  *)
(* error, Panic where it slices past the end of its buffer, and a record   *)
(* with the payload in val otherwise.                                      *)
(***************************************************************************)
EXTENDS Ber

(* ISO session: CN and AC SPDUs with one-octet lengths, and data SPDUs.    *)
SPDUConnect == 13
SPDUAccept == 14

ConnectAcceptItem == <<5, 6, 19, 1, 0, 22, 1, 2>>
SessionRequirement == <<20, 2, 0, 2>>
Selector(pi) == <<pi, 2, 0, 1>>

Spdu(type, params, pdu) ==
  With(pdu, LAMBDA p :
    <<type, (Len(params) + 2 + Len(p)) % 256>> \o params
      \o <<193, Len(p) % 256>> \o p)

BuildConnectSPDU(pdu) ==
  Spdu(SPDUConnect,
       ConnectAcceptItem \o SessionRequirement \o Selector(51) \o Selector(52), pdu)

BuildAcceptSPDU(pdu) ==
  Spdu(SPDUAccept, ConnectAcceptItem \o SessionRequirement \o Selector(52), pdu)

(* The octets after PGI C1: up to its length, or to the end of the SPDU.   *)
extractUserData(params) ==
  LET at[i \in Nat] ==
        IF i + 1 > Len(params) THEN Fail
        ELSE LET n == params[i + 1]
                 left == Len(params) - (i + 1)
             IN IF params[i] = 193
                THEN Slice(params, i + 2, IF n > left THEN left ELSE n)
                ELSE at[i + 2 + n]
  IN at[1]

(* The length of the SPDU is not compared with the buffer, and the user    *)
(* data is taken to run to its end.                                        *)
MutParseSPDU(type, buf) ==
  IF Len(buf) < 2 \/ buf[1] # type THEN Fail
  ELSE With(SubSeq(buf, 3, Len(buf)), LAMBDA p :
         LET c1 == CHOOSE i \in DOMAIN p : p[i] = 193 IN Slice(p, c1 + 2, Len(p) - c1 - 1))

ParseSPDU(type, buf) ==
  IF Len(buf) < 2 \/ buf[1] # type \/ Len(buf) < 2 + buf[2] THEN Fail
  ELSE With(SubSeq(buf, 3, 2 + buf[2]), extractUserData)

ParseConnectSPDU(buf) == ParseSPDU(SPDUConnect, buf)
ParseConnectResponseSPDU(buf) == ParseSPDU(SPDUAccept, buf)

dataSPDUHeader == <<1, 0, 1, 0>>
WrapDataSPDU(payload) == dataSPDUHeader \o payload
UnwrapDataSPDU(buf) ==
  IF Len(buf) < 4 \/ SubSeq(buf, 1, 4) # dataSPDUHeader THEN Fail
  ELSE Slice(buf, 5, Len(buf) - 4)

(* ISO presentation: lengths of at most two octets are written, of at most *)
(* three are read.                                                         *)
(* The one-octet form reaches one too far.                                 *)
MutEncodeLength(length) ==
  CASE length < 128 -> <<length>>
    [] length \in 128..256 -> <<129, length % 256>>
    [] OTHER -> <<130, (length \div 256) % 256, length % 256>>

encodeLength(length) ==
  CASE length < 128 -> <<length>>
    [] length \in 128..255 -> <<129, length>>
    [] OTHER -> <<130, (length \div 256) % 256, length % 256>>

decodeLength(buf, i) == LengthAmong(1..3, buf, i)

Block(tag, body) ==
  With(body, LAMBDA b : <<tag>> \o encodeLength(Len(b)) \o b)

buildFullyEncodedData(payload, contextID) ==
  Block(97, Block(48, <<2, 1, contextID>> \o Block(160, payload)))

oidACE == <<82, 1, 0, 1>>
oidMMS == <<40, 202, 34, 2, 1>>
oidBER == <<81, 1>>

buildPCDLItem(contextID, oid) ==
  Block(48, <<2, 1, contextID>> \o Block(6, oid) \o Block(48, Block(6, oidBER)))

buildPCDL == Block(164, buildPCDLItem(1, oidACE) \o buildPCDLItem(3, oidMMS))

PresentationSelector(tag) == <<tag, 4, 0, 0, 0, 1>>
ModeSelector == <<160, 3, 128, 1, 1>>

BuildConnectPDU(acsePDU) ==
  Block(49, ModeSelector \o
    Block(162, PresentationSelector(129) \o PresentationSelector(130)
               \o buildPCDL \o buildFullyEncodedData(acsePDU, 1)))

BuildConnectAcceptPDU(acsePDU) ==
  LET acceptItem == <<48, 7, 128, 1, 0, 129, 2, 81, 1>>
  IN Block(49, ModeSelector \o
       Block(162, PresentationSelector(131) \o <<165, 18>> \o acceptItem
                  \o acceptItem \o buildFullyEncodedData(acsePDU, 1)))

(* The first element tagged wanted among those from i to before end: its   *)
(* length, and its place.                                                  *)
Find(counts, buf, i, end, wanted) ==
  LET at[j \in Nat] ==
        IF j >= end THEN Fail
        ELSE LET l == LengthAmong(counts, buf, j + 1) IN
             CASE ~l.ok -> Fail
               [] l.ok /\ buf[j] = wanted -> l
               [] OTHER -> at[l.pos + l.val]
  IN at[i]

Cut(buf, found) ==
  With(found, LAMBDA f : IF f.ok THEN Slice(buf, f.pos, f.val) ELSE f)

parseFullyEncodedData(buf) ==
  IF buf = <<>> \/ Head(buf) # 48 THEN Fail
  ELSE LET seq == decodeLength(buf, 2) IN
       IF ~seq.ok THEN Fail
       ELSE LET f == Find(1..3, buf, seq.pos,
                          Min({seq.pos + seq.val, Len(buf) + 1}), 160)
            IN Cut(buf, IF f.ok /\ f.pos + f.val > Len(buf) + 1 THEN Fail ELSE f)

parseNormalModeParameters(buf) ==
  Then(Cut(buf, Find(1..3, buf, 1, Len(buf) + 1, 97)), parseFullyEncodedData)

(* The end of the PPDU is not compared with the end of the buffer.         *)
MutParseConnectAcceptPDU(buf) ==
  IF buf = <<>> \/ Head(buf) # 49 THEN Fail
  ELSE LET l == decodeLength(buf, 2) IN
       IF ~l.ok THEN Fail
       ELSE Then(Cut(buf, Find(1..3, buf, l.pos, l.pos + l.val, 162)),
                 parseNormalModeParameters)

(* Used for both the CP and the CPA PPDU.                                  *)
ParseConnectAcceptPDU(buf) ==
  IF buf = <<>> \/ Head(buf) # 49 THEN Fail
  ELSE LET l == decodeLength(buf, 2) IN
       IF ~l.ok \/ l.pos + l.val > Len(buf) + 1 THEN Fail
       ELSE Then(Cut(buf, Find(1..3, buf, l.pos, l.pos + l.val, 162)),
                 parseNormalModeParameters)

WrapUserData(mmsPDU) == buildFullyEncodedData(mmsPDU, 3)

UnwrapUserData(buf) ==
  IF Len(buf) < 2 \/ Head(buf) # 97 THEN Fail
  ELSE LET l == decodeLength(buf, 2) IN
       IF ~l.ok \/ l.pos + l.val > Len(buf) + 1 THEN Fail
       ELSE Then(Slice(buf, l.pos, l.val), parseFullyEncodedData)

(* ACSE.  The octets of a TLV whose tag octet is given.                    *)
Tagged(tag, body) ==
  With(body, LAMBDA b : <<tag>> \o EncodeLength(Len(b)) \o b)

appContextNameMMS == <<161, 7, 6, 5, 40, 202, 34, 2, 3>>

buildUserInfo(mmsData) == Tagged(40, <<2, 1, 3>> \o Tagged(160, mmsData))

(* The length octet of a password wraps at 256.                            *)
PasswordFields(password) ==
  <<138, 2, 4, 128, 139, 3, 82, 3, 1>>
    \o Tagged(172, <<128, Len(password) % 256>> \o password)

NoPassword == <<-1>>

BuildAARQ(password, mmsInitiate) ==
  Tagged(96, appContextNameMMS
             \o (IF password = NoPassword THEN <<>> ELSE PasswordFields(password))
             \o Tagged(190, buildUserInfo(mmsInitiate)))

BuildAARE(mmsResponse) ==
  Tagged(97, appContextNameMMS \o <<162, 3, 2, 1, 0>> \o <<163, 5, 161, 3, 2, 1, 0>>
             \o Tagged(190, buildUserInfo(mmsResponse)))

(* The server's side: the first [30] of the AARQ, and in it the first [0], *)
(* inside an EXTERNAL or not.                                              *)
extractMmsFromUserInfo[buf \in Seq(0..255)] ==
  LET tlvs == TLVsOf(buf)
      hits == {k \in DOMAIN tlvs :
                 \/ tlvs[k].class = Context /\ tlvs[k].tag = 0
                 \/ tlvs[k].class = Universal /\ tlvs[k].constructed /\ tlvs[k].tag = 8}
  IN IF hits = {} THEN Fail
     ELSE LET t == tlvs[Min(hits)]
          IN IF t.class = Context THEN Decoded(t.value, 1)
             ELSE extractMmsFromUserInfo[t.value]

ParseAARQ(buf) ==
  IF Len(buf) < 2 \/ Head(buf) # 96 THEN Fail
  ELSE
    Then(Cut(buf, DecodeLength(buf, 2)), LAMBDA body :
      With(TLVsOf(body), LAMBDA tlvs :
        LET info == {k \in DOMAIN tlvs : tlvs[k].class = Context /\ tlvs[k].tag = 30}
        IN IF info = {} THEN Fail
           ELSE extractMmsFromUserInfo[tlvs[Min(info)].value]))

(* The client's side: every element of the AARE is visited.                *)
Elements(buf, i, end) ==
  LET from[j \in Nat] ==
        IF j >= end THEN <<>>
        ELSE LET l == LengthAmong(0..3, buf, j + 1)
             IN IF ~l.ok THEN <<Fail>>
                ELSE <<[ok |-> TRUE, tag |-> buf[j], pos |-> l.pos, val |-> l.val]>>
                       \o from[l.pos + l.val]
  IN from[i]

scanForSingleASN1(buf) == Cut(buf, Find(0..3, buf, 1, Len(buf) + 1, 160))

parseUserInfo(buf) ==
  IF buf = <<>> THEN Fail
  ELSE IF Head(buf) # 40 THEN scanForSingleASN1(buf)
  ELSE Then(Cut(buf, LengthAmong(0..3, buf, 2)), scanForSingleASN1)

ParseAARE(buf) ==
  IF Len(buf) < 2 \/ Head(buf) # 97 THEN Fail
  ELSE
    LET l == LengthAmong(0..3, buf, 2) IN
    IF ~l.ok \/ l.pos + l.val > Len(buf) + 1 THEN Fail
    ELSE
      LET els == Elements(buf, l.pos, l.pos + l.val)
          withTag(tag) == {k \in DOMAIN els : els[k].ok /\ els[k].tag = tag}
          results == {k \in withTag(162) : els[k].val >= 3 /\ buf[els[k].pos] = 2}
          result == IF results = {} THEN 99 ELSE buf[els[Max(results)].pos + 2]
          info(k) == Then(Cut(buf, els[k]), parseUserInfo)
      IN CASE \E k \in DOMAIN els : ~els[k].ok -> Fail
           [] \E k \in withTag(190) : ~info(k).ok -> Fail
           [] result # 0 \/ withTag(190) = {} -> Fail
           [] OTHER -> info(Max(withTag(190)))

(* MMS Initiate: the same body under the request's and the response's tag. *)
InitiateRequest == 168
InitiateResponse == 169

Initiate(tag) ==
  LET int(n, v) == EncodeTLV(Context, FALSE, n, encodeIntegerBytes(v))
      services == <<3, 238, 28, 0, 0, 4, 8, 0, 0, 121, 239, 24>>
  IN Tagged(tag, int(0, 65000) \o int(1, 5) \o int(2, 5) \o int(3, 10)
       \o EncodeTLV(Context, TRUE, 4,
            int(0, 1) \o EncodeTLV(Context, FALSE, 1, <<5, 241, 0>>)
                      \o EncodeTLV(Context, FALSE, 2, services)))

EncodeInitiateRequest == Initiate(InitiateRequest)
EncodeInitiateResponse == Initiate(InitiateResponse)

(* localDetail and maxServOutstanding: the last [0] and [1] of the body.   *)
ParseInitiate(tag, buf) ==
  IF Len(buf) < 2 \/ Head(buf) # tag THEN Fail
  ELSE
    LET l == DecodeLength(buf, 2) IN
    IF ~l.ok \/ l.pos + l.val > Len(buf) + 1 THEN Fail
    ELSE With(TLVsOf(SubSeq(buf, l.pos, l.pos + l.val - 1)), LAMBDA tlvs :
           LET at(n) == {k \in DOMAIN tlvs : tlvs[k].class = Context /\ tlvs[k].tag = n}
               int(n) == IF at(n) = {} THEN 0
                         ELSE LET v == DecodeInteger(tlvs[Max(at(n))].value)
                              IN IF v.ok THEN v.val ELSE 0
           IN Decoded([localDetail |-> int(0), maxOutstanding |-> int(1)], 1))

ParseInitiateRequest(buf) == ParseInitiate(InitiateRequest, buf)

ParseInitiateResponse(buf) == ParseInitiate(InitiateResponse, buf)
=============================================================================
