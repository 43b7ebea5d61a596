----------------------------- MODULE ReportCodec -----------------------------
(***************************************************************************)
(* Reports on the wire and report control blocks on the client's side:     *)
(* BuildInformationReport of pkg/mms/server_pdu.go, the report parser and  *)
(* the RCB conversions of pkg/iec61850/client.                             *)
(*                                                                         *)
(* A report is a list of values without names.  What a value is follows    *)
(* from the optional fields announced in the second one, so a builder and  *)
(* a parser that disagree about their order take one for the other.        *)
(***************************************************************************)
EXTENDS IedModel

(* nil, for a value.                                                       *)
Unset == [typ |-> "unset"]

BitsOf(v) == IF v.typ = "bitString" THEN v.v ELSE <<>>
FlagsIn(octet, weights) == {f \in DOMAIN weights : (octet \div weights[f]) % 2 = 1}
-----------------------------------------------------------------------------
(* The server's side.                                                      *)

(* The octets of OptFlds as optFldBit reads them; a missing octet has no   *)
(* flag.                                                                   *)
optFldBits(octets) ==
  (IF Len(octets) > 0 THEN FlagsIn(octets[1], OptFldsWeights) ELSE {})
    \union (IF Len(octets) > 1 THEN FlagsIn(octets[2], ConfRevWeight) ELSE {})

encodeBitStringValue(octets, n) ==
  NewBitString(octets, 8 * Len(octets) - (IF n > 0 THEN (8 - (n % 8)) % 8 ELSE 0))

(* All members are included: every report is built as a GI.  The bits of   *)
(* the last octet are set from the wrong end.                              *)
MutMakeInclusionField(n) ==
  IF n = 0 THEN <<0>>
  ELSE LET octets == (n + 7) \div 8
       IN [k \in 1..octets |-> IF k < octets THEN 255 ELSE 2^(n - 8 * (octets - 1)) - 1]

makeInclusionField(n) ==
  IF n = 0 THEN <<0>>
  ELSE LET octets == (n + 7) \div 8
       IN [k \in 1..octets |-> IF k < octets THEN 255 ELSE 256 - 2^(8 * octets - n)]

(* Seconds since 1970 in milliseconds of the day and days since 1984.      *)
utcTimeToBinaryTime6(seconds) ==
  Atom("binaryTime", [milliseconds |-> 1000 * (seconds % 86400), size |-> 6,
                      days |-> Max({0, (seconds \div 86400) - 5113}) % 65536])

BuildInformationReport(p) ==
  LET has == optFldBits(p.optFlds)
      n == Len(p.values)
      opt(flag, vs) == IF flag \in has THEN vs ELSE <<>>
      octets == IF p.optFlds = <<>> THEN <<0, 0>> ELSE p.optFlds
      list == <<Atom("visibleString", p.rptID), encodeBitStringValue(octets, 10)>>
              \o opt("seqNum", <<NewUnsigned(p.sqNum)>>)
              \o opt("timeStamp", <<utcTimeToBinaryTime6(p.seconds)>>)
              \o opt("dataSet", <<Atom("visibleString", p.datSet)>>)
              \o opt("bufferOverflow", <<NewBoolean(FALSE)>>)
              \o opt("entryID", <<Atom("octetString", Zeros(8))>>)
              \o opt("confRev", <<NewUnsigned(p.confRev)>>)
              \o <<encodeBitStringValue(makeInclusionField(n), n)>>
              \o opt("dataReference", [k \in 1..n |-> Atom("visibleString", p.refs[k])])
              \o p.values
              \o opt("reasonForInclusion", [k \in 1..n |-> NewBitString(<<4>>, 6)])
  IN Node(163, <<Con(0, <<Con(1, <<Prim(0, "RPT")>>),
                          Con(0, [k \in DOMAIN list |-> Data(list[k])])>>)>>)
-----------------------------------------------------------------------------
(* The client's side: control blocks.                                      *)
trgOpsToMMS(t) == NewBitString(<<Mask(t, TrgOpsWeights)>>, 6)
trgOpsFromMMS(octets) == IF octets = <<>> THEN {} ELSE FlagsIn(octets[1], TrgOpsWeights)

(* confRev is put into the first octet.                                    *)
MutOptFldsToMMS(o) == NewBitString(<<Mask(o, OptFldsWeights) + Mask(o, ConfRevWeight), 0>>, 10)

optFldsToMMS(o) == NewBitString(<<Mask(o, OptFldsWeights), Mask(o, ConfRevWeight)>>, 10)

optFldsFromMMS(octets) == optFldBits(octets)

ReportControlBlock ==
  [buffered |-> FALSE, RptID |-> <<>>, RptEna |-> FALSE, Resv |-> FALSE, DatSet |-> <<>>,
   ConfRev |-> 0, OptFlds |-> {}, BufTm |-> 0, SqNum |-> 0, TrgOps |-> {}, IntgPd |-> 0,
   GI |-> FALSE, PurgeBuf |-> FALSE]

(* The fields of a control block that was read, in the order of an         *)
(* unbuffered one; a value of another type than the field's is passed      *)
(* over.                                                                   *)
Numbers == {"unsigned", "integer"}
RCBOrder == <<"RptID", "RptEna", "Resv", "DatSet", "ConfRev", "OptFlds", "BufTm", "SqNum",
              "TrgOps", "IntgPd", "GI">>
TypesOf(field) ==
  CASE field \in {"RptID", "DatSet"} -> {"visibleString"}
    [] field \in {"RptEna", "Resv", "GI", "PurgeBuf"} -> {"boolean"}
    [] field \in {"OptFlds", "TrgOps"} -> {"bitString"}
    [] OTHER -> Numbers

parseRCBValue(buffered, v) ==
  LET at(f) == {k \in DOMAIN RCBOrder :
                  f = IF k = 11 /\ buffered THEN "PurgeBuf" ELSE RCBOrder[k]}
      elem(f) == v.v[Min(at(f))]
      given(f) == /\ at(f) # {} /\ Min(at(f)) <= Len(v.v)
                  /\ elem(f).typ \in TypesOf(f)
      of(f) == CASE f = "OptFlds" -> optFldsFromMMS(elem(f).v)
                 [] f = "TrgOps" -> trgOpsFromMMS(elem(f).v)
                 [] OTHER -> elem(f).v
      rcb == [ReportControlBlock EXCEPT !.buffered = buffered]
  IN IF v.typ # "structure" THEN rcb
     ELSE [f \in DOMAIN rcb |-> IF given(f) THEN of(f) ELSE rcb[f]]

(* SetRCBValues writes the chosen attributes in this order, RptEna last;   *)
(* enabling an unbuffered control block writes Resv first.                 *)
SetOrder == <<"Resv", "RptID", "DatSet", "OptFlds", "BufTm", "TrgOps", "IntgPd", "GI",
              "PurgeBuf", "RptEna">>

Attrs(rcb, elements) ==
  SelectSeq(SetOrder, LAMBDA e :
    e \in elements \/ (e = "Resv" /\ ~rcb.buffered /\ "RptEna" \in elements /\ rcb.RptEna))

AttrValue(rcb, e) ==
  CASE e = "OptFlds" -> optFldsToMMS(rcb.OptFlds)
    [] e = "TrgOps" -> trgOpsToMMS(rcb.TrgOps)
    [] e \in {"RptID", "DatSet"} -> Atom("visibleString", rcb[e])
    [] e \in {"BufTm", "IntgPd"} -> NewUnsigned(rcb[e])
    [] OTHER -> NewBoolean(rcb[e])
-----------------------------------------------------------------------------
(* The client's side: reports.                                             *)
decodeReasonBits(octets) ==
  LET weight == <<64, 32, 16, 8, 4, 2>>
      name == <<"dataChange", "qualityChange", "dataUpdate", "integrity", "GI",
                "applicationTrigger">>
      set == IF octets = <<>> THEN {}
             ELSE {k \in DOMAIN weight : (octets[1] \div weight[k]) % 2 = 1}
  IN IF set = {} THEN "notIncluded" ELSE name[Min(set)]

ParseUnconfirmedPDU(pdu) == IF pdu.t # 163 THEN Fail ELSE Decoded(pdu.c[1].c, 1)

(* One optional value at position i: taken if it is announced and of one   *)
(* of the types, stepped over, unless strict, if it is of another.         *)
Take(list, i, announced, typs, strict) ==
  IF ~announced \/ i > Len(list) THEN [pos |-> i, val |-> Unset]
  ELSE IF ~FromData(list[i]).ok THEN [pos |-> i, val |-> Unset]
  ELSE IF list[i].c.typ \in typs THEN [pos |-> i + 1, val |-> list[i].c]
  ELSE [pos |-> IF strict THEN i ELSE i + 1, val |-> Unset]

Included(octets, k) ==
  (k - 1) \div 8 < Len(octets) /\ (octets[((k - 1) \div 8) + 1] \div 2^(7 - ((k - 1) % 8))) % 2 = 1

(* The members from slot k on, read from position i: each with its         *)
(* reference before and its reason after it.  A value that cannot be       *)
(* decoded ends the list.                                                  *)
RECURSIVE Slots(_, _, _, _, _)
Slots(list, inclusion, opts, i, k) ==
  LET ref == Take(list, i, "dataReference" \in opts, {"visibleString"}, TRUE)
      here == ref.pos <= Len(list)
      reason == Take(list, ref.pos + 1, "reasonForInclusion" \in opts, {"bitString"}, TRUE)
      rest(pos) == Slots(list, inclusion, opts, pos, k + 1)
      slot(v, r) == <<[val |-> v, reason |-> r]>>
  IN CASE k > inclusion.size -> <<>>
       [] k <= inclusion.size /\ ~Included(inclusion.v, k) ->
            slot(Unset, "notIncluded") \o rest(i)
       [] k <= inclusion.size /\ Included(inclusion.v, k) /\ ~here ->
            slot(Unset, "notIncluded") \o rest(ref.pos)
       [] OTHER -> IF ~FromData(list[ref.pos]).ok THEN <<>>
                   ELSE slot(list[ref.pos].c, decodeReasonBits(BitsOf(reason.val)))
                        \o rest(reason.pos)

AnyType == DOMAIN TagOf

parseReportAccessResults(list) ==
  LET optFlds == Take(list, 2, TRUE, {"bitString"}, TRUE)
      opts == optFldsFromMMS(BitsOf(optFlds.val))
      seqNum == Take(list, optFlds.pos, "seqNum" \in opts, Numbers, FALSE)
      time == Take(list, seqNum.pos, "timeStamp" \in opts, AnyType, FALSE)
      dataSet == Take(list, time.pos, "dataSet" \in opts, {"visibleString"}, TRUE)
      overflow == Take(list, dataSet.pos, "bufferOverflow" \in opts, {"boolean"}, FALSE)
      confRev == Take(list, overflow.pos, "confRev" \in opts, Numbers, FALSE)
      found == Take(list, confRev.pos, TRUE, {"bitString"}, TRUE)
      inclusion == IF found.val = Unset THEN NewBitString(<<>>, 0) ELSE found.val
  IN IF ~FromData(list[1]).ok THEN Fail
     ELSE Decoded([reportID |-> list[1].c.v, sequenceNumber |-> seqNum.val,
                   hasTimestamp |-> time.val # Unset, rcbReference |-> dataSet.val,
                   bufferOverflow |-> overflow.val, confRev |-> confRev.val,
                   slots |-> Slots(list, inclusion, opts, found.pos, 1)], 1)

(* dispatchInformationReport up to the handler: the list is the last       *)
(* constructed element with tag 0.                                         *)
parseInformationReport(pdu) ==
  Then(ParseUnconfirmedPDU(pdu), LAMBDA content :
    LET lists == SelectSeq(content, LAMBDA e : e.t = 160)
    IN IF lists = <<>> THEN Fail ELSE parseReportAccessResults(lists[Len(lists)].c))
=============================================================================
