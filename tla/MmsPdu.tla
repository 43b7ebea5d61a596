------------------------------- MODULE MmsPdu -------------------------------
(***************************************************************************)
(* The confirmed MMS services on the wire: the builders and parsers of     *)
(* pkg/mms/pdu.go and pkg/mms/server_pdu.go.                               *)
(*                                                                         *)
(* A PDU is a tree of tags.  A node has its tag octet t and its content c: *)
(* a sequence of nodes when constructed, else a number, a name or a value  *)
(* that stands for its octets (module Ber is about those).  Every parser   *)
(* goes by the tags it finds, as the code does, so a builder and a parser  *)
(* that disagree about a tag disagree here.  A PDU that is not well formed *)
(* at the level of octets is left to Ber and Framing.                      *)
(***************************************************************************)
EXTENDS MmsValue

Node(t, c) == [t |-> t, c |-> c]
Prim(n, c) == Node(Context + n, c)
Con(n, c) == Node(Context + Constructed + n, c)
VisibleString(name) == Node(26, name)
Sequence(c) == Node(48, c)

IsContext(node) == node.t - (node.t % 64) = Context
TagNumber(node) == node.t % 32

(* The content of the last node with context tag n, or none.               *)
LastOf(nodes, n, none) ==
  LET at == {k \in DOMAIN nodes : IsContext(nodes[k]) /\ TagNumber(nodes[k]) = n}
  IN IF at = {} THEN none ELSE nodes[Max(at)].c

(* A domain is the sequence of the names it is put together from (IED and  *)
(* logical device), an item its parts and the character between them.  The *)
(* empty ones stand for what a PDU does not carry.                         *)
NoItem == [sep |-> "", parts |-> <<>>]
Spec0 == [domain |-> <<>>, item |-> NoItem]

(* A value has the tag of its type and comes out as OnTheWire says; the    *)
(* DataAccessError tag is unknown to DecodeValue.                          *)
Data(v) == Node(TagOf[v.typ], OnTheWire(v))
FromData(node) == IF node.t = TagOf.dataAccessError THEN Fail ELSE Decoded(node.c, 1)
-----------------------------------------------------------------------------
(* Requests                                                                *)

encodeContextImplicit(svc, c) == Con(svc, c)
encodeConfirmedRequest(id, svc) == Node(160, <<Node(2, id), svc>>)

Confirmed(t, pdu) ==
  IF pdu.t # t THEN Fail
  ELSE Decoded([id |-> pdu.c[1].c, svc |-> TagNumber(pdu.c[2]), content |-> pdu.c[2].c], 1)

ParseConfirmedRequest(pdu) == Confirmed(160, pdu)

encodeVariableSpec(s) ==
  Sequence(<<Con(0, <<Con(1, <<VisibleString(s.domain), VisibleString(s.item)>>)>>)>>)

(* Of the strings of a domain-specific name the first is the domain and    *)
(* the last the item.                                                      *)
DomainSpecific(nodes) ==
  LET strings == SelectSeq(nodes, LAMBDA e : e.t = 26)
  IN [domain |-> IF strings = <<>> THEN <<>> ELSE strings[1].c,
      item |-> IF Len(strings) < 2 THEN NoItem ELSE strings[Len(strings)].c]

parseVariableSpec(content) ==
  LET tlv == IF content[1].t = 160 THEN content[1].c[1] ELSE content[1]
  IN CASE ~IsContext(tlv) \/ TagNumber(tlv) \notin 0..2 -> Spec0
       [] IsContext(tlv) /\ TagNumber(tlv) = 1 ->
            LET d == DomainSpecific(tlv.c)
            IN [domain |-> LastOf(tlv.c, 0, d.domain), item |-> LastOf(tlv.c, 1, d.item)]
       [] OTHER -> [Spec0 EXCEPT !.item = tlv.c]

Specs(nodes) == [k \in DOMAIN nodes |-> parseVariableSpec(nodes[k].c)]

EncodeReadRequest(id, specs) ==
  encodeConfirmedRequest(id, encodeContextImplicit(4,
    <<Con(1, <<Con(0, [k \in DOMAIN specs |-> encodeVariableSpec(specs[k])])>>)>>))

(* A named variable list is read by clients other than this library's.     *)
ReadNamedListRequest(id, spec) ==
  encodeConfirmedRequest(id, Con(4,
    <<Con(1, <<Con(1, <<Con(1, <<VisibleString(spec.domain),
                                    VisibleString(spec.item)>>)>>)>>)>>))

parseObjectName(tlv) ==
  CASE TagNumber(tlv) = 1 -> DomainSpecific(tlv.c)
    [] TagNumber(tlv) \in {0, 2} -> [Spec0 EXCEPT !.item = tlv.c]
    [] OTHER -> Spec0

ParseReadRequestContent(content) ==
  LET access == content[IF content[1].t = 128 THEN 2 ELSE 1]
      inner == access.c[1]
  IN IF ~(IsContext(access) /\ TagNumber(access) = 1) THEN Fail
     ELSE CASE inner.t = 160 -> Decoded([named |-> FALSE, specs |-> Specs(inner.c)], 1)
            [] inner.t = 161 ->
                 Decoded([named |-> TRUE, spec |-> parseObjectName(inner.c[1])], 1)
            [] OTHER -> Fail

EncodeWriteRequest(id, specs, values) ==
  encodeConfirmedRequest(id, encodeContextImplicit(5,
    <<Con(0, [k \in DOMAIN specs |-> encodeVariableSpec(specs[k])]),
      Con(0, [k \in DOMAIN values |-> Data(values[k])])>>))

(* Both lists have tag 0: the first is the variables, the second the data, *)
(* up to a value that cannot be decoded.                                   *)
ParseWriteRequestContent(content) ==
  LET lists == SelectSeq(content, LAMBDA e : IsContext(e) /\ TagNumber(e) = 0)
      data == IF Len(lists) < 2 THEN <<>> ELSE lists[2].c
      bad == {k \in DOMAIN data : ~FromData(data[k]).ok}
      n == IF bad = {} THEN Len(data) ELSE Min(bad) - 1
  IN [specs |-> IF lists = <<>> THEN <<>> ELSE Specs(lists[1].c),
      values |-> [k \in 1..n |-> data[k].c]]

EncodeGetNameListRequest(id, class, domain, after) ==
  encodeConfirmedRequest(id, encodeContextImplicit(1,
    <<Con(0, <<Prim(0, class)>>),
      Con(1, IF domain # <<>> THEN <<Prim(1, domain)>> ELSE <<Prim(0, "null")>>)>>
    \o (IF after # NoItem THEN <<Prim(5, after)>> ELSE <<>>)))

(* continueAfter has tag 5, or 2 in the C library.                         *)
ParseGetNameListRequestContent(content) ==
  [class |-> LastOf(LastOf(content, 0, <<>>), 0, -1),
   domain |-> LastOf(LastOf(content, 1, <<>>), 1, <<>>),
   after |-> LastOf(content, 5, LastOf(content, 2, NoItem))]

ParseGetVarAccessAttributesRequest(content) == parseVariableSpec(content)

ParseGetNamedVarListAttrRequest(content) ==
  IF ~(IsContext(content[1]) /\ TagNumber(content[1]) = 1) THEN Fail
  ELSE Decoded(DomainSpecific(content[1].c), 1)
-----------------------------------------------------------------------------
(* Responses                                                               *)

buildConfirmedResponse(id, svc) == Node(161, <<Node(2, id), svc>>)
ParseConfirmedResponse(pdu) == Confirmed(161, pdu)

errorToClassTag(err) ==
  CASE err = "accessUnsupported" -> Node(135, 1)
    [] err = "accessNonExistent" -> Node(135, 2)
    [] err = "accessDenied" -> Node(135, 3)
    [] err = "typeUnsupported" -> Node(130, 3)
    [] err = "objectUndefined" -> Node(130, 1)
    [] OTHER -> Node(132, 0)

BuildErrorResponse(id, err) ==
  Node(162, <<Prim(0, id), Con(2, <<Con(0, <<errorToClassTag(err)>>)>>)>>)

(* The client looks for the service error under tag 1, which its server    *)
(* does not use: the code it finds is then 0.                              *)
ParseConfirmedError(pdu) ==
  LET inner == SelectSeq(LastOf(pdu.c, 1, <<>>), IsContext)
  IN [id |-> LastOf(pdu.c, 0, 0),
      code |-> IF inner = <<>> THEN 0
               ELSE LET e == inner[Len(inner)] IN 10 * TagNumber(e) + e.c]

(* A result is [ok, val], or a DataAccessError in err.                     *)
BuildReadResponse(id, results) ==
  buildConfirmedResponse(id, Con(4,
    <<Con(1, [k \in DOMAIN results |->
        IF results[k].ok THEN Data(results[k].val) ELSE Prim(1, results[k].err)])>>))

(* One result that cannot be decoded is an error of the whole response.    *)
ParseReadResponse(content) ==
  LET list == content[1].c
      one(e) == IF e.t = 129 THEN [ok |-> FALSE, err |-> e.c] ELSE FromData(e)
  IN IF ~(IsContext(content[1]) /\ TagNumber(content[1]) = 1)
        \/ \E k \in DOMAIN list : list[k].t # 129 /\ ~FromData(list[k]).ok
     THEN Fail
     ELSE Decoded([k \in DOMAIN list |-> one(list[k])], 1)

BuildWriteResponse(id, results) ==
  buildConfirmedResponse(id, Con(5,
    [k \in DOMAIN results |-> IF results[k] THEN Prim(1, 0) ELSE Prim(0, 3)]))

BuildGetNameListResponse(id, names, moreFollows) ==
  buildConfirmedResponse(id, Con(1,
    <<Con(0, [k \in DOMAIN names |-> VisibleString(names[k])]),
      Prim(1, Bit(moreFollows, 255))>>))

ParseGetNameListResponse(content) ==
  LET list == LastOf(content, 0, <<>>)
  IN [names |-> [k \in DOMAIN list |-> list[k].c],
      moreFollows |-> LastOf(content, 1, 0) # 0]

BuildIdentifyResponse(id, vendor, model, revision) ==
  buildConfirmedResponse(id, Con(2,
    <<Prim(0, vendor), Prim(1, model), Prim(2, revision)>>))

BuildGetVarAccessAttributesResponse(id, spec) ==
  buildConfirmedResponse(id, Con(6, <<Prim(0, 0), Con(2, <<spec>>)>>))

BuildGetNamedVarListAttrResponse(id, members) ==
  buildConfirmedResponse(id, Con(12,
    <<Prim(0, 0), Con(1, [k \in DOMAIN members |-> encodeVariableSpec(members[k])])>>))

(* Type specifications.                                                    *)
TypeSpecStructure(comps) ==
  Con(2, <<Con(1, [k \in DOMAIN comps |->
     Sequence(<<Prim(0, comps[k].name), Con(1, <<comps[k].spec>>)>>)])>>)

TypeSpecArray(count, spec) == Con(1, <<Prim(1, count), Con(2, <<spec>>)>>)
TypeSpecBoolean == Prim(3, 0)
TypeSpecBitString(bits) == Prim(4, bits)
TypeSpecInteger(bytes) == Prim(5, bytes)
TypeSpecUnsigned(bytes) == Prim(6, bytes)
TypeSpecFloat(width, exponent) == Con(7, <<Node(2, width), Node(2, exponent)>>)
TypeSpecOctetString(n) == Prim(9, n)
TypeSpecVisibleString(n) == Prim(10, n)
TypeSpecBinaryTime(size) == Prim(12, IF size = 6 THEN 1 ELSE 0)
TypeSpecUTCTime == Prim(17, 0)
=============================================================================
