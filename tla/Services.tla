------------------------------ MODULE Services ------------------------------
(***************************************************************************)
(* The confirmed MMS services of the server (pkg/iec61850/server) and the  *)
(* calls of the client library that use them (pkg/iec61850/client): names, *)
(* types, values, data sets.                                               *)
(*                                                                         *)
(* Several clients, each on a connection of its own, make calls while the  *)
(* application updates attributes.  A call sends a request PDU, the        *)
(* handler of the connection answers it, the client makes a result of the  *)
(* answer or, for a name list with more to follow, sends the next request. *)
(* The matching of answers to calls, timeouts and lost connections are in  *)
(* IedClient; the handlers' part in reporting (who is subscribed, which    *)
(* reports are started) is in IedServer.  The handlers run here one after  *)
(* the other: FindNode's cache has no lock, and the Go runtime may abort a *)
(* process that writes a map from two goroutines at once.                  *)
(***************************************************************************)
EXTENDS ReportCodec

CONSTANTS
  Clients,           \* the connections
  Calls,             \* client -> a sequence of the calls it may make
  Updates,           \* a sequence of the updates the application may make
  MaxUpdates,        \* how many it makes
  MaxReports,        \* how many reports are sent
  Now,               \* the time, in seconds since 1970
  WordLength,        \* the length of every name
  MaxResponseBytes   \* the budget of a name list response

ASSUME /\ {MaxUpdates, MaxReports, Now} \subseteq Nat
       /\ MaxResponseBytes \in Nat
       /\ \A k \in DOMAIN Order : WordLength[Order[k]] \in Nat

VARIABLES
  val,       \* attribute path -> value, or Unset
  brcb,      \* BRCB name -> its fields
  cache,     \* FindNode's cache: reference -> path, <<>> for no node
  updates,   \* updates made so far
  client,    \* client -> its call
  report     \* the last report, on its way or received

vars == <<val, brcb, cache, updates, client, report>>

Ref(path) == [ld |-> <<Head(path)>>, names |-> Tail(path)]

(* FindNode: the cache is asked first.  A key of the wrong device is taken *)
(* for the right one.                                                      *)
MutFindNode(ref) ==
  LET hits == {r \in DOMAIN cache : r.names = ref.names}
  IN IF hits # {} THEN cache[CHOOSE r \in hits : TRUE] ELSE Lookup(ref)

FindNode(ref) == IF ref \in DOMAIN cache THEN cache[ref] ELSE Lookup(ref)

(* The cache after FindNode was called for refs.                           *)
Cached(refs) == [r \in DOMAIN cache \union refs |-> FindNode(r)]
-----------------------------------------------------------------------------
(* Values, given the values of the attributes.                             *)
RECURSIVE buildValueFromDA(_, _)
Members(vals, paths) == [k \in DOMAIN paths |-> buildValueFromDA(vals, paths[k])]
Below(path, nodes) == [k \in DOMAIN nodes |-> Append(path, nodes[k].name)]

buildValueFromDA(vals, path) ==
  LET da == NodeAt(path)
  IN CASE da.children # <<>> -> NewStructure(Members(vals, Below(path, da.children)))
       [] da.children = <<>> /\ vals[path] # Unset -> vals[path]
       [] OTHER -> zeroValueForType(da.typ)

(* fc "NONE" takes every functional constraint.                            *)
buildStructureFromDO(vals, path, fc) ==
  LET do == NodeAt(path)
      das == IF fc = "NONE" THEN do.children ELSE OfFC(do, fc)
  IN NewStructure(Members(vals, Below(path, das)))

GroupValue(path, fc) ==
  LET dos == Below(path, ObjectsOf(NodeAt(path), fc))
  IN NewStructure([k \in DOMAIN dos |-> buildStructureFromDO(val, dos[k], fc)])

buildStructureByFC(path, fc) ==
  IF fc \in NodeFCs(NodeAt(path)) THEN Decoded(GroupValue(path, fc), 1) ELSE Fail

asValues(name) == NewStructure([k \in DOMAIN Fields |-> brcb[name][Fields[k]]])

(* The whole node: of its BRCBs only the first.                            *)
buildStructureFromLNWithBR(path) ==
  LET ln == NodeAt(path)
      groups == Groups(ln, path[1])
      first == asValues(BufferedOf(path[1], ln.name)[1].name)
  IN NewStructure([k \in DOMAIN groups |->
       IF groups[k] = "BR" THEN NewStructure(<<first>>) ELSE GroupValue(path, groups[k])])

resolveBRCBVariable(parts, ldName) ==
  LET rcbs == BufferedOf(ldName, parts[1])
      n == Len(parts)
      known == n > 2 /\ parts[3] \in DOMAIN brcb
  IN CASE n = 2 /\ rcbs # <<>> ->
            Decoded(NewStructure([k \in DOMAIN rcbs |-> asValues(rcbs[k].name)]), 1)
       [] n = 3 /\ known -> Decoded(asValues(parts[3]), 1)
       [] n = 4 /\ known /\ parts[4] \in Range(Fields) -> Decoded(brcb[parts[3]][parts[4]], 1)
       [] OTHER -> Fail

(* The reference that resolveVariable asks FindNode for: the FC is left    *)
(* out.                                                                    *)
ResolveRefs(spec) ==
  LET parts == Parts(spec.item)
      ld == findLD(spec.domain)
  IN IF Len(parts) < 3 \/ parts[2] = "BR" \/ Child(ld, parts[1]) = NoNode THEN {}
     ELSE {[ld |-> <<ld.name>>, names |-> <<parts[1]>> \o SubSeq(parts, 3, Len(parts))]}

resolveVariable(spec) ==
  LET parts == Parts(spec.item)
      ld == findLD(spec.domain)
      ln == <<ld.name, parts[1]>>
      n == Len(parts)
      br == n > 1 /\ parts[2] = "BR"
      node == FindNode(CHOOSE r \in ResolveRefs(spec) : TRUE)
      found == n > 2 /\ ~br /\ ResolveRefs(spec) # {} /\ node # <<>>
  IN IF Child(ld, parts[1]) = NoNode THEN Fail ELSE
     CASE br -> resolveBRCBVariable(parts, ld.name)
       [] n = 1 -> Decoded(buildStructureFromLNWithBR(ln), 1)
       [] n = 2 /\ ~br -> buildStructureByFC(ln, parts[2])
       [] n > 2 /\ ~br /\ ~found -> Fail
       [] found /\ IsAttribute(node) ->
            Decoded(IF val[node] = Unset THEN NewDataAccessError(2) ELSE val[node], 1)
       [] OTHER -> Decoded(buildStructureFromDO(val, node, "NONE"), 1)

(* A member of a data set, as reports and handleReadNamedList carry it.    *)
MemberValue(vals, m) ==
  LET node == FindNode(Ref(m.path))
  IN CASE node = <<>> -> [ok |-> FALSE, err |-> 10]
       [] node # <<>> /\ IsAttribute(node) ->
            Decoded(IF vals[node] = Unset THEN zeroValueForType(NodeAt(node).typ)
                    ELSE vals[node], 1)
       [] node # <<>> /\ IsObject(node) -> Decoded(buildStructureFromDO(vals, node, m.fc), 1)
       [] OTHER -> [ok |-> FALSE, err |-> 9]

MemberRefs(ds) == {Ref(ds.members[k].path) : k \in DOMAIN ds.members}

(* Mutant: members that are objects are not looked into.                   *)
MutDaInDataSet(path, name) ==
  \E d \in {k \in DOMAIN DataSets : DataSets[k].name = name} :
    \E k \in DOMAIN DataSets[d].members :
      FindNode(Ref(DataSets[d].members[k].path)) = path

(* The attribute is a member or lies below a member that is an object      *)
(* (objects hang under logical nodes only); no FC is compared.             *)
daInDataSet(path, name) ==
  \E d \in {k \in DOMAIN DataSets : DataSets[k].name = name} :
    \E k \in DOMAIN DataSets[d].members :
      LET node == FindNode(Ref(DataSets[d].members[k].path))
      IN \/ node = path
         \/ node # <<>> /\ IsObject(node) /\ SubSeq(path, 1, 3) = node

-----------------------------------------------------------------------------
(* Names                                                                   *)
Less(a, b) ==
  LET differ == {k \in 1..Min({Len(a.parts), Len(b.parts)}) : a.parts[k] # b.parts[k]}
  IN IF differ = {} THEN Len(a.parts) < Len(b.parts)
     ELSE Rank(a.parts[Min(differ)]) < Rank(b.parts[Min(differ)])

Item(parts) == [sep |-> "$", parts |-> parts]

RECURSIVE collectDANames(_, _)
collectDANames(prefix, da) ==
  LET path == Append(prefix, da.name)
  IN <<Item(path)>> \o FlattenSeq([k \in DOMAIN da.children |->
       collectDANames(path, da.children[k])])

NamesOf(ld, ln, fc) ==
  LET dos == ObjectsOf(ln, fc)
      of(do) == LET das == OfFC(do, fc)
                IN <<Item(<<ln.name, fc, do.name>>)>>
                   \o FlattenSeq([k \in DOMAIN das |->
                        collectDANames(<<ln.name, fc, do.name>>, das[k])])
  IN <<Item(<<ln.name, fc>>)>> \o FlattenSeq([k \in DOMAIN dos |-> of(dos[k])])

namedVariablesForDomain(domain) ==
  LET ld == findLD(domain)
      ofLN(ln) == LET fcs == Sorted(NodeFCs(ln))
                  IN FlattenSeq([k \in DOMAIN fcs |-> NamesOf(ld, ln, fcs[k])])
                     \o (IF BufferedOf(ld.name, ln.name) = <<>> THEN <<>>
                         ELSE <<Item(<<ln.name, "BR">>)>>)
  IN SortSeq(FlattenSeq([k \in DOMAIN ld.children |-> ofLN(ld.children[k])]), Less)

InDomain(ds, domain) ==
  \/ domain = <<>>
  \/ \E k \in DOMAIN ds.members : ldInstToMmsDomain(ds.members[k].path[1]) = domain

namedVariableListsForDomain(domain) ==
  LET sets == SelectSeq(DataSets, LAMBDA ds : InDomain(ds, domain))
  IN [k \in DOMAIN sets |-> sets[k].name]

(* The names of a class: domains 9, variables 0, variable lists 2.         *)
AllNames(class, domain) ==
  CASE class = 9 -> [k \in DOMAIN Devices |->
                       [sep |-> "", parts |-> mmsDomainName(Devices[k])]]
    [] class = 0 -> namedVariablesForDomain(domain)
    [] class = 2 -> namedVariableListsForDomain(domain)
    [] OTHER -> <<>>

(* The names after a name, none when it is unknown.  A page starts with    *)
(* the last name of the page before.                                       *)
MutContinued(names, after) ==
  LET at == {k \in DOMAIN names : names[k] = after}
  IN CASE after = NoItem -> names
       [] after # NoItem /\ at = {} -> <<>>
       [] OTHER -> SubSeq(names, Min(at), Len(names))

Continued(names, after) ==
  LET at == {k \in DOMAIN names : names[k] = after}
  IN CASE after = NoItem -> names
       [] after # NoItem /\ at = {} -> <<>>
       [] OTHER -> SubSeq(names, Min(at) + 1, Len(names))

LengthOf(item) ==
  FoldLeft(LAMBDA acc, n : acc + WordLength[n],
           IF item.sep = "$" THEN Len(item.parts) - 1 ELSE 0, item.parts)

(* How many names fit the budget, at 2 octets more than their length.      *)
Fitting(names) ==
  LET sum[k \in 0..Len(names)] == IF k = 0 THEN 0 ELSE sum[k - 1] + 2 + LengthOf(names[k])
  IN Max({k \in 0..Len(names) : sum[k] <= MaxResponseBytes})
-----------------------------------------------------------------------------
(* The handlers.  A handler gives the response and the references it asked *)
(* FindNode for.                                                           *)
Reply(pdu) == [pdu |-> pdu, refs |-> {}]

handleRead(id, content) ==
  LET req == ParseReadRequestContent(content)
      specs == req.val.specs
      named == SelectSeq(DataSets, LAMBDA d :
                 d.name = req.val.spec.item /\ InDomain(d, req.val.spec.domain))
      result(r) == IF r.ok THEN r ELSE [ok |-> FALSE, err |-> 10]
      list(ds) == [k \in DOMAIN ds.members |-> MemberValue(val, ds.members[k])]
  IN CASE ~req.ok -> Reply(BuildErrorResponse(id, "invalidArguments"))
       [] req.ok /\ ~req.val.named ->
            [pdu |-> BuildReadResponse(id,
                       [k \in DOMAIN specs |-> result(resolveVariable(specs[k]))]),
             refs |-> UNION {ResolveRefs(specs[k]) : k \in DOMAIN specs}]
       [] req.ok /\ req.val.named ->
            IF named = <<>> THEN Reply(BuildErrorResponse(id, "accessNonExistent"))
            ELSE [pdu |-> BuildReadResponse(id, list(named[1])),
                  refs |-> MemberRefs(named[1])]

handleGetNameList(id, content) ==
  LET req == ParseGetNameListRequestContent(content)
      names == Continued(AllNames(req.class, req.domain), req.after)
      n == Fitting(names)
  IN Reply(BuildGetNameListResponse(id, SubSeq(names, 1, n), n < Len(names)))

handleGetVarAccessAttributes(id, content) ==
  LET spec == ParseGetVarAccessAttributesRequest(content)
      ld == findLD(spec.domain)
      type == buildTypeSpecForItem(ld, spec.item)
  IN CASE spec.domain = <<>> -> Reply(BuildErrorResponse(id, "other"))
       [] spec.domain # <<>> /\ (ld = NoDevice \/ type.t = NoSpec.t) ->
            Reply(BuildErrorResponse(id, "accessNonExistent"))
       [] OTHER -> Reply(BuildGetVarAccessAttributesResponse(id, type))

(* The members of a data set by their MMS names.  The device's instance    *)
(* name is taken for its domain.                                           *)
MutListMembers(ds) ==
  [k \in DOMAIN ds.members |->
     LET p == ds.members[k].path
     IN [domain |-> <<p[1]>>, item |-> Item(<<p[2], ds.members[k].fc>> \o SubSeq(p, 3, Len(p)))]]

ListMembers(ds) ==
  [k \in DOMAIN ds.members |->
     LET p == ds.members[k].path
     IN [domain |-> ldInstToMmsDomain(p[1]),
         item |-> Item(<<p[2], ds.members[k].fc>> \o SubSeq(p, 3, Len(p)))]]

handleGetNamedVarListAttr(id, content) ==
  LET req == ParseGetNamedVarListAttrRequest(content)
      sets == SelectSeq(DataSets, LAMBDA d : d.name = req.val.item)
  IN CASE ~req.ok -> Reply(BuildErrorResponse(id, "accessNonExistent"))
       [] req.ok /\ (req.val.domain = <<>> \/ sets = <<>>) ->
            Reply(BuildErrorResponse(id, "accessNonExistent"))
       [] OTHER -> Reply(BuildGetNamedVarListAttrResponse(id, ListMembers(sets[1])))

handleIdentify(id) == Reply(BuildIdentifyResponse(id, "libiec61850-Go", "1.0.0", "IEC 61850 Server"))

Read(req) ==
  CASE req.svc = 4 -> handleRead(req.id, req.content)
    [] req.svc = 1 -> handleGetNameList(req.id, req.content)
    [] req.svc = 6 -> handleGetVarAccessAttributes(req.id, req.content)
    [] req.svc = 12 -> handleGetNamedVarListAttr(req.id, req.content)
    [] req.svc = 2 -> handleIdentify(req.id)
    [] OTHER -> Reply(BuildErrorResponse(req.id, "other"))

(* dotifyItemID, and FindNode with the MMS domain for the device's name.   *)
WriteRef(spec) == [ld |-> spec.domain, names |-> spec.item.parts]

IsBRCBField(parts) == Len(parts) = 4 /\ parts[2] = "BR"

(* setFieldValue; a GI that was written TRUE is FALSE again.               *)
SetField(blocks, name, field, v) ==
  [blocks EXCEPT ![name][field] =
     IF field = "GI" /\ v.typ = "boolean" THEN NewBoolean(FALSE) ELSE v]

(* writeVariable on s: the values, the BRCBs, the attributes stored to,    *)
(* the references looked up and the results so far.  refused is the error  *)
(* of the application's write handler.                                     *)
writeVariable(s, spec, v, refused) ==
  LET parts == Parts(spec.item)
      known == parts[3] \in DOMAIN brcb /\ parts[4] \in Range(Fields)
      node == FindNode(WriteRef(spec))
      looked == [s EXCEPT !.refs = @ \union {WriteRef(spec)}]
  IN IF IsBRCBField(parts)
     THEN IF known
          THEN [s EXCEPT !.brcb = SetField(@, parts[3], parts[4], v), !.ok = Append(@, TRUE)]
          ELSE [s EXCEPT !.ok = Append(@, FALSE)]
     ELSE IF node # <<>> /\ IsAttribute(node) /\ ~refused
          THEN [looked EXCEPT !.val[node] = v, !.stored = @ \union {node},
                              !.ok = Append(@, TRUE)]
          ELSE [looked EXCEPT !.ok = Append(@, FALSE)]

(* handleWrite from variable k on: one after the other, a refusal of one   *)
(* does not keep the others from being written.                            *)
RECURSIVE WriteFrom(_, _, _, _)
WriteFrom(s, req, k, refused) ==
  IF k > Len(req.specs) THEN s
  ELSE With(writeVariable(s, req.specs[k],
                          IF k > Len(req.values) THEN Unset ELSE req.values[k], refused),
            LAMBDA next : WriteFrom(next, req, k + 1, refused))
-----------------------------------------------------------------------------
(* The client's calls                                                      *)

(* An FC "NONE" leaves the item as it is, dots or not.                     *)
objectRefToMMS(ref, fc) ==
  [domain |-> ref.domain,
   item |-> IF fc = "NONE" THEN [sep |-> ref.sep, parts |-> ref.names]
            ELSE Item(<<ref.names[1], fc>> \o Tail(ref.names))]

mapMMSError(code) ==
  CASE code = 81 -> "objectDoesNotExist" [] code = 83 -> "accessDenied"
    [] code = 3 -> "timeout" [] OTHER -> "other"

mapDataAccessError(code) ==
  CASE code = 10 -> "objectDoesNotExist" [] code = 3 -> "accessDenied"
    [] code = 11 -> "objectValueInvalid" [] OTHER -> "other"

Error(e) == [ok |-> FALSE, error |-> e]

(* SetRCBValues: one variable for every attribute.                         *)
AttrSpecs(ref, attrs) ==
  [k \in DOMAIN attrs |->
     [domain |-> ref.domain, item |-> [sep |-> ref.sep, parts |-> Append(ref.names, attrs[k])]]]

SetRequest(call, id) ==
  LET attrs == Attrs(call.rcb, call.elements)
  IN EncodeWriteRequest(id, AttrSpecs(call.ref, attrs),
                        [k \in DOMAIN attrs |-> AttrValue(call.rcb, attrs[k])])

(* GetRCBValues takes a control block for buffered by the dots around BR.  *)
IsBuffered(ref) == ref.sep = "." /\ \E k \in 2..(Len(ref.names) - 1) : ref.names[k] = "BR"

(* The request of a call; id is nextInvokeID's.                            *)
RequestOf(call, id, after) ==
  LET spec == objectRefToMMS(call.ref, call.fc)
  IN CASE call.op \in {"ReadObject", "ReadDataSetValues", "GetRCBValues"} ->
            EncodeReadRequest(id, <<spec>>)
       [] call.op = "SetRCBValues" -> SetRequest(call, id)
       [] call.op = "WriteObject" -> EncodeWriteRequest(id, <<spec>>, <<call.value>>)
       [] call.op = "getNameList" ->
            EncodeGetNameListRequest(id, call.class, call.ref.domain, after)
       [] call.op = "attributes" ->
            encodeConfirmedRequest(id, encodeContextImplicit(6, encodeVariableSpec(spec).c))
       [] call.op = "readList" -> ReadNamedListRequest(id, spec)
       [] call.op = "listAttributes" ->
            encodeConfirmedRequest(id, encodeContextImplicit(12, encodeVariableSpec(spec).c[1].c))
       [] call.op = "identify" -> encodeConfirmedRequest(id, encodeContextImplicit(2, <<>>))

(* What ReadObject and ReadDataSetValues make of a response.               *)
ReadResult(pdu) ==
  LET resp == ParseConfirmedResponse(pdu)
      results == ParseReadResponse(resp.val.content)
  IN CASE pdu.t = 162 -> Error(mapMMSError(ParseConfirmedError(pdu).code))
       [] pdu.t # 162 /\ (~resp.ok \/ resp.val.svc # 4 \/ ~results.ok) -> Error("other")
       [] OTHER -> IF results.val[1].ok THEN results.val[1]
                   ELSE Error(mapDataAccessError(results.val[1].err))

(* WriteObject looks at nothing but the tag.                               *)
WriteResult(pdu) ==
  IF pdu.t = 162 THEN Error(mapMMSError(ParseConfirmedError(pdu).code))
  ELSE Decoded(Unset, 1)
-----------------------------------------------------------------------------
Idle == [call |-> 0, phase |-> "idle", id |-> 0, pdu |-> Node(0, 0), all |-> <<>>,
         held |-> <<>>, result |-> Error("none")]

Init ==
  /\ val = [p \in Attributes |-> Unset]
  /\ brcb = [n \in {RCBs[k].name : k \in {j \in DOMAIN RCBs : RCBs[j].buffered}} |->
               newBRCBState(CHOOSE r \in Range(RCBs) : r.name = n)]
  /\ cache = [r \in {} |-> <<>>]
  /\ updates = 0
  /\ client = [c \in Clients |-> Idle]
  /\ report = [phase |-> "none", sent |-> 0]

CallOf(c) == Calls[c][client[c].call]

(* The attribute that a call reads, if it is one, and the values it has    *)
(* had since the call was made: for the properties only.                   *)
Target(call) ==
  LET ld == findLD(call.ref.domain)
  IN IF call.op # "ReadObject" \/ ld = NoDevice THEN <<>>
     ELSE LET p == <<ld.name>> \o call.ref.names IN IF p \in Leaves THEN p ELSE <<>>

Held(call) == IF Target(call) = <<>> THEN <<>> ELSE <<val[Target(call)]>>

Call(c, k) ==
  /\ client[c].phase = "idle"
  /\ client' = [client EXCEPT ![c] =
       [@ EXCEPT !.call = k, !.phase = "sent", !.id = 1, !.held = Held(Calls[c][k]),
                 !.pdu = RequestOf(Calls[c][k], 1, NoItem)]]
  /\ UNCHANGED <<val, brcb, cache, updates, report>>

(* The answer to client c; calls under way see new values of stored.       *)
Answer(c, pdu, stored, vals) ==
  client' = [d \in Clients |->
    LET target == Target(CallOf(d))
        seen == IF client[d].phase = "sent" /\ target \in stored
                THEN [client[d] EXCEPT !.held = Append(@, vals[target])] ELSE client[d]
    IN IF d = c THEN [seen EXCEPT !.phase = "served", !.pdu = pdu] ELSE seen]

RequestTo(c) == ParseConfirmedRequest(client[c].pdu).val
WriteOf(c) == ParseWriteRequestContent(RequestTo(c).content)

(* dispatchRequest for every service but Write.                            *)
ServeRead(c) ==
  /\ client[c].phase = "sent"
  /\ RequestTo(c).svc # 5
  /\ LET r == Read(RequestTo(c))
     IN cache' = Cached(r.refs) /\ Answer(c, r.pdu, {}, val)
  /\ UNCHANGED <<val, brcb, updates, report>>

(* dispatchRequest for Write.                                              *)
ServeWrite(c, refused) ==
  /\ client[c].phase = "sent"
  /\ RequestTo(c).svc = 5
  /\ \E s \in {WriteFrom([val |-> val, brcb |-> brcb, stored |-> {}, refs |-> {}, ok |-> <<>>],
                         WriteOf(c), 1, refused)} :
       /\ val' = s.val
       /\ brcb' = s.brcb
       /\ cache' = Cached(s.refs)
       /\ Answer(c, BuildWriteResponse(RequestTo(c).id, s.ok), s.stored, s.val)
  /\ UNCHANGED <<updates, report>>

Finish(c, result) ==
  client' = [client EXCEPT ![c] =
    [@ EXCEPT !.phase = "done", !.result = result, !.pdu = Node(0, 0)]]

Return(c) ==
  LET pdu == client[c].pdu
      op == CallOf(c).op
  IN /\ client[c].phase = "served"
     /\ op # "getNameList"
     /\ Finish(c, CASE op \in {"ReadObject", "ReadDataSetValues"} -> ReadResult(pdu)
                    [] op \in {"WriteObject", "SetRCBValues"} -> WriteResult(pdu)
                    [] op = "GetRCBValues" ->
                         Then(ReadResult(pdu), LAMBDA v :
                           Decoded(parseRCBValue(IsBuffered(CallOf(c).ref), v), 1))
                    [] OTHER -> IF pdu.t = 162 THEN Error("other") ELSE Decoded(pdu.c[2].c, 1))
     /\ UNCHANGED <<val, brcb, cache, updates, report>>

(* getNameList: another page is asked for when more follow.                *)
ReturnNames(c) ==
  LET resp == ParseGetNameListResponse(ParseConfirmedResponse(client[c].pdu).val.content)
      all == client[c].all \o resp.names
      id == client[c].id + 1
      more == resp.moreFollows /\ resp.names # <<>>
  IN /\ client[c].phase = "served"
     /\ CallOf(c).op = "getNameList"
     /\ client' = [client EXCEPT ![c] =
          IF more THEN [@ EXCEPT !.phase = "sent", !.id = id, !.all = all,
                                 !.pdu = RequestOf(CallOf(c), id, resp.names[Len(resp.names)])]
          ELSE [@ EXCEPT !.phase = "done", !.all = all, !.pdu = Node(0, 0),
                         !.result = Decoded(Unset, 1)]]
     /\ UNCHANGED <<val, brcb, cache, updates, report>>

(* UpdateAttributeValue: the value and, through daInDataSet, the cache,    *)
(* when the BRCBs of the data sets in scanned have a subscriber.           *)
Update(u, scanned) ==
  /\ updates < MaxUpdates
  /\ updates' = updates + 1
  /\ val' = [val EXCEPT ![u.path] = u.value]
  /\ client' = [d \in Clients |->
       IF client[d].phase = "sent" /\ Target(CallOf(d)) = u.path
       THEN [client[d] EXCEPT !.held = Append(@, u.value)] ELSE client[d]]
  /\ cache' = Cached(UNION {MemberRefs(DataSets[k]) : k \in scanned})
  /\ UNCHANGED <<brcb, report>>

(* sendReport for a BRCB that is enabled; module IedServer is about when   *)
(* and to whom.                                                            *)
DataSetsNamed(rcb) == SelectSeq(DataSets, LAMBDA d : d.name = Item(<<rcb.lnName, rcb.dataSet>>))
ParamsOf(rcb) ==
  LET b == brcb[rcb.name]
      ds == DataSetsNamed(rcb)[1]
      value(m) == LET r == MemberValue(val, m) IN IF r.ok THEN r.val ELSE NewDataAccessError(r.err)
  IN [rptID |-> b.RptID.v, optFlds |-> BitsOf(b.OptFlds), sqNum |-> (b.SqNum.v + 1) % 65536,
      seconds |-> Now, datSet |-> b.DatSet.v, confRev |-> b.ConfRev.v,
      members |-> ds.members, refs |-> [k \in DOMAIN ds.members |-> ds.members[k].path],
      values |-> [k \in DOMAIN ds.members |-> value(ds.members[k])]]

SendReport(rcb) ==
  /\ report.sent < MaxReports
  /\ report.phase # "sent"
  /\ rcb.buffered /\ DataSetsNamed(rcb) # <<>>
  /\ brcb[rcb.name].RptEna = NewBoolean(TRUE)
  /\ \E p \in {ParamsOf(rcb)} :
       /\ report' = [phase |-> "sent", sent |-> report.sent + 1, params |-> p,
                     pdu |-> BuildInformationReport(p)]
       /\ brcb' = [brcb EXCEPT ![rcb.name].SqNum = NewUnsigned(p.sqNum)]
       /\ cache' = Cached({Ref(p.members[k].path) : k \in DOMAIN p.members})
  /\ UNCHANGED <<val, updates, client>>

(* dispatchInformationReport                                               *)
DispatchReport ==
  /\ report.phase = "sent"
  /\ report' = [phase |-> "heard", sent |-> report.sent, params |-> report.params,
                got |-> parseInformationReport(report.pdu)]
  /\ UNCHANGED <<val, brcb, cache, updates, client>>

Next ==
  \/ \E c \in Clients :
       \/ \E k \in DOMAIN Calls[c] : Call(c, k)
       \/ ServeRead(c)
       \/ \E refused \in BOOLEAN : ServeWrite(c, refused)
       \/ Return(c)
       \/ ReturnNames(c)
  \/ \E k \in DOMAIN Updates :
       \E scanned \in {{}, DOMAIN DataSets} : Update(Updates[k], scanned)
  \/ \E k \in DOMAIN RCBs : SendReport(RCBs[k])
  \/ DispatchReport

Spec == Init /\ [][Next]_vars
-----------------------------------------------------------------------------
Done(c, op) == client[c].phase = "done" /\ CallOf(c).op = op

(* The names a domain has, taken from the paths of its attributes.         *)
ListedNames(ld) ==
  LET own == {p \in Attributes : p[1] = ld.name}
      item(p) == <<p[2], NodeAt(SubSeq(p, 1, 4)).fc>> \o SubSeq(p, 3, Len(p))
  IN UNION {{SubSeq(item(p), 1, n) : n \in 2..Len(item(p))} : p \in own}
     \union {<<RCBs[k].lnName, "BR">> :
              k \in {j \in DOMAIN RCBs : RCBs[j].buffered /\ RCBs[j].ldInst = ld.name}}

(* getNameList, which follows moreFollows from page to page, returns every *)
(* variable of the domain, however small the pages are that the budget of  *)
(* handleGetNameList makes.  On the way no name comes twice and every page *)
(* has one: the names that it has are in order and at least as many as the *)
(* pages it has read, so it stops asking.                                  *)
PagesWhole ==
  \A c \in Clients :
    /\ (Done(c, "getNameList") /\ CallOf(c).class = 0) =>
         {client[c].all[k].parts : k \in DOMAIN client[c].all}
           = ListedNames(findLD(CallOf(c).ref.domain))
    /\ client[c].phase \in {"sent", "served"} =>
         /\ Len(client[c].all) >= client[c].id - 1
         /\ CallOf(c).class = 0 =>
              \A k \in 2..Len(client[c].all) : Less(client[c].all[k - 1], client[c].all[k])

(* ReadObject of an attribute returns a value that the attribute had       *)
(* between the request and the answer, whatever other clients write, the   *)
(* application updates or FindNode's cache remembers of other devices; it  *)
(* fails only if the attribute had no value in that time.                  *)
ReadExact ==
  \A c \in Clients :
    (Done(c, "ReadObject") /\ Target(CallOf(c)) # <<>>) =>
      \E k \in DOMAIN client[c].held :
        IF client[c].result.ok
        THEN /\ client[c].held[k].typ = client[c].result.val.typ
             /\ OnTheWire(client[c].held[k]) = client[c].result.val
        ELSE client[c].held[k] = Unset

(* A visible string is announced where an integer or a bit string comes:   *)
(* so it is with the attribute types outside KnownTypes.                   *)
Mistyped(v, spec, path) ==
  /\ NodeAt(path) # NoNode /\ NodeAt(path).typ \notin KnownTypes
  /\ v.typ \in {"integer", "bitString"} /\ TagNumber(spec) = TagOf.visibleString % 32

(* A value has the nesting, the order and the tags that a type announces;  *)
(* path is the way to the node, whose components the type names.           *)
ComponentsOf(spec) == spec.c[1].c
ComponentName(comp) == comp.c[1].c
ComponentSpec(comp) == comp.c[2].c[1]

RECURSIVE Fits(_, _, _)
Fits(v, spec, path) ==
  IF TagNumber(spec) # 2
  THEN TagOf[v.typ] % 32 = TagNumber(spec) \/ Mistyped(v, spec, path)
  ELSE LET comps == ComponentsOf(spec)
       IN /\ v.typ = "structure" /\ DOMAIN v.v = DOMAIN comps
          /\ \A k \in DOMAIN comps :
               Fits(v.v[k], ComponentSpec(comps[k]), Append(path, ComponentName(comps[k])))

(* The value of a whole logical node has the nesting, the order and the    *)
(* types that GetVariableAccessAttributes announces for it, the value of   *)
(* one functional constraint those of its component, before and after      *)
(* writes: if the node has no more than one BRCB, and but for the types of *)
(* the attributes that are Mistyped.                                       *)
Aligned ==
  \A d \in DOMAIN Devices :
    \A k \in DOMAIN Devices[d].children :
      LET ln == Devices[d].children[k]
          path == <<Devices[d].name, ln.name>>
          groups == ComponentsOf(buildTypeSpecLN(ln, path[1]))
          whole == buildStructureFromLNWithBR(path)
          byFC(g) == buildStructureByFC(path, ComponentName(groups[g])).val
      IN Len(BufferedOf(path[1], ln.name)) <= 1 =>
           /\ DOMAIN whole.v = DOMAIN groups
           /\ \A g \in DOMAIN groups :
                /\ Fits(whole.v[g], ComponentSpec(groups[g]), path)
                /\ ComponentName(groups[g]) # "BR" =>
                     Fits(byFC(g), ComponentSpec(groups[g]), path)

(* A member of a data set has the same value when it is read by the name   *)
(* that GetNamedVariableListAttributes gives for it as in the data set and *)
(* in reports, if it is an attribute that has a value.                     *)
DataSetAgrees ==
  \A d \in DOMAIN DataSets :
    \A k \in DOMAIN DataSets[d].members :
      LET m == DataSets[d].members[k]
      IN (m.path \in Leaves /\ val[m.path] # Unset) =>
           LET read == resolveVariable(ListMembers(DataSets[d])[k])
               reported == MemberValue(val, m)
           IN /\ read.ok /\ reported.ok
              /\ read.val.typ = reported.val.typ
              /\ read.val = reported.val

(* Whatever step changes what reports of a data set carry changes an       *)
(* attribute for which daInDataSet is TRUE, the test by which              *)
(* UpdateAttributeValue decides to report.                                 *)
ReportsCover ==
  [][\A d \in DOMAIN DataSets :
       (\E k \in DOMAIN DataSets[d].members :
          MemberValue(val', DataSets[d].members[k]) # MemberValue(val, DataSets[d].members[k]))
       => \E p \in Attributes : val'[p] # val[p] /\ daInDataSet(p, DataSets[d].name)]_vars

(* The handler of a report gets what sendReport put in: the fields the     *)
(* optional fields announce and the values of the data set's members, up   *)
(* to the first that the model does not have.  This is so if no entryID is *)
(* asked for and, with more than one member, neither references nor        *)
(* reasons: the parser does not know the first and expects the others      *)
(* beside each value.                                                      *)
ReportExact ==
  report.phase = "heard" =>
    LET p == report.params
        r == report.got.val
        has == optFldBits(p.optFlds)
        n == Len(p.values)
        bad == {k \in 1..n : p.values[k].typ = "dataAccessError"}
        upTo == IF bad = {} THEN n ELSE Min(bad) - 1
        is(flag, field, v) == flag \in has => field # Unset /\ field.v = v
    IN ("entryID" \notin has /\ (n <= 1 \/ has \intersect {"dataReference", "reasonForInclusion"} = {}))
       => /\ report.got.ok
          /\ r.reportID = p.rptID
          /\ is("seqNum", r.sequenceNumber, p.sqNum)
          /\ is("dataSet", r.rcbReference, p.datSet)
          /\ is("confRev", r.confRev, p.confRev)
          /\ r.hasTimestamp = ("timeStamp" \in has)
          /\ Len(r.slots) = upTo
          /\ \A k \in 1..upTo :
               /\ r.slots[k].val.typ = p.values[k].typ
               /\ r.slots[k].val = OnTheWire(p.values[k])
               /\ "reasonForInclusion" \in has => r.slots[k].reason = "GI"

(* After SetRCBValues has returned the BRCB is as the client wanted it,    *)
(* unless another client has set it: the options survive their way through *)
(* bit strings, and every attribute gets its own value although Resv, put  *)
(* first, is refused.  The reference must be one with dollar signs.        *)
BlockConfigured ==
  \A c \in Clients :
    (/\ Done(c, "SetRCBValues") /\ client[c].result.ok /\ CallOf(c).ref.sep = "$"
     /\ \A d \in Clients \ {c} : client[d].phase = "idle" \/ CallOf(d).op \notin
          {"SetRCBValues", "WriteObject"})
    => LET call == CallOf(c)
           b == brcb[call.ref.names[3]]
       IN /\ "OptFlds" \in call.elements => optFldsFromMMS(BitsOf(b.OptFlds)) = call.rcb.OptFlds
          /\ "TrgOps" \in call.elements => trgOpsFromMMS(BitsOf(b.TrgOps)) = call.rcb.TrgOps
          /\ "RptEna" \in call.elements => b.RptEna = NewBoolean(call.rcb.RptEna)
          /\ "RptID" \in call.elements => b.RptID.v = call.rcb.RptID

(* WriteObject writes a value to a data attribute on the server: when it   *)
(* returns no error and nobody else writes, the attribute has the value.   *)
WriteTakesEffect ==
  \A c \in Clients :
    (/\ Done(c, "WriteObject") /\ client[c].result.ok
     /\ updates = 0
     /\ \A d \in Clients \ {c} : client[d].phase = "idle")
    => LET p == <<findLD(CallOf(c).ref.domain).name>> \o CallOf(c).ref.names
       IN p \in Leaves => val[p] = CallOf(c).value
=============================================================================
