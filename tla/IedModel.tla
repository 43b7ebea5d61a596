------------------------------ MODULE IedModel ------------------------------
(***************************************************************************)
(* The data model that a server serves (pkg/iec61850/model): logical       *)
(* devices, logical nodes, data objects and data attributes, the data sets *)
(* and the report control blocks.                                          *)
(*                                                                         *)
(* The tree is fixed once the server runs.  A node has a name and its      *)
(* children in their order; an attribute has a functional constraint and a *)
(* type too, and its value is state, kept by path in module Services.  A   *)
(* path is the sequence of the names from the logical device down, so a    *)
(* path of three names is a data object and a longer one an attribute.     *)
(***************************************************************************)
EXTENDS MmsPdu

CONSTANTS
  IedName,    \* the name of the IED, a sequence of at most one name
  Devices,    \* the logical devices
  DataSets,   \* data sets: a name (an item) and members (paths with an FC)
  RCBs,       \* report control blocks
  Order       \* every name, and every FC, in the order of its octets

NoNode == [name |-> "", fc |-> "", typ |-> "", count |-> 0, children |-> <<>>]
DataAttribute(n, fc, typ, children) ==
  [name |-> n, fc |-> fc, typ |-> typ, count |-> 0, children |-> children]
DataObject(n, children) == DataAttribute(n, "", "", children)
LogicalNode(n, children) == DataAttribute(n, "", "", children)
LogicalDevice(n, ldName, children) ==
  [name |-> n, ldName |-> ldName, children |-> children]

Rank(n) == CHOOSE k \in DOMAIN Order : Order[k] = n
Sorted(names) == SelectSeq(Order, LAMBDA n : n \in names)

Named(nodes, n) ==
  LET at == {k \in DOMAIN nodes : nodes[k].name = n}
  IN IF at = {} THEN NoNode ELSE nodes[Min(at)]

Child(node, n) == Named(node.children, n)

(* findInLD, findInLN, findInDO and findInDA: one name a level.            *)
RECURSIVE Walk(_, _)
Walk(node, names) ==
  IF names = <<>> THEN node
  ELSE With(Child(node, Head(names)), LAMBDA next : Walk(next, Tail(names)))

NodeAt(path) == Walk(Named(Devices, Head(path)), Tail(path))
IsObject(path) == Len(path) = 3
IsAttribute(path) == Len(path) > 3

(* FindNode without its cache: the path of the node that a reference, an   *)
(* LD name and the names after it, leads to, or none.                      *)
Lookup(ref) ==
  IF ref.ld = <<>> \/ Len(ref.ld) > 1 THEN <<>>
  ELSE IF Walk(Named(Devices, ref.ld[1]), ref.names) = NoNode THEN <<>>
  ELSE ref.ld \o ref.names

(* The functional constraints of an object, and of all of a node's.        *)
FCsOf(do) == {do.children[k].fc : k \in DOMAIN do.children}
NodeFCs(ln) == UNION {FCsOf(ln.children[k]) : k \in DOMAIN ln.children}
OfFC(do, fc) == SelectSeq(do.children, LAMBDA da : da.fc = fc)
ObjectsOf(ln, fc) ==
  LET names == {ln.children[k].name : k \in
                  {j \in DOMAIN ln.children : fc \in FCsOf(ln.children[j])}}
      sorted == Sorted(names)
  IN [k \in DOMAIN sorted |-> Child(ln, sorted[k])]

(* mmsDomainName: the LDName, or the names of the IED and the device.      *)
mmsDomainName(ld) == IF ld.ldName # <<>> THEN ld.ldName ELSE IedName \o <<ld.name>>

NoDevice == LogicalDevice("", <<>>, <<>>)
findLD(domain) ==
  LET at == {k \in DOMAIN Devices : mmsDomainName(Devices[k]) = domain}
  IN IF at = {} THEN NoDevice ELSE Devices[Min(at)]

ldInstToMmsDomain(name) ==
  LET ld == Named(Devices, name)
  IN IF ld = NoNode THEN <<name>> ELSE mmsDomainName(ld)

(* The BRCBs of a logical node.                                            *)
BufferedOf(ldName, lnName) ==
  SelectSeq(RCBs, LAMBDA r : r.buffered /\ r.ldInst = ldName /\ r.lnName = lnName)

RECURSIVE AttributePaths(_, _)
AttributePaths(path, node) ==
  UNION {LET p == Append(path, node.children[k].name)
         IN (IF Len(p) > 3 THEN {p} ELSE {}) \union AttributePaths(p, node.children[k])
         : k \in DOMAIN node.children}

Attributes == UNION {AttributePaths(<<Devices[k].name>>, Devices[k]) : k \in DOMAIN Devices}
Leaves == {p \in Attributes : NodeAt(p).children = <<>>}
-----------------------------------------------------------------------------
(* The zero value and the type specification of an attribute type.         *)
Zeros(n) == [k \in 1..n |-> 0]

zeroValueForType(t) ==
  CASE t = "Boolean" -> NewBoolean(FALSE)
    [] t \in {"INT8U", "INT16U", "INT24U", "INT32U"} -> NewUnsigned(0)
    [] t = "FLOAT32" -> Atom("float", Zeros(4))
    [] t = "FLOAT64" -> Atom("float", Zeros(8))
    [] t = "Timestamp" -> Atom("utcTime", UTCTime(0, 0, 0, 0))
    [] t = "Quality" -> NewQuality(0)
    [] t = "OctetString6" -> Atom("octetString", Zeros(6))
    [] t = "OctetString8" -> Atom("octetString", Zeros(8))
    [] t = "OctetString64" -> Atom("octetString", Zeros(64))
    [] t \in {"VisibleStr32", "VisibleStr64", "VisibleStr65", "VisibleStr129",
              "VisibleStr255"} -> Atom("visibleString", <<>>)
    [] t \in {"GenericBitStr", "TrgOps", "OptFlds", "Check"} -> NewBitString(<<0>>, 1)
    [] OTHER -> NewInteger(0)

ScalarTypeSpec(t) ==
  CASE t = "Boolean" -> TypeSpecBoolean
    [] t = "FLOAT32" -> TypeSpecFloat(32, 8)
    [] t = "FLOAT64" -> TypeSpecFloat(64, 11)
    [] t = "INT8" -> TypeSpecInteger(1)
    [] t = "INT16" -> TypeSpecInteger(2)
    [] t = "INT32" -> TypeSpecInteger(4)
    [] t = "INT64" -> TypeSpecInteger(8)
    [] t = "INT8U" -> TypeSpecUnsigned(1)
    [] t = "INT16U" -> TypeSpecUnsigned(2)
    [] t = "INT24U" -> TypeSpecUnsigned(3)
    [] t = "INT32U" -> TypeSpecUnsigned(4)
    [] t = "Quality" -> TypeSpecBitString(-13)
    [] t = "Check" -> TypeSpecBitString(-2)
    [] t = "GenericBitStr" -> TypeSpecBitString(-32)
    [] t = "Timestamp" -> TypeSpecUTCTime
    [] t = "VisibleStr32" -> TypeSpecVisibleString(32)
    [] t = "VisibleStr64" -> TypeSpecVisibleString(64)
    [] t = "VisibleStr65" -> TypeSpecVisibleString(65)
    [] t = "VisibleStr129" -> TypeSpecVisibleString(129)
    [] t = "OctetString64" -> TypeSpecOctetString(64)
    [] t = "OctetString6" -> TypeSpecOctetString(6)
    [] t = "OctetString8" -> TypeSpecOctetString(8)
    [] OTHER -> TypeSpecVisibleString(255)

(* The types that zeroValueForType and buildTypeSpecDAScalar both know.    *)
(* Of the others, Enumerated among them, the type specification says       *)
(* visible string; the value is an integer or a bit string.                *)
KnownTypes ==
  {"Boolean", "INT8", "INT16", "INT32", "INT64", "INT8U", "INT16U", "INT24U", "INT32U",
   "FLOAT32", "FLOAT64", "Timestamp", "Quality", "Check", "GenericBitStr",
   "OctetString6", "OctetString8", "OctetString64", "VisibleStr32", "VisibleStr64",
   "VisibleStr65", "VisibleStr129", "VisibleStr255"}

ASSUME /\ \A p \in Attributes : NodeAt(p).fc \notin {"NONE", "BR"}
       /\ \A k, l \in DOMAIN RCBs : RCBs[k].name = RCBs[l].name => k = l
-----------------------------------------------------------------------------
(* The report control block's fields.                                      *)
Fields == <<"RptID", "RptEna", "DatSet", "ConfRev", "OptFlds", "BufTm", "SqNum",
            "TrgOps", "IntgPd", "GI", "PurgeBuf", "EntryID", "TimeofEntry">>

(* The octets of trigger options and of optional fields: the weight of     *)
(* every flag in its octet.                                                *)
TrgOpsWeights == [dataChanged |-> 64, qualityChanged |-> 32, dataUpdate |-> 16,
                  integrity |-> 8, gi |-> 4]
OptFldsWeights == [seqNum |-> 64, timeStamp |-> 32, reasonForInclusion |-> 16,
                   dataSet |-> 8, dataReference |-> 4, bufferOverflow |-> 2, entryID |-> 1]
ConfRevWeight == [confRev |-> 128]

Mask(flags, weights) ==
  FoldSet(LAMBDA f, acc : acc + weights[f], 0, flags \intersect DOMAIN weights)

encodeTrgOpsBits(t) == <<Mask(t, TrgOpsWeights)>>
encodeOptFldsBits(o) == <<Mask(o, OptFldsWeights), Mask(o, ConfRevWeight)>>

newBRCBState(rcb) ==
  [RptID |-> Atom("visibleString",
               IF rcb.rptID # <<>> THEN rcb.rptID
               ELSE <<rcb.ldInst, rcb.lnName, "BR", rcb.name>>),
   RptEna |-> NewBoolean(FALSE),
   DatSet |-> Atom("visibleString",
                IF rcb.dataSet = "" THEN <<>>
                ELSE IedName \o <<rcb.ldInst, rcb.lnName, rcb.dataSet>>),
   ConfRev |-> NewUnsigned(rcb.confRev),
   OptFlds |-> NewBitString(encodeOptFldsBits(rcb.optFields), -10),
   BufTm |-> NewUnsigned(rcb.bufTime), SqNum |-> NewUnsigned(0),
   TrgOps |-> NewBitString(encodeTrgOpsBits(rcb.trgOps), -6),
   IntgPd |-> NewUnsigned(rcb.intgPd), GI |-> NewBoolean(FALSE),
   PurgeBuf |-> NewBoolean(FALSE), EntryID |-> Atom("octetString", Zeros(8)),
   TimeofEntry |-> Atom("binaryTime", [milliseconds |-> 0, days |-> 0, size |-> 6])]

BRCBSpec ==
  [RptID |-> TypeSpecVisibleString(129), RptEna |-> TypeSpecBoolean,
   DatSet |-> TypeSpecVisibleString(129), ConfRev |-> TypeSpecUnsigned(4),
   OptFlds |-> TypeSpecBitString(-10), BufTm |-> TypeSpecUnsigned(4),
   SqNum |-> TypeSpecUnsigned(2), TrgOps |-> TypeSpecBitString(-6),
   IntgPd |-> TypeSpecUnsigned(4), GI |-> TypeSpecBoolean,
   PurgeBuf |-> TypeSpecBoolean, EntryID |-> TypeSpecOctetString(8),
   TimeofEntry |-> TypeSpecBinaryTime(6)]

buildTypeSpecBRCB ==
  TypeSpecStructure([k \in DOMAIN Fields |-> [name |-> Fields[k], spec |-> BRCBSpec[Fields[k]]]])
-----------------------------------------------------------------------------
(* Type specifications of the tree.                                        *)
RECURSIVE buildTypeSpecDA(_)
Components(das) ==
  [k \in DOMAIN das |-> [name |-> das[k].name, spec |-> buildTypeSpecDA(das[k])]]

buildTypeSpecDAScalar(da) ==
  IF da.children # <<>> THEN TypeSpecStructure(Components(da.children))
  ELSE ScalarTypeSpec(da.typ)

buildTypeSpecDA(da) ==
  IF da.count > 0 THEN TypeSpecArray(da.count, buildTypeSpecDAScalar(da))
  ELSE buildTypeSpecDAScalar(da)

buildTypeSpecDAsAsStructure(das) == TypeSpecStructure(Components(das))

buildTypeSpecDO(do, fc) == buildTypeSpecDAsAsStructure(OfFC(do, fc))

(* No type, where the code returns nil.                                    *)
NoSpec == Node(0, 0)

buildTypeSpecForDAPath(do, names) ==
  LET da == Walk(do, names) IN IF da = NoNode THEN NoSpec ELSE buildTypeSpecDA(da)

buildTypeSpecBRGroup(lnName, ldName) ==
  LET rcbs == BufferedOf(ldName, lnName)
  IN IF rcbs = <<>> THEN NoSpec
     ELSE TypeSpecStructure([k \in DOMAIN rcbs |->
            [name |-> rcbs[k].name, spec |-> buildTypeSpecBRCB]])

(* The FC groups in their order, the BRCBs among them.                     *)
Groups(ln, ldName) ==
  Sorted(NodeFCs(ln) \union (IF BufferedOf(ldName, ln.name) = <<>> THEN {} ELSE {"BR"}))

(* The BRCBs come after all the functional constraints.                    *)
MutBuildTypeSpecLN(ln, ldName) ==
  LET fcs == Sorted(NodeFCs(ln))
      group(fc) == LET dos == ObjectsOf(ln, fc)
                   IN TypeSpecStructure([k \in DOMAIN dos |->
                        [name |-> dos[k].name, spec |-> buildTypeSpecDO(dos[k], fc)]])
  IN TypeSpecStructure([k \in DOMAIN fcs |-> [name |-> fcs[k], spec |-> group(fcs[k])]]
       \o (IF BufferedOf(ldName, ln.name) = <<>> THEN <<>>
           ELSE <<[name |-> "BR", spec |-> buildTypeSpecBRGroup(ln.name, ldName)]>>))

buildTypeSpecLN(ln, ldName) ==
  LET groups == Groups(ln, ldName)
      group(fc) == LET dos == ObjectsOf(ln, fc)
                   IN TypeSpecStructure([k \in DOMAIN dos |->
                        [name |-> dos[k].name, spec |-> buildTypeSpecDO(dos[k], fc)]])
  IN TypeSpecStructure([k \in DOMAIN groups |->
       [name |-> groups[k],
        spec |-> IF groups[k] = "BR" THEN buildTypeSpecBRGroup(ln.name, ldName)
                 ELSE group(groups[k])]])

(* An item without $, and the parts of one with.                           *)
Parts(item) ==
  IF item.sep = "$" \/ Len(item.parts) = 1 THEN item.parts ELSE <<".">>

buildTypeSpecForItem(ld, item) ==
  LET parts == Parts(item)
      ln == Child(ld, parts[1])
      n == Len(parts)
      do == Child(ln, parts[3])
  IN CASE n = 1 -> IF ln = NoNode THEN NoSpec ELSE buildTypeSpecLN(ln, ld.name)
       [] n = 2 -> IF parts[2] = "BR" THEN buildTypeSpecBRGroup(parts[1], ld.name) ELSE NoSpec
       [] n > 2 /\ parts[2] = "BR" -> IF n = 3 THEN buildTypeSpecBRCB ELSE NoSpec
       [] n > 2 /\ parts[2] # "BR" /\ do = NoNode -> NoSpec
       [] n = 3 /\ parts[2] # "BR" /\ do # NoNode -> buildTypeSpecDO(do, parts[2])
       [] OTHER -> buildTypeSpecForDAPath(do, SubSeq(parts, 4, n))
=============================================================================
