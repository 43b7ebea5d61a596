----------------------------- MODULE MCServices -----------------------------
(* A small IED: two devices with the same node, object and attribute       *)
(* names, a constructed attribute, an object with two FCs, an enumerated   *)
(* ctlModel as in the sample model, a node with two BRCBs and one with     *)
(* none.                                                                   *)
EXTENDS Services

Ied == <<"IED">>

stVal == DataAttribute("stVal", "ST", "Boolean", <<>>)
q == DataAttribute("q", "ST", "Quality", <<>>)
ctlModel == DataAttribute("ctlModel", "CF", "Enumerated", <<>>)
mag == DataAttribute("mag", "MX", "Constructed",
                     <<DataAttribute("f", "MX", "FLOAT32", <<>>)>>)

DevicesOf ==
  <<LogicalDevice("LD1", <<>>,
      <<LogicalNode("MMXU1", <<DataObject("TotW", <<mag>>)>>),
        LogicalNode("LLN0", <<DataObject("Mod", <<stVal, q, ctlModel>>),
                              DataObject("Beh", <<stVal>>)>>)>>),
    LogicalDevice("LD2", <<"Func">>, <<LogicalNode("LLN0", <<DataObject("Mod", <<stVal>>)>>)>>)>>

Member(path, fc) == [path |-> path, fc |-> fc]
ModSt(ld) == <<ld, "LLN0", "Mod", "stVal">>

DataSetsOf ==
  <<[name |-> Item(<<"LLN0", "ds1">>),
     members |-> <<Member(ModSt("LD1"), "ST"), Member(<<"LD1", "MMXU1", "TotW">>, "MX"),
                   Member(<<"LD1", "LLN0", "Beh", "q">>, "ST")>>],
    [name |-> Item(<<"LLN0", "ds2">>), members |-> <<Member(ModSt("LD2"), "ST")>>]>>

Rcb(name, ld, buffered, dataSet) ==
  [name |-> name, ldInst |-> ld, lnName |-> "LLN0", buffered |-> buffered,
   rptID |-> <<>>, dataSet |-> dataSet, confRev |-> 1, bufTime |-> 50, intgPd |-> 0,
   optFields |-> {"seqNum", "dataSet"}, trgOps |-> {"dataChanged", "gi"}]

RCBsOf == <<Rcb("urcb", "LD1", FALSE, "ds1"), Rcb("brcb1", "LD1", TRUE, "ds1"),
            Rcb("brcb2", "LD2", TRUE, "ds2"), Rcb("brcb3", "LD2", TRUE, "ds3")>>

OrderOf == <<"BR", "Beh", "CF", "Func", "IED", "LD1", "LD2", "LLN0", "MMXU1", "MX", "Mod",
             "ST", "TotW", "ctlModel", "ds1", "ds2", "f", "mag", "q", "stVal">>
Lengths == [n \in Range(OrderOf) |-> IF n \in {"f", "q"} THEN 1 ELSE 3]

D1 == <<"IED", "LD1">>
D2 == <<"Func">>
Make(op, domain, names, fc) ==
  [op |-> op, ref |-> [domain |-> domain, names |-> names, sep |-> "."], fc |-> fc, class |-> 0,
   value |-> Unset, rcb |-> ReportControlBlock, elements |-> {}]
ReadCall(domain, names, fc) == Make("ReadObject", domain, names, fc)
WriteCall(domain, names, fc, v) == [Make("WriteObject", domain, names, fc) EXCEPT !.value = v]
NamesCall(domain, class) == [Make("getNameList", domain, <<"LLN0">>, "NONE") EXCEPT !.class = class]
True == NewBoolean(TRUE)

Block1 == <<"LLN0", "BR", "brcb1">>
Enabled == [ReportControlBlock EXCEPT !.RptEna = TRUE, !.TrgOps = {"dataChanged", "integrity"}]
SetCall(domain, names, sep, opts) ==
  [Make("SetRCBValues", domain, names, "NONE") EXCEPT
     !.rcb = [Enabled EXCEPT !.OptFlds = opts, !.RptID = <<"IED">>], !.ref.sep = sep,
     !.elements = {"OptFlds", "TrgOps", "RptEna", "RptID"}]
Enable(opts) == SetCall(D1, Block1, "$", opts)
EnableOne(opts) == SetCall(D2, <<"LLN0", "BR", "brcb2">>, "$", opts)
Header == {"seqNum", "timeStamp", "dataSet", "bufferOverflow", "confRev"}

ReaderCalls ==
  <<ReadCall(D1, <<"LLN0", "Mod", "stVal">>, "ST"),
    ReadCall(D2, <<"LLN0", "Mod", "stVal">>, "ST"),
    ReadCall(D1, <<"MMXU1", "TotW", "mag", "f">>, "MX"),
    ReadCall(D1, <<"LLN0", "Mod">>, "ST"),
    ReadCall(D1, <<"LLN0">>, "NONE"), ReadCall(D1, <<"LLN0">>, "CF"),
    ReadCall(D1, <<"LLN0", "brcb1">>, "BR"), ReadCall(D2, <<"LLN0">>, "BR"),
    ReadCall(D1, <<"LLN0", "Mod", "f">>, "ST"), ReadCall(<<"LD1">>, <<"LLN0">>, "ST"),
    NamesCall(<<>>, 9), NamesCall(D1, 0), NamesCall(D2, 0), NamesCall(D1, 2), NamesCall(D1, 5),
    Make("attributes", D1, <<"LLN0">>, "NONE"), Make("attributes", D1, <<"LLN0">>, "BR"),
    Make("attributes", D1, <<"LLN0", "Mod", "q">>, "ST"),
    Make("attributes", D1, <<"LLN0">>, "ST"),
    Make("readList", D1, <<"LLN0">>, "ds1"), Make("readList", D1, <<"LLN0">>, "q"),
    Make("listAttributes", D1, <<"LLN0">>, "ds1"),
    Make("ReadDataSetValues", D1, <<"LLN0", "ds1">>, "NONE"),
    [Make("GetRCBValues", D1, Block1, "NONE") EXCEPT !.ref.sep = "$"],
    Make("GetRCBValues", D1, Block1, "NONE"),
    Make("identify", D1, <<"LLN0">>, "NONE")>>

WriterCalls ==
  <<ReadCall(D1, <<"LLN0", "Mod", "stVal">>, "ST"),
    WriteCall(<<"LD1">>, <<"LLN0", "Mod", "stVal">>, "NONE", True),
    WriteCall(<<"LD2">>, <<"LLN0", "Mod", "stVal">>, "NONE", NewBoolean(FALSE)),
    WriteCall(D1, <<"LLN0", "Mod", "stVal">>, "ST", True),
    WriteCall(D1, <<"LLN0", "brcb1", "GI">>, "BR", True),
    SetCall(D1, Block1, ".", {}), Enable({}), Enable(Header), Enable({"timeStamp", "confRev"}),
    Enable({"entryID"}), Enable({"dataReference", "reasonForInclusion"}),
    EnableOne(Header \union {"dataReference", "reasonForInclusion"}),
    EnableOne({"reasonForInclusion"})>>

ClientsOf == {"reader", "writer"}
CallsOf == [c \in ClientsOf |-> IF c = "reader" THEN ReaderCalls ELSE WriterCalls]
WriterOnly == {"writer"}

UpdatesOf ==
  <<[path |-> ModSt("LD1"), value |-> NewBoolean(FALSE)],
    [path |-> ModSt("LD2"), value |-> True],
    [path |-> <<"LD1", "MMXU1", "TotW", "mag", "f">>, value |-> Atom("float", <<64, 0, 0, 0>>)]>>
=============================================================================
