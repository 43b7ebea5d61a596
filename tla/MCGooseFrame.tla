---------------------------- MODULE MCGooseFrame ----------------------------
(* Small instances of GooseFrame. *)
EXTENDS GooseFrame

Octets(n) == [k \in 1..n |-> k % 251]
Time(s, q, accuracy) == UTCTime(s, 16777215, q, accuracy)

(* Where an integer, a length or a tag grows by an octet, and the largest  *)
(* numbers TLC represents.                                                 *)
Numbers == <<0, 1, 30, 31, 127, 128, 255, 256, 16383, 16384, 32767, 32768, 65535,
            65536, 8388608, 16777215, 16777216, 2147483647>>

(* Data sets with a value of every type, the nested and the empty ones,    *)
(* one longer than the receive buffer and one that wraps the length field. *)
DataSets ==
  <<<<>>,
   <<NewBoolean(TRUE), NewBoolean(FALSE)>>,
   <<NewInteger(-129), NewInteger(128), NewUnsigned(65535)>>,
   <<Atom("float", <<64, 73, 15, 219>>), Atom("float", Octets(8))>>,
   <<NewBitString(<<170, 128>>, 9), NewBitString(<<240>>, -4), NewBitString(<<>>, 0)>>,
   <<Atom("octetString", Octets(130)), Atom("visibleString", <<65>>), Atom("string", <<>>)>>,
   <<Atom("utcTime", Time(1, 224, 7)),
     Atom("binaryTime", [milliseconds |-> 86399999, days |-> 12345, size |-> 6]),
     Atom("binaryTime", [milliseconds |-> 5, days |-> 0, size |-> 4])>>,
   <<NewStructure(<<NewStructure(<<>>), NewArray(<<NewInteger(1), NewInteger(2)>>)>>)>>,
   <<Atom("octetString", Octets(5000))>>,
   <<Atom("octetString", Octets(65600))>> >>

Pdu(data, st, sq, id) ==
  [goCBRef |-> <<71, 79>>, timeAllowedToLive |-> 2000, dataSet |-> <<68>>,
   goID |-> id, t |-> Time(1700000000, 64, 10), stNum |-> st, sqNum |-> sq,
   test |-> id = <<>>, confRev |-> 1, ndsCom |-> id # <<>>,
   numDatSetEntries |-> Len(data) + 1, allData |-> data]

(* Every number with a plain data set, every data set with one number.     *)
PdusOf ==
  [k \in DOMAIN Numbers |->
     Pdu(<<NewBoolean(TRUE)>>, Numbers[k], 2147483647 - Numbers[k], <<>>)]
  \o [k \in DOMAIN DataSets |-> Pdu(DataSets[k], 1, 0, <<73>>)]

Address(id, priority, vlan) ==
  [dst |-> <<1, 12, 205, 1, 0, 0>>, src |-> <<0, 17, 34, 51, 68, 85>>,
   appID |-> id, vlanPriority |-> priority, vlanID |-> vlan]

AddressesOf == {Address(4096, 0, 0), Address(1, 4, 0), Address(65535, 7, 4095)}
QualitiesOf == {0, 1, 4096, 8191, 2730, 8000}
CutsOf == (0..40) \union {60, 80, 100, 4000}
=============================================================================
