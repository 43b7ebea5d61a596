---------------------------- MODULE Association ----------------------------
(***************************************************************************)
(* A client and a server that set up an association over one COTP          *)
(* connection and then exchange MMS PDUs: the handshake and the data phase *)
(* of DialWithOptions, sendAndReceive and readLoop on one side, of         *)
(* serverConn.handle on the other, octet for octet.                        *)
(*                                                                         *)
(* up and down are the TSDUs on their way to the server and the client;    *)
(* COTP delivers them whole and in order (module Cotp).                    *)
(***************************************************************************)
EXTENDS Framing

CONSTANTS
  PasswordLengths,  \* lengths of the passwords that BuildAARQ may be given
  PduLengths,       \* lengths of the MMS PDUs of the data phase
  MaxPdus           \* PDUs each side may send: the bound of the model

ASSUME AssociationAssumption ==
       /\ PasswordLengths \subseteq Nat
       /\ \A n \in PduLengths : n \in Nat /\ n <= 65535
       /\ MaxPdus \in Nat

VARIABLES
  password,   \* NoPassword, or the octets given to BuildAARQ
  client,     \* "idle", "waiting", "connected" or "failed"
  server,     \* "waiting", "serving" or "closed"
  up, down,   \* TSDUs in flight
  called,     \* what the server read in the Initiate request
  calling,    \* what the client read in the Initiate response
  asked, answered,     \* lengths of the PDUs sent by the client, the server
  heard, read          \* PDUs the server, the client took out of the frames

vars == <<password, client, server, up, down, called, calling,
          asked, answered, heard, read>>

(* An MMS PDU of n octets that differs at neighbouring places.             *)
Pdu(n) == [k \in 1..n |-> k % 251]

Init ==
  /\ password \in {NoPassword} \union {Pdu(n) : n \in PasswordLengths}
  /\ client = "idle"
  /\ server = "waiting"
  /\ up = <<>> /\ down = <<>>
  /\ called = Fail /\ calling = Fail
  /\ asked = <<>> /\ answered = <<>>
  /\ heard = <<>> /\ read = <<>>

(* DialWithOptions up to its first Receive.                                *)
ConnectRequest ==
  BuildConnectSPDU(BuildConnectPDU(BuildAARQ(password, EncodeInitiateRequest)))

Dial ==
  /\ client = "idle"
  /\ client' = "waiting"
  /\ up' = Append(up, ConnectRequest)
  /\ UNCHANGED <<password, server, down, called, calling, asked, answered, heard, read>>

(* What handle answers: always that the association is accepted.           *)
ConnectResponse ==
  BuildAcceptSPDU(BuildConnectAcceptPDU(BuildAARE(EncodeInitiateResponse)))

(* handle up to its loop: an error in any layer closes the connection, one *)
(* in the Initiate PDU itself does not.                                    *)
Handshake ==
  /\ server = "waiting"
  /\ up # <<>>
  /\ up' = Tail(up)
  /\ LET initiate == Then(Then(ParseConnectSPDU(Head(up)), ParseConnectAcceptPDU), ParseAARQ)
     IN IF initiate.ok
        THEN /\ server' = "serving"
             /\ called' = ParseInitiateRequest(initiate.val)
             /\ down' = Append(down, ConnectResponse)
        ELSE /\ server' = "closed"
             /\ called' = initiate
             /\ UNCHANGED down
  /\ UNCHANGED <<password, client, calling, asked, answered, heard, read>>

(* DialWithOptions after its first Receive.                                *)
Connected ==
  /\ client = "waiting"
  /\ down # <<>>
  /\ down' = Tail(down)
  /\ calling' = Then(Then(Then(ParseConnectResponseSPDU(Head(down)),
                               ParseConnectAcceptPDU), ParseAARE), ParseInitiateResponse)
  /\ client' = IF calling'.ok THEN "connected" ELSE "failed"
  /\ UNCHANGED <<password, server, up, called, asked, answered, heard, read>>

Refused ==
  /\ client = "waiting"
  /\ down = <<>>
  /\ server = "closed"
  /\ client' = "failed"
  /\ UNCHANGED <<password, server, up, down, called, calling, asked, answered, heard, read>>

Wrap(pdu) == WrapDataSPDU(WrapUserData(pdu))
Unwrap(tsdu) == Then(UnwrapDataSPDU(tsdu), UnwrapUserData)

(* sendAndReceive, and the top of the server's loop: what does not unwrap  *)
(* is skipped without an answer.                                           *)
Request(n) ==
  /\ client = "connected"
  /\ Len(asked) < MaxPdus
  /\ asked' = Append(asked, n)
  /\ up' = Append(up, Wrap(Pdu(n)))
  /\ UNCHANGED <<password, client, server, down, called, calling, answered, heard, read>>

Serve ==
  /\ server = "serving"
  /\ up # <<>>
  /\ up' = Tail(up)
  /\ heard' = Append(heard, Unwrap(Head(up)))
  /\ UNCHANGED <<password, client, server, down, called, calling, asked, answered, read>>

(* The end of the server's loop, or sendReport; and readLoop.              *)
Respond(n) ==
  /\ server = "serving"
  /\ Len(answered) < MaxPdus
  /\ answered' = Append(answered, n)
  /\ down' = Append(down, Wrap(Pdu(n)))
  /\ UNCHANGED <<password, client, server, up, called, calling, asked, heard, read>>

ReadLoop ==
  /\ client = "connected"
  /\ down # <<>>
  /\ down' = Tail(down)
  /\ read' = Append(read, Unwrap(Head(down)))
  /\ UNCHANGED <<password, client, server, up, called, calling, asked, answered, heard>>

Next ==
  \/ Dial \/ Handshake \/ Connected \/ Refused
  \/ Serve \/ ReadLoop
  \/ \E n \in PduLengths : Request(n) \/ Respond(n)

Spec == Init /\ [][Next]_vars
-----------------------------------------------------------------------------
(* The overhead of the three presentation blocks around a long PDU, and    *)
(* the largest PDU that fits under their two-octet lengths.                *)
LargestPdu == 65535 - 11

(* A CP PPDU that fits the one-octet length of the CN SPDU.                *)
FitsSession == Len(ConnectRequest) <= 257

(* With a password of at most this many octets no length of the AARQ and   *)
(* of ISO presentation wraps, only the length octet of the CN SPDU may.    *)
(* The client of this repository sends no password at all.                 *)
LargestPassword == 65535 - 150
PasswordsCarried == \A n \in PasswordLengths : n <= LargestPassword

(* No side slices past the end of a buffer while it takes a frame of the   *)
(* other apart: the parsers of acse, isopresentation and isosession slice  *)
(* without looking, and the length octet of the CN SPDU wraps.             *)
NoSlicePanic ==
  /\ \A k \in DOMAIN heard : ~heard[k].ok => ~heard[k].panic
  /\ \A k \in DOMAIN read : ~read[k].ok => ~read[k].panic
  /\ ~called.ok => ~called.panic
  /\ ~calling.ok => ~calling.panic

(* An association is set up only with what was proposed: when the client   *)
(* is connected the server serves it, and each side has read the Initiate  *)
(* parameters the other encoded, through four layers of framing.  A        *)
(* request whose length octet wraps is refused, never misread: the server  *)
(* serves exactly the clients whose CP PPDU fits the CN SPDU.              *)
Agreement == [localDetail |-> 65000, maxOutstanding |-> 5]

Agreed ==
  /\ client = "connected" =>
       /\ server = "serving"
       /\ called.ok /\ called.val = Agreement
       /\ calling.ok /\ calling.val = called.val
  /\ server = "serving" => FitsSession
  /\ server = "closed" => ~FitsSession

(* What a side takes out of a frame is what the other put in, or nothing;  *)
(* and it is nothing only for a PDU that the two-octet lengths of the      *)
(* presentation layer cannot carry.                                        *)
FrameExact(sent, got) ==
  \A k \in DOMAIN got :
    IF sent[k] <= LargestPdu THEN got[k].ok /\ got[k].val = Pdu(sent[k])
    ELSE ~got[k].ok

PdusExact == FrameExact(asked, heard) /\ FrameExact(answered, read)
-----------------------------------------------------------------------------
(* The inductive invariant behind PdusExact, in parts.                     *)
DataFrames == {Wrap(Pdu(n)) : n \in PduLengths}
Readings == {Unwrap(f) : f \in DataFrames}

(* Types; once the Connect is taken, only data frames travel up.           *)
TypeOK ==
  /\ client \in {"idle", "waiting", "connected", "failed"}
  /\ server \in {"waiting", "serving", "closed"}
  /\ asked \in Seq(PduLengths) /\ answered \in Seq(PduLengths)
  /\ heard \in Seq(Readings) /\ read \in Seq(Readings)
  /\ server # "waiting" => up \in Seq(DataFrames)
  /\ down \in Seq({ConnectResponse} \union DataFrames)

(* Which states of the two sides meet, and that no data is exchanged       *)
(* before both have done their part of the handshake.                      *)
PhaseInv ==
  /\ client = "idle" => server = "waiting" /\ up = <<>>
  /\ server = "waiting" => client \in {"idle", "waiting"} /\ down = <<>>
  /\ server = "waiting" /\ client = "waiting" => Tail(up) = <<>>
  /\ client = "connected" => server = "serving"
  /\ client # "connected" => asked = <<>> /\ read = <<>>
  /\ server # "serving" => answered = <<>> /\ heard = <<>> /\ down = <<>>

(* What was sent is what was taken out, in order, followed by what is      *)
(* still in flight.                                                        *)
Flow(sent, inFlight, got) ==
  /\ Len(sent) = Len(got) + Len(inFlight)
  /\ \A k \in 1..Len(got) : got[k] = Unwrap(Wrap(Pdu(sent[k])))
  /\ \A k \in 1..Len(inFlight) : inFlight[k] = Wrap(Pdu(sent[Len(got) + k]))

(* Until the client has read the answer to its Connect, that answer leads  *)
(* the frames on their way down: a report may already follow it.           *)
FlowInv ==
  /\ server # "waiting" => Flow(asked, up, heard)
  /\ client = "connected" => Flow(answered, down, read)
  /\ client = "waiting" /\ server = "serving" =>
       down # <<>> /\ Flow(answered, Tail(down), read)

AssociationInv == TypeOK /\ PhaseInv /\ FlowInv

(* The inductive invariant behind Agreed and NoSlicePanic: what each side  *)
(* has read in the handshake, or is about to read.                         *)
AgreementInv ==
  /\ password \in {NoPassword} \union {Pdu(n) : n \in PasswordLengths}
  /\ server = "waiting" => called = Fail
  /\ server = "waiting" /\ client = "waiting" => up = <<ConnectRequest>>
  /\ server = "serving" => FitsSession /\ called = Decoded(Agreement, 1)
  /\ server = "closed" => ~FitsSession /\ called = Fail
  /\ client = "waiting" /\ server = "serving" => Head(down) = ConnectResponse
  /\ calling = IF client = "connected" THEN Decoded(Agreement, 1) ELSE Fail
=============================================================================
