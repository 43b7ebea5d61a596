---------------------------- MODULE TsduChannel ----------------------------
(***************************************************************************)
(* What the COTP layer promises its users (pkg/cotp): in each direction of *)
(* a connection a TSDU handed to Send comes out of the peer's Receive      *)
(* whole, once, and in the order in which the Sends went to the wire.      *)
(* Segmentation is invisible.  The connection may be lost at any moment,   *)
(* so nothing here says that a TSDU must arrive.                           *)
(***************************************************************************)
EXTENDS Naturals, Sequences

CONSTANTS Side,      \* the two ends of the connection
          Payload    \* the TSDUs that may be sent

VARIABLES sent,      \* sent[s]: the TSDUs side s has handed to Send
          rcvd       \* rcvd[s]: those of them Receive returned at the peer

chanVars == <<sent, rcvd>>

Init ==
  /\ sent = [s \in Side |-> << >>]
  /\ rcvd = [s \in Side |-> << >>]

Submit(s) ==
  \E p \in Payload :
    /\ sent' = [sent EXCEPT ![s] = Append(@, p)]
    /\ UNCHANGED rcvd

Deliver(s) ==
  /\ Len(rcvd[s]) < Len(sent[s])
  /\ rcvd' = [rcvd EXCEPT ![s] = Append(@, sent[s][Len(rcvd[s]) + 1])]
  /\ UNCHANGED sent

Next == \E s \in Side : Submit(s) \/ Deliver(s)

Spec == Init /\ [][Next]_chanVars
=============================================================================
