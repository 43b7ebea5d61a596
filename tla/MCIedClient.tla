----------------------------- MODULE MCIedClient -----------------------------
(* Small instances of IedClient. *)
EXTENDS IedClient

CONSTANTS k1, k2

NoCalls == {}
OneCall == {k1}
TwoCalls == {k1, k2}
=============================================================================
