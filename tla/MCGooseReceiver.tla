-------------------------- MODULE MCGooseReceiver ---------------------------
(* Small instances of GooseReceiver. *)
EXTENDS GooseReceiver, TLC

CONSTANTS s1, s2, a1, a2

Subscribers == {s1, s2}
AppIDs == {a1, a2}
Filters == s1 :> AcceptAll @@ s2 :> a1
=============================================================================
