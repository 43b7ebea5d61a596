--------------------------- MODULE MCAssociation ---------------------------
(* Small instances of Association. *)
EXTENDS Association

(* Around the lengths where a length field grows, the password's octet     *)
(* wraps and the CN SPDU overflows.                                        *)
Passwords == {0, 1, 20, 87, 88, 127, 128, 255, 256, 300, 400, 512}

(* Around the lengths where a length field of one of the blocks grows.     *)
Pdus == {0, 1, 125, 126, 128, 250, 256, 65524, 65525, 65535}
=============================================================================
