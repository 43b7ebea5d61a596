-------------------------- MODULE MCGoosePublisher --------------------------
(* Small instances of GoosePublisher. *)
EXTENDS GoosePublisher

CONSTANTS t1, t2, v1, v2

First == {t1}
Both == {t1, t2}
Values == {v1, v2}
=============================================================================
