------------------------------- MODULE MCCotp -------------------------------
(* Small instances of Cotp. *)
EXTENDS Cotp

CONSTANTS t1, t2, a, b, c

OneTaskSet == {t1}
TwoTasks == {t1, t2}

\* An empty TSDU, one that fits a segment of one octet and one that does not.
MCByte == {a, b, c}
MCPayload == {<< >>, <<a>>, <<a, b, c>>}
SmallPayload == {<<a>>, <<b, c>>}

\* Code 2 leaves one octet per segment, code 3 five.
MCSizeCode == {2, 3}
SmallSizeCode == {2}
LargeSizeCode == {3}
=============================================================================
