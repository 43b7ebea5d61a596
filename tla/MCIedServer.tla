----------------------------- MODULE MCIedServer -----------------------------
(* Small instances of IedServer. *)
EXTENDS IedServer

CONSTANTS c1, c2, r1, r2, u1, u2

OneConn == {c1}
TwoConns == {c1, c2}
OneRcb == {r1}
TwoRcbs == {r1, r2}
OneUpdater == {u1}
TwoUpdaters == {u1, u2}

NoFields == {}
RptEnaOnly == {"RptEna"}
ReportFields == {"RptEna", "GI"}
TriggerFields == {"RptEna", "GI", "TrgOps"}
=============================================================================
