------------------------- MODULE MCComplianceStore -------------------------
(* Two publications of two documents, signed.                          *)
EXTENDS ComplianceStore

TwoRuns == <<"r1", "r2">>
TwoDocuments == <<"summary", "report">>
Alphabetical == <<"integrity", "signature", "report", "summary">>

Requesting == reader.at # "idle"

\* Bounds.  Of the publications, the maintenance and the request no more than two are
\* under way at a time, and no more than one publication is abandoned.  Once there
\* has been maintenance a request is a listing, and none is made during a backup, of
\* which it sees nothing.  The second operation is a restore; a request meets it when
\* everything has been published and nothing altered.
Bounds ==
  /\ Cardinality({r \in Runs : pub[r] \in 1 .. Signature})
     + (IF maint.op = "none" THEN 0 ELSE 1) + (IF Requesting THEN 1 ELSE 0) <= 2
  /\ Cardinality({r \in Runs : pub[r] = Failed}) <= 1
  /\ Requesting /\ maint.n > 0 => reader.op = "list" /\ maint.op # "backup"
  /\ maint.n = 2 => /\ maint.op \in {"clear", "restore", "none"}
                    /\ Requesting => damage = 0 /\ \A r \in Runs : pub[r] = Done
=============================================================================
