------------------------------ MODULE MCRouter ------------------------------
(* Two Workers, two requests, and reports of every kind the code tells      *)
(* apart.                                                                   *)
EXTENDS Router

Report(i, health, readiness, draining, busy) ==
  [identity |-> i, health |-> health, readiness |-> readiness,
   draining |-> draining, busy |-> busy]

\* One identity: plain, draining by any one sign, unhealthy, busy.  The others:
\* plain.
MCReports ==
  LET i == CHOOSE i \in Identities : TRUE
  IN  {Report(i, "", "", TRUE, FALSE),
       Report(i, "ready", "draining", FALSE, FALSE),
       Report(i, "draining", "", FALSE, TRUE),
       Report(i, "unhealthy", "", FALSE, FALSE),
       Report(i, "other", "", FALSE, FALSE)}
        \cup {Report(j, "", "", FALSE, FALSE) : j \in Identities}
=============================================================================
