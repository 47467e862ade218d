----------------------------- MODULE MCJobLedger -----------------------------
(***************************************************************************)
(* The finite instance of JobLedger: one job, and everything that can      *)
(* overlap with its polling.                                               *)
(***************************************************************************)
EXTENDS JobLedger

CONSTANTS p1, s1, s2, heal

OneJob == {p1}
\* the jobs and the achievements of one refresh of the page
PageRequests == {s1, s2}
=============================================================================
