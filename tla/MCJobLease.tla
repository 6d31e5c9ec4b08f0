------------------------------ MODULE MCJobLease ------------------------------
(* One row, two worker loops, each of the three kinds of queue.  *)
EXTENDS JobLease

CONSTANTS w1, w2

MCOneJob == {1}
MCTwoWorkers == {w1, w2}
MCKinds == {"ingestion", "compile", "reindex"}
===============================================================================
