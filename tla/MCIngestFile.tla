----------------------------- MODULE MCIngestFile -----------------------------
(***************************************************************************)
(* Two workers on one file, for TLC.                                       *)
(***************************************************************************)
EXTENDS IngestFile

CONSTANTS w1, w2

MCWorkers == {w1, w2}
MCRoutes == {"cancel", "retry", "delete"}
MCCancelRetry == {"cancel", "retry"}

\* Bound: a file is retried or deleted, not both.
OneRoute == retry.pc = "due" \/ del = "due"
===============================================================================
