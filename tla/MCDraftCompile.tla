---------------------------- MODULE MCDraftCompile ----------------------------
(* One draft, two processes that run its compile jobs.                     *)
EXTENDS DraftCompile

CONSTANTS w1, w2

===============================================================================
