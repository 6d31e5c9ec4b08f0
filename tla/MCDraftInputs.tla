----------------------------- MODULE MCDraftInputs -----------------------------
(* One input, two requests that delete it or its draft.                    *)
EXTENDS DraftInputs

CONSTANTS d1, d2

===============================================================================
