-------------------------- MODULE MCAdmissionControl --------------------------
(* Chat requests and background jobs on one budget key.                    *)
EXTENDS AdmissionControl

CONSTANTS c1, b1, b2, h

MCClassOf == c1 :> "chat" @@ b1 :> "background" @@ b2 :> "background"
MCPair == c1 :> "chat" @@ b1 :> "background"
MCAll == Stages \cup {"granted"}
MCWaiters == {"counting", "queued"}

===============================================================================
