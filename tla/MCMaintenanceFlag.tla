--------------------------- MODULE MCMaintenanceFlag --------------------------
(* Two processes; the first toggles and serves from two threads each.      *)
EXTENDS MaintenanceFlag, TLC

CONSTANTS p1, p2, s1, s2, r1, r2

MCProcs == {p1, p2}
MCSetters == {s1, s2}
MCRequests == {r1, r2}

\* Both setters in one process and a request in each.
MCOneHome == s1 :> p1 @@ s2 :> p1 @@ r1 :> p1 @@ r2 :> p2

===============================================================================
