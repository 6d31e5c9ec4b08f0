---------------------------- MODULE MCIndexRebuild ----------------------------
(* Two documents, one of them in the vault of scoped requests.  Two of the  *)
(* three identities differ in their prefixes alone.                         *)
EXTENDS IndexRebuild, TLC

CONSTANTS f1, f2, m1, m1p, m2

MCFiles == {f1, f2}
MCVault == {f1}
MCName == m1 :> "m1" @@ m1p :> "m1" @@ m2 :> "m2"
===============================================================================
