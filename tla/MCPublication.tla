---------------------------- MODULE MCPublication -----------------------------
(* An instance of Publication for TLC: two runs publish the same content, one   *)
(* of them to the official registry too, a third one another content under the  *)
(* same ref, and a fourth one is a dry run for both registries.                 *)
EXTENDS Publication

CONSTANTS own, twin, rival, trial, original, changed

MCContentOf == [j \in Jobs |-> IF j = rival THEN changed ELSE original]
=============================================================================
