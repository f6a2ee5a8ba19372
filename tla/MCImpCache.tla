---------------------------- MODULE MCImpCache -----------------------------
(* Instances of ImpCache for TLC: k1 and k2 hash to the last slot of the
   smallest cache, so that probes collide and wrap around. *)
EXTENDS ImpCache, TLC

CONSTANTS k1, k2

MCHome == (k1 :> 3) @@ (k2 :> 3)
=============================================================================
