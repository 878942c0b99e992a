----------------------------- MODULE MC_KeyAuth -----------------------------
(* Two accounts, one key and two requests in flight: enough for a lookup to *)
(* race a revocation, for two fills of the key to overlap and for the key   *)
(* to change hands if anything let it.                                      *)
EXTENDS KeyAuth

CONSTANTS u1, u2, k1, bad, free, pro, r1, r2
=============================================================================
