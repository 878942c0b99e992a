---------------------------- MODULE MC_Admission ----------------------------
(* Two accounts, one key and two requests in flight: enough for a lookup to *)
(* race a revocation, for two fills of the key to overlap and for the key   *)
(* to change hands if anything let it.  Counters that move go with one      *)
(* request at a time.                                                       *)
EXTENDS Admission

CONSTANTS u1, u2, k1, bad, r1, r2

MCBudgets == {[slots |-> {r1, r2}, levels |-> {}], [slots |-> {r1}, levels |-> {1, 20}]}
=============================================================================
