---------------------------- MODULE MC_Metering ----------------------------
(* Two accounts share two slots.  Two requests of one account in flight are   *)
(* enough to reach its quota and to pass it, and a completion that was        *)
(* counted twice does so alone.                                               *)
EXTENDS Metering

CONSTANTS u1, u2, s1, s2

MCQuota == [u \in Users |-> 2]
=============================================================================
