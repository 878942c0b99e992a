----------------------------- MODULE MC_Server -----------------------------
(* An old process and a new one that was built with one migration more. *)
EXTENDS Server

CONSTANTS s1, s2

MCKnown == [s \in Process |-> IF s = s1 THEN 1 ELSE 2]

(* One process with all the traffic, and several that start again and again. *)
MCBudgets ==
    {[starts |-> [s \in Process |-> IF s = s1 THEN 0 ELSE 1], events |-> 2],
     [starts |-> [s \in Process |-> IF s = s1 THEN 1 ELSE 2], events |-> 1]}
=============================================================================
