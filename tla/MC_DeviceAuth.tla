--------------------------- MODULE MC_DeviceAuth ---------------------------
(* One sign-in, approved up to three times by two accounts, two approvals at *)
(* once; a life of two ticks, so that the deadline can fall between any two  *)
(* steps.                                                                    *)
EXTENDS DeviceAuth

CONSTANTS d1, u1, u2, k1, k2, k3, a1, a2
=============================================================================
