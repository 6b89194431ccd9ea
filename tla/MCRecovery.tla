------------------------------ MODULE MCRecovery ------------------------------
(***************************************************************************)
(* A small instance of Recovery for TLC.                                   *)
(***************************************************************************)
EXTENDS Recovery

CONSTANTS e1, p1, p2, d1, d2, r1

MCIdOf == [p \in Payloads |-> e1]
MCCarries == [d \in Deliveries |-> IF d = d2 THEN p2 ELSE p1]
=============================================================================
