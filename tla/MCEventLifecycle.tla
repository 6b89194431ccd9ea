-------------------------- MODULE MCEventLifecycle --------------------------
(***************************************************************************)
(* Small instances of EventLifecycle for TLC.                              *)
(***************************************************************************)
EXTENDS EventLifecycle, TLC

CONSTANTS e1, e2, p1, p2, p3, d1, d2, r1, r2, r3

\* p1 and p2 are two bodies with the same external id, p3 is another event.
MCIdOf == [p \in Payloads |-> IF p = p3 THEN e2 ELSE e1]

MCSymmetry == Permutations(Deliveries) \cup Permutations(Replays)

\* Where nothing distinguishes the bodies of the one event.
MCBodySymmetry == MCSymmetry \cup Permutations(Payloads)
=============================================================================
