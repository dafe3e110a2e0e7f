------------------------------- MODULE MCSteps -------------------------------
(* Small instances of Steps.                                               *)
EXTENDS Steps, TLC

CONSTANTS s1, s2, p1, p2, w1, w2, w3, h1, h2

Parked == [s \in Steps |-> "manual_review"]

CallSymmetry == Permutations(Procs) \cup Permutations(Hashes)
=============================================================================
