-------------------------------- MODULE MCGates -------------------------------
(* Small instances of Gates.                                               *)
EXTENDS Gates, TLC

CONSTANTS g1, c1, c2, a1, a2, chDone, chNew

MCWants == chDone :> {"run.completed", "run.cancelled", "gate.resolved"} @@ chNew :> {"gate.created"}

\* One invocation calls its gate again, before or after it was decided.
MCMaxCalls == c1 :> 2 @@ c2 :> 1
=============================================================================
