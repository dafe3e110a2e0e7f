------------------------------ MODULE WriteOnce ------------------------------
(***************************************************************************)
(* What a gate promises (README.md:213, gates "resolve exactly once ...    *)
(* and replay their decision on resume"), without rows, locks, requests or *)
(* endpoints: a gate is opened, decided once, and whoever learns of a      *)
(* decision, at once or much later, learns of that one.                    *)
(***************************************************************************)
CONSTANTS Gates, Decisions, None

VARIABLES
    state,      \* of each gate: None, "pending" or its decision
    learned     \* the decisions that were told of each gate

Init ==
    /\ state = [n \in Gates |-> None]
    /\ learned = [n \in Gates |-> {}]

Open(n) ==
    /\ state[n] = None /\ state' = [state EXCEPT ![n] = "pending"]
    /\ UNCHANGED learned

Decide(n, d) ==
    /\ state[n] = "pending" /\ state' = [state EXCEPT ![n] = d]
    /\ UNCHANGED learned

Learn(n) ==
    /\ state[n] \in Decisions /\ learned' = [learned EXCEPT ![n] = {state[n]}]
    /\ UNCHANGED state

Next == \E n \in Gates : Open(n) \/ (\E d \in Decisions : Decide(n, d)) \/ Learn(n)

Spec == Init /\ [][Next]_<<state, learned>>
=============================================================================
