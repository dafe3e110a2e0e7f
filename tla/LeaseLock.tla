------------------------------ MODULE LeaseLock ------------------------------
(***************************************************************************)
(* What a lease promises its owner, without rows, clocks or requests: each *)
(* run is a lock.  A lock that is held goes to nobody else before it was   *)
(* free, whether its holder gave it up or the time ran out.                *)
(***************************************************************************)
CONSTANTS Runs, Owners, None

VARIABLE holder

TypeOK == holder \in [Runs -> Owners \cup {None}]

Init == holder = [r \in Runs |-> None]

\* One owner takes free runs, several at once when it claims a batch.
Grant(w, S) ==
    /\ \A r \in S : holder[r] = None
    /\ holder' = [r \in Runs |-> IF r \in S THEN w ELSE holder[r]]

\* Runs become free, several at once when the clock passes their expiry.
Release(S) == holder' = [r \in Runs |-> IF r \in S THEN None ELSE holder[r]]

Next == \E S \in SUBSET Runs : Release(S) \/ \E w \in Owners : Grant(w, S)

Spec == Init /\ [][Next]_holder
=============================================================================
