--------------------------- MODULE AppendOnlyLog ---------------------------
(***************************************************************************)
(* What the event log of a run promises (README.md, "per-run event logs    *)
(* are gap-free and strictly ordered"): a sequence that only ever grows at *)
(* its end.                                                                *)
(***************************************************************************)
EXTENDS Naturals, Sequences, SequencesExt

VARIABLE log

Init == log = <<>>

Next == IsStrictPrefix(log, log')

Spec == Init /\ [][Next]_log
=============================================================================
