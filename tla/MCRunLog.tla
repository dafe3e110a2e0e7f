------------------------------- MODULE MCRunLog -------------------------------
(* Small instances of RunLog.                                              *)
EXTENDS RunLog, TLC

CONSTANTS t1, t2, t3, k1, k2, c1, n1, n2

Op(kind, stream_, keys) == [kind |-> kind, stream |-> stream_, keys |-> keys]

MCOps == {Op("put", "run", {k1}), Op("patch", "run", {k2}), Op("save", "run", {}),
          Op("snapshot", "doc", {k1}), Op("put", "doc", {k2}),
          Op("save", "doc", {}), Op("other", "run", {}),
          Op("lifecycle", "run", {})}

StateOps == {Op("put", "run", {k1}), Op("patch", "run", {k2}), Op("save", "run", {})}

LogSymmetry == Permutations(Writers) \cup Permutations(Replicas)
=============================================================================
