------------------------------ MODULE MCGrants ------------------------------
(* Small instances of Grants.                                              *)
EXTENDS Grants, TLC

CONSTANTS g1, g2, r1, a1, a2, a3, p1, p2, x1, x2, x3, s1, s2

MCEnv == [b \in {"kms", "nango", "openbao", "devOk"} |-> b \in {"nango", "devOk"}]

\* The third agent, and its resource, have no principal.
MCPrincipalOf == (a1 :> p1) @@ (a2 :> p2) @@ (a3 :> None)
MCOwnerOf     == (x1 :> p1) @@ (x2 :> p2) @@ (x3 :> None)
MCProviderOf  == [x \in Resources |-> IF x = x1 THEN "nango" ELSE "static"]
MCCeiling     == [x \in Resources |-> CASE x = x1 -> {s1} [] x = x2 -> {s2} [] OTHER -> {}]

Ask(a, x, matches, verb, mode, scopes, max) ==
    [run |-> r1, agent |-> a, resource |-> x, action |-> [matches |-> matches, verb |-> verb],
     mode |-> mode, scopes |-> scopes, max |-> max, ttl |-> 1]

\* Two uses of a listed action, minted; a request refused for its scope; a
\* sensitive action of the other principal, approved first; a request refused for
\* its action, and a listed action, of the agent without a principal.
MCAsks == {Ask(a1, x1, {"standard"}, "read", "mint", {s1}, 2),
           Ask(a1, x1, {"standard"}, "read", "proxy", {s2}, 1),
           Ask(a2, x2, {"sensitive", "standard"}, "write", "proxy", {}, 1),
           Ask(a3, x3, {"destructive", "standard"}, "delete", "proxy", {}, 1),
           Ask(a3, x3, {"standard"}, "create", "proxy", {}, 1)}
=============================================================================
