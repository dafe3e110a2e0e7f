----------------------------- MODULE GrantPolicy -----------------------------
(***************************************************************************)
(* The pure decisions of the credential broker: the policy (policy.ts) and *)
(* the choice of a backend (providers.ts).  An action is the set of rules  *)
(* whose pattern its name matches, and the verb after its last dot.        *)
(***************************************************************************)
EXTENDS Naturals, FiniteSetsExt

CONSTANT Env    \* which backends the server is configured with

ASSUME EnvType == Env \in [{"kms", "nango", "openbao", "devOk"} -> BOOLEAN]

Modes     == {"proxy", "mint"}
Providers == {"static", "nango", "openbao"}
Methods   == {"GET", "HEAD", "POST", "PUT", "PATCH", "DELETE"}
Verbs     == {"read", "create", "write", "delete", "other"}
RuleNames == {"destructive", "sensitive", "standard"}
Actions   == [matches: SUBSET RuleNames, verb: Verbs]

\* Fault: what is listed is looked up first.
MatchedListedFirst(action) ==
    IF "standard" \in action.matches THEN "standard"
    ELSE IF "destructive" \in action.matches THEN "destructive"
    ELSE IF "sensitive" \in action.matches THEN "sensitive"
    ELSE "default"

\* The first rule an action matches; the default rule when it matches none.
MatchedRule(action) ==
    IF "destructive" \in action.matches THEN "destructive"
    ELSE IF "sensitive" \in action.matches THEN "sensitive"
    ELSE IF "standard" \in action.matches THEN "standard"
    ELSE "default"

Effect(action) ==
    CASE MatchedRule(action) = "destructive" -> "deny"
      [] MatchedRule(action) \in {"sensitive", "default"} -> "approval"
      [] MatchedRule(action) = "standard" -> "allow"

GrantedMode(action, mode) ==
    IF MatchedRule(action) \in {"sensitive", "default"} THEN "proxy" ELSE mode

\* The methods a verb permits; a verb that is not listed is not constrained.
Permitted(verb) ==
    CASE verb = "read"   -> {"GET", "HEAD"}
      [] verb = "create" -> {"POST", "PUT"}
      [] verb = "write"  -> {"POST", "PUT", "PATCH"}
      [] verb = "delete" -> {"DELETE"}
      [] OTHER -> Methods

\* Without its own configuration a provider is simulated, or refused.
Fallback == IF Env["devOk"] THEN "dev" ELSE "failclosed"

Backend(provider) ==
    CASE provider = "static" /\ Env["kms"]      -> "vault"
      [] provider = "nango" /\ Env["nango"]     -> "nango"
      [] provider = "openbao" /\ Env["openbao"] -> "openbao"
      [] OTHER -> Fallback

CanMint(provider) == Backend(provider) \in {"nango", "openbao"}

\* What acquireCredential may return: the vault may lack the secret or its key,
\* a service may refuse or time out.
Acquired(backend) == IF backend = "dev" THEN {"none"} ELSE {"credential", "failed"}

\* What executeProxy may return; only the simulation succeeds without a secret.
Proxied(credential) ==
    IF credential = "none" THEN {"simulated"} ELSE {"answered", "ssrf_blocked", "upstream_unreachable"}
=============================================================================
