-------------------------------- MODULE Grants --------------------------------
(***************************************************************************)
(* The grants of the credential broker, the gates that approve them, and   *)
(* the calls made through them.                                            *)
(*                                                                         *)
(* A request holds the row of its run from its first statement to its      *)
(* commit, but reads the row of the resource without a lock.  A use is     *)
(* reserved in one transaction and made after it, with no lock at all.     *)
(* The sweep expires what it selected earlier.                             *)
(***************************************************************************)
EXTENDS GrantPolicy, Sequences

CONSTANTS
    Runs, Agents, Resources,
    Grants,         \* BOUND: the rows of the table
    Asks,           \* what a request asks for, see AskType
    None,           \* SQL null
    PrincipalOf,    \* the principal of each agent, perhaps null
    OwnerOf,        \* the principal of each resource, perhaps null
    ProviderOf,     \* the provider of each resource
    Ceiling,        \* resources.scopes_allowed
    Window,         \* TIDEBASE_GRANT_APPROVAL_TTL_S
    MaxTime         \* BOUND: the clock stops here

Principals == {PrincipalOf[a] : a \in Agents}
AskType == [run: Runs, agent: Agents, resource: Resources, action: Actions,
            mode: Modes, scopes: SUBSET UNION {Ceiling[x] : x \in Resources},
            max: Nat \ {0}, ttl: Nat \ {0}]

ASSUME GrantConstants ==
    /\ Asks \subseteq AskType
    /\ None \notin Grants \cup AskType
    /\ Window \in Nat /\ MaxTime \in Nat
    /\ ProviderOf \in [Resources -> Providers]

VARIABLES
    cancelled,  \* the runs whose status is 'cancelled'
    owner,      \* runs.grant_principal
    runLock,    \* the request that holds the row of the run
    connected,  \* the resources whose status is 'connected'
    ask,        \* what the row of a grant says of the request
    status,     \* grants.status; "absent", "opening" before the commit
    used,       \* grants.used_count
    expires,    \* grants.expires_at
    gate,       \* gates.status of the gate in grants.gate_id
    reserved,   \* uses that are reserved and whose call is still to be made
    made,       \* calls that reached the service
    receipts,   \* the grant.* events of each grant
    sweep,      \* the time and the rows of the sweep
    now

rowVars == <<ask, status, used, expires, gate>>
vars == <<cancelled, owner, runLock, connected, rowVars, reserved, made, receipts, sweep, now>>

Statuses     == {"absent", "opening", "pending", "active", "denied", "used", "revoked", "expired"}
Open         == {"pending", "active"}
Terminal     == {"used", "revoked", "expired"}
GateStatuses == {"none", "pending", "approved", "rejected", "canceled"}
ReceiptTypes == {"requested", "approved", "minted", "denied", "used", "use_failed",
                 "revoked", "expired"}

Init ==
    /\ cancelled = {}
    /\ owner = [r \in Runs |-> None]
    /\ runLock = [r \in Runs |-> None]
    /\ connected = {}
    /\ ask = [g \in Grants |-> None]
    /\ status = [g \in Grants |-> "absent"]
    /\ used = [g \in Grants |-> 0]
    /\ expires = [g \in Grants |-> 0]
    /\ gate = [g \in Grants |-> "none"]
    /\ reserved = [g \in Grants |-> 0]
    /\ made = [g \in Grants |-> 0]
    /\ receipts = [g \in Grants |-> <<>>]
    /\ sweep = [at |-> 0, rows |-> {}]
    /\ now = 0

Receipt(g, type) == receipts' = [receipts EXCEPT ![g] = Append(@, type)]
-----------------------------------------------------------------------------
(* Asking for a grant.                                                     *)

RunIsOpen(q) == q.run \notin cancelled /\ runLock[q.run] = None

\* Fault: the resource is checked, the run is not.
TenantOfResource(q) == OwnerOf[q.resource] = PrincipalOf[q.agent]

\* A run that nobody owns is open to every principal.
Tenant(q) == owner[q.run] \in {None, PrincipalOf[q.agent]}

\* The first principal to ask becomes the owner.  The null one is written as well,
\* and leaves the run without an owner.
Claim(q) == owner' = [owner EXCEPT ![q.run] = PrincipalOf[q.agent]]

Grantable(q) ==
    /\ q.resource \in connected /\ OwnerOf[q.resource] = PrincipalOf[q.agent]
    /\ Ceiling[q.resource] = {} \/ q.scopes \subseteq Ceiling[q.resource]
    /\ Effect(q.action) # "deny"
    /\ GrantedMode(q.action, q.mode) = "mint" => CanMint(ProviderOf[q.resource])

\* Lock the run, check the request; the insert is still to come.
RequestOpen(g, q) ==
    /\ status[g] = "absent"
    /\ RunIsOpen(q) /\ Tenant(q) /\ Grantable(q)
    /\ runLock' = [runLock EXCEPT ![q.run] = g]
    /\ ask' = [ask EXCEPT ![g] = q]
    /\ status' = [status EXCEPT ![g] = "opening"]
    /\ UNCHANGED <<cancelled, owner, connected, used, expires, gate, reserved, made, receipts,
                   sweep, now>>

\* A refusal commits its transaction all the same: the run is claimed.
RequestRefused(q) ==
    /\ RunIsOpen(q) /\ Tenant(q) /\ ~Grantable(q)
    /\ Claim(q)
    /\ UNCHANGED <<cancelled, runLock, connected, rowVars, reserved, made, receipts, sweep, now>>

Opening(g) == status[g] = "opening"

Release(g) == runLock' = [runLock EXCEPT ![ask[g].run] = None]

RequestCommit(g) ==
    /\ Opening(g)
    /\ Claim(ask[g]) /\ Release(g)
    /\ IF Effect(ask[g].action) = "approval"
       THEN /\ status' = [status EXCEPT ![g] = "pending"]
            /\ gate' = [gate EXCEPT ![g] = "pending"]
            /\ expires' = [expires EXCEPT ![g] = now + Window]
            /\ Receipt(g, "requested")
       ELSE /\ status' = [status EXCEPT ![g] = "active"]
            /\ expires' = [expires EXCEPT ![g] = now + ask[g].ttl]
            /\ receipts' = [receipts EXCEPT ![g] = @ \o
                   <<"requested", IF GrantedMode(ask[g].action, ask[g].mode) = "mint"
                                  THEN "minted" ELSE "approved">>]
            /\ UNCHANGED gate
    /\ UNCHANGED <<cancelled, connected, ask, used, reserved, made, sweep, now>>

\* The server dies, or an insert fails: the transaction is rolled back.
RequestAbort(g) ==
    /\ Opening(g)
    /\ Release(g)
    /\ ask' = [ask EXCEPT ![g] = None]
    /\ status' = [status EXCEPT ![g] = "absent"]
    /\ UNCHANGED <<cancelled, owner, connected, used, expires, gate, reserved, made, receipts,
                   sweep, now>>
-----------------------------------------------------------------------------
(* Using it.                                                               *)

Usable(g) == status[g] = "active" /\ expires[g] > now /\ used[g] < ask[g].max

\* Fault: the update does not look at the count that the select saw.
ReserveUseUnchecked(g, a, method) ==
    /\ status[g] \in {"active", "used"} /\ expires[g] > now /\ used[g] <= ask[g].max
    /\ used' = [used EXCEPT ![g] = @ + 1]
    /\ reserved' = [reserved EXCEPT ![g] = @ + 1]
    /\ Receipt(g, "used")
    /\ UNCHANGED <<cancelled, owner, runLock, connected, ask, status, expires, gate, made, sweep,
                   now>>

\* The transaction of a use by the agent a.
ReserveUse(g, a, method) ==
    /\ Usable(g) /\ a = ask[g].agent
    /\ method \in Permitted(ask[g].action.verb)
    /\ Backend(ProviderOf[ask[g].resource]) # "failclosed"
    /\ used' = [used EXCEPT ![g] = @ + 1]
    /\ status' = [status EXCEPT ![g] = IF used[g] + 1 >= ask[g].max THEN "used" ELSE @]
    /\ reserved' = [reserved EXCEPT ![g] = @ + 1]
    /\ Receipt(g, "used")
    /\ UNCHANGED <<cancelled, owner, runLock, connected, ask, expires, gate, made, sweep, now>>

\* The receipt of a failure is written by a transaction that may fail too.
UseFailed(g) == Receipt(g, "use_failed") \/ UNCHANGED receipts

\* Fetch the credential and make the call; neither looks at the grant again.
\* A call that timed out may have arrived.
MakeCall(g) ==
    /\ reserved[g] > 0
    /\ reserved' = [reserved EXCEPT ![g] = @ - 1]
    /\ \E credential \in Acquired(Backend(ProviderOf[ask[g].resource])) :
        \/ credential = "failed" /\ UNCHANGED made /\ UseFailed(g)
        \/ /\ credential # "failed"
           /\ \E outcome \in Proxied(credential) :
                \/ outcome = "simulated" /\ UNCHANGED <<made, receipts>>
                \/ outcome = "answered" /\ made' = [made EXCEPT ![g] = @ + 1] /\ UNCHANGED receipts
                \/ outcome = "ssrf_blocked" /\ UNCHANGED made /\ UseFailed(g)
                \/ /\ outcome = "upstream_unreachable" /\ UseFailed(g)
                   /\ made' \in {made, [made EXCEPT ![g] = @ + 1]}
    /\ UNCHANGED <<cancelled, owner, runLock, connected, rowVars, sweep, now>>

RevokeGrant(g) ==
    /\ status[g] \in Open \cup {"denied"}
    /\ status' = [status EXCEPT ![g] = "revoked"]
    /\ Receipt(g, "revoked")
    /\ UNCHANGED <<cancelled, owner, runLock, connected, ask, used, expires, gate, reserved, made,
                   sweep, now>>
-----------------------------------------------------------------------------
(* Gates, resources, runs.                                                 *)

\* Fault: a gate that is resolved is resolved again.
ResolveAgain(g, decision) ==
    /\ gate[g] # "none"
    /\ gate' = [gate EXCEPT ![g] = decision]
    /\ IF status[g] # "pending" THEN UNCHANGED status
       ELSE status' = [status EXCEPT ![g] = IF decision = "approved" THEN "active" ELSE "denied"]
    /\ UNCHANGED <<cancelled, owner, runLock, connected, ask, used, expires, reserved, made,
                   receipts, sweep, now>>

Resolve(g, decision) ==
    /\ gate[g] = "pending"
    /\ gate' = [gate EXCEPT ![g] = decision]
    /\ IF status[g] # "pending" THEN UNCHANGED <<status, expires, receipts>>
       ELSE IF decision = "approved"
       THEN /\ status' = [status EXCEPT ![g] = "active"]
            /\ expires' = [expires EXCEPT ![g] = now + ask[g].ttl]
            /\ Receipt(g, "approved")
       ELSE /\ status' = [status EXCEPT ![g] = "denied"]
            /\ Receipt(g, "denied")
            /\ UNCHANGED expires
    /\ UNCHANGED <<cancelled, owner, runLock, connected, ask, used, reserved, made, sweep, now>>

Connect(x) ==
    /\ connected' = connected \cup {x}
    /\ UNCHANGED <<cancelled, owner, runLock, rowVars, reserved, made, receipts, sweep, now>>

\* Fault: the cascade revokes what is over as well.
AllGrantsOf(x) == {g \in Grants : ask[g] # None /\ status[g] # "opening" /\ ask[g].resource = x}

\* The cascade sees the grants that are committed.
OpenGrantsOf(x) == {g \in Grants : status[g] \in Open /\ ask[g].resource = x}

\* Fault: the cascade leaves no receipts.
RevokeResourceSilently(x) ==
    /\ connected' = connected \ {x}
    /\ status' = [g \in Grants |-> IF g \in OpenGrantsOf(x) THEN "revoked" ELSE status[g]]
    /\ UNCHANGED <<cancelled, owner, runLock, ask, used, expires, gate, reserved, made, receipts,
                   sweep, now>>

RevokeResource(x) ==
    /\ connected' = connected \ {x}
    /\ status' = [g \in Grants |-> IF g \in OpenGrantsOf(x) THEN "revoked" ELSE status[g]]
    /\ receipts' = [g \in Grants |-> IF g \in OpenGrantsOf(x) THEN Append(receipts[g], "revoked")
                                     ELSE receipts[g]]
    /\ UNCHANGED <<cancelled, owner, runLock, ask, used, expires, gate, reserved, made, sweep, now>>

\* The update of the run waits for a request that holds its row.
CancelRun(r) ==
    /\ r \notin cancelled /\ runLock[r] = None
    /\ cancelled' = cancelled \cup {r}
    /\ UNCHANGED <<owner, runLock, connected, rowVars, reserved, made, receipts, sweep, now>>
-----------------------------------------------------------------------------
(* The sweep of the reconciler.                                            *)

\* Fault: approvals are not swept.
OverdueActive(t) == {g \in Grants : status[g] = "active" /\ expires[g] < t}

Overdue(t) == {g \in Grants : status[g] \in Open /\ expires[g] < t}

SweepSelect ==
    /\ sweep.rows = {} /\ Overdue(now) # {}
    /\ sweep' = [at |-> now, rows |-> Overdue(now)]
    /\ UNCHANGED <<cancelled, owner, runLock, connected, rowVars, reserved, made, receipts, now>>

SweepRow(g) ==
    /\ g \in sweep.rows
    /\ sweep' = [sweep EXCEPT !.rows = @ \ {g}]
    /\ IF g \in Overdue(sweep.at)
       THEN status' = [status EXCEPT ![g] = "expired"] /\ Receipt(g, "expired")
       ELSE UNCHANGED <<status, receipts>>
    /\ UNCHANGED <<cancelled, owner, runLock, connected, ask, used, expires, gate, reserved, made,
                   now>>

\* The tick dies, or a query of it fails: the next one selects again.
SweepAbort ==
    /\ sweep.rows # {}
    /\ sweep' = [sweep EXCEPT !.rows = {}]
    /\ UNCHANGED <<cancelled, owner, runLock, connected, rowVars, reserved, made, receipts, now>>

\* The server dies before it makes a call it reserved.
LoseUse(g) ==
    /\ reserved[g] > 0
    /\ reserved' = [reserved EXCEPT ![g] = @ - 1]
    /\ UNCHANGED <<cancelled, owner, runLock, connected, rowVars, made, receipts, sweep, now>>

Advance ==
    /\ now < MaxTime
    /\ now' = now + 1
    /\ UNCHANGED <<cancelled, owner, runLock, connected, rowVars, reserved, made, receipts, sweep>>

Next ==
    \/ \E g \in Grants :
          \/ \E q \in Asks : RequestOpen(g, q)
          \/ RequestCommit(g) \/ RequestAbort(g)
          \/ \E a \in Agents, m \in Methods : ReserveUse(g, a, m)
          \/ MakeCall(g) \/ LoseUse(g) \/ RevokeGrant(g) \/ SweepRow(g)
          \/ \E d \in {"approved", "rejected", "canceled"} : Resolve(g, d)
    \/ \E q \in Asks : RequestRefused(q)
    \/ \E x \in Resources : Connect(x) \/ RevokeResource(x)
    \/ \E r \in Runs : CancelRun(r)
    \/ SweepSelect \/ SweepAbort \/ Advance

Spec == Init /\ [][Next]_vars

\* The tick runs until it gets through, and the clock goes on.
FairSpec ==
    Spec /\ WF_vars(SweepSelect) /\ WF_vars(Advance)
         /\ \A g \in Grants : SF_vars(SweepRow(g))
-----------------------------------------------------------------------------
TypeOK ==
    /\ cancelled \subseteq Runs /\ connected \subseteq Resources
    /\ owner \in [Runs -> Principals \cup {None}]
    /\ runLock \in [Runs -> Grants \cup {None}]
    /\ ask \in [Grants -> Asks \cup {None}]
    /\ status \in [Grants -> Statuses]
    /\ used \in [Grants -> Nat] /\ reserved \in [Grants -> Nat] /\ made \in [Grants -> Nat]
    /\ expires \in [Grants -> Nat] /\ now \in Nat
    /\ gate \in [Grants -> GateStatuses]
    /\ receipts \in [Grants -> Seq(ReceiptTypes)]
    /\ sweep \in [at: Nat, rows: SUBSET Grants]

Issued(g) == status[g] \notin {"absent", "opening"}

\* At most once: each use that is counted makes at most one call, and no more
\* uses are counted than were asked for, with any number of them in flight.
UsesBounded ==
    \A g \in Grants :
        /\ made[g] + reserved[g] <= used[g]
        /\ Issued(g) => used[g] <= ask[g].max
        /\ ~Issued(g) => used[g] = 0

\* What the gate of a grant decided is what became of the grant, whichever of
\* the decision, a revocation and the sweep came first.
GateAgrees ==
    \A g \in Grants :
        /\ gate[g] = "pending"  => status[g] \in {"pending", "revoked", "expired"} /\ used[g] = 0
        /\ gate[g] = "approved" => status[g] \in {"active"} \cup Terminal
        /\ gate[g] \in {"rejected", "canceled"} =>
               status[g] \in {"denied", "revoked", "expired"} /\ used[g] = 0
        /\ status[g] = "pending" => gate[g] = "pending"

\* policy.ts: an action that is sensitive, or that no rule knows, is never
\* usable without a person's approval, and a destructive one never at all.
NothingSensitiveUnapproved ==
    \A g \in Grants : status[g] \in {"active", "used"} =>
        LET matches == ask[g].action.matches IN
        /\ "destructive" \notin matches
        /\ "sensitive" \in matches \/ "standard" \notin matches => gate[g] = "approved"

\* A grant is of a resource of the agent's own principal, and all grants of a run
\* whose agents have a principal are of the one that owns the run, however their
\* first requests race for it.  Agents without one can hold grants beside them.
OneTenant ==
    \A g \in Grants : Issued(g) =>
        LET principal == PrincipalOf[ask[g].agent] IN
        /\ OwnerOf[ask[g].resource] = principal
        /\ principal # None => owner[ask[g].run] = principal

\* The receipts of a log but those of failed calls, what the last of them says of
\* the status, and how many are of uses.
Told(log) == {i \in DOMAIN log : log[i] # "use_failed"}

Says(type) ==
    CASE type = "requested" -> {"pending"}
      [] type \in {"approved", "minted"} -> {"active"}
      [] type = "used" -> {"active", "used"}
      [] OTHER -> {type}

UsesTold(log) == Cardinality({i \in DOMAIN log : log[i] = "used"})

\* The receipts of a grant, those of failed calls apart, tell its status: a
\* reader of the audit log is never told less, or more, than what happened.
ReceiptsTellStatus ==
    \A g \in Grants :
        /\ Told(receipts[g]) = {} <=> ~Issued(g)
        /\ Issued(g) => status[g] \in Says(receipts[g][Max(Told(receipts[g]))])
        /\ UsesTold(receipts[g]) = used[g]

\* app.ts, at the cascade: no grant of a resource that is not connected is
\* open.  A request that read the resource before the revocation breaks it.
NoGrantWithoutResource ==
    \A g \in Grants : status[g] \in Open => ask[g].resource \in connected

\* The comment of migrations/004, and app.ts before the claim: "a run is owned by
\* the first principal to broker on it; others are denied".  Where the first has
\* the null principal the run has no owner, and the next one is not denied.
OneBroker ==
    \A g, h \in Grants : (Issued(g) /\ Issued(h) /\ ask[g].run = ask[h].run)
                          => PrincipalOf[ask[g].agent] = PrincipalOf[ask[h].agent]

\* A grant that ended stays as it ended, and no use of it is counted any more;
\* a denied one can only be revoked.
EndedStaysEnded ==
    [][\A g \in Grants :
        /\ status[g] \in Terminal => status'[g] = status[g] /\ used'[g] = used[g]
        /\ status[g] = "denied" => status'[g] \in {"denied", "revoked"}]_vars

\* A grant expires only past the deadline it has now, though the sweep chose
\* it by the deadline it had when it was still waiting for its approval.
ExpiresWhenDue ==
    [][\A g \in Grants : status'[g] = "expired" /\ status[g] # "expired" => expires[g] < now]_vars

\* A run that has a principal keeps it and gets no grant of another, nor of an
\* agent that has none, and no grant appears on a run that is cancelled already:
\* the row of the run is locked from the check to the commit.
RunStaysClaimed ==
    [][/\ \A r \in Runs : owner[r] # None => owner'[r] = owner[r]
       /\ \A g \in Grants : ~Issued(g) /\ Issued(g)' =>
              /\ ask'[g].run \notin cancelled
              /\ owner[ask'[g].run] \in {None, PrincipalOf[ask'[g].agent]}]_vars

\* reconciler.ts: pending approvals time out, active grants expire.  The bound
\* of the clock leaves out those due after it.
DueBeforeEnd(g) == status[g] \in Open /\ expires[g] < MaxTime

OpenGrantsEnd == \A g \in Grants : DueBeforeEnd(g) ~> ~DueBeforeEnd(g)
=============================================================================
