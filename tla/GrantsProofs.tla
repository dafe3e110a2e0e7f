----------------------------- MODULE GrantsProofs -----------------------------
(***************************************************************************)
(* Theorems about Grants, for any number of runs, agents, resources and    *)
(* grants, any requests and any clock.                                     *)
(***************************************************************************)
EXTENDS Grants, FiniteSetTheorems, SequenceTheorems, TLAPS

USE GrantConstants

-----------------------------------------------------------------------------
(* The inductive invariant.                                                *)

\* A grant that is there, or under way, is one somebody asked for.
AskKnown == \A g \in Grants : status[g] # "absent" => ask[g] \in Asks

\* A request under way holds the row of its run.
OpeningHoldsRun == \A g \in Grants : Opening(g) => runLock[ask[g].run] = g

\* What a request under way has checked of its run and resource is still so,
\* and its action is not a denied one.
OpeningChecked ==
    \A g \in Grants : Opening(g) =>
        /\ ask[g].run \notin cancelled
        /\ Tenant(ask[g])
        /\ OwnerOf[ask[g].resource] = PrincipalOf[ask[g].agent]
        /\ Effect(ask[g].action) # "deny"

\* A grant that is not committed has no gate.
GateOfIssued == \A g \in Grants : ~Issued(g) => gate[g] = "none"

\* A grant in use was allowed by the policy or by a person.
PolicyKept ==
    \A g \in Grants : Issued(g) =>
        /\ Effect(ask[g].action) # "deny"
        /\ status[g] \in {"active", "used"} => Effect(ask[g].action) = "allow" \/ gate[g] = "approved"

\* The sweep compares with a time that is over.
SweepPast == sweep.at <= now

IInv == /\ TypeOK /\ AskKnown /\ OpeningHoldsRun /\ OpeningChecked /\ GateOfIssued
        /\ PolicyKept /\ SweepPast /\ UsesBounded /\ GateAgrees /\ OneTenant
-----------------------------------------------------------------------------
(* Requests and the policy.                                                *)

\* The parts of a request.
LEMMA AskFacts ==
    ASSUME NEW q \in Asks
    PROVE  /\ q.run \in Runs /\ q.agent \in Agents /\ q.max \in Nat \ {0} /\ q.ttl \in Nat \ {0}
           /\ q.action \in Actions /\ PrincipalOf[q.agent] \in Principals
           /\ q # None
    BY DEF AskType, Principals

\* The effect of a policy is one of three.
LEMMA EffectIsKnown ==
    ASSUME NEW action
    PROVE  Effect(action) \in {"deny", "approval", "allow"}
    BY DEF Effect, MatchedRule

\* Only what matches the rule for standard actions, and no rule before it, is
\* allowed without a person; what matches the rule for destructive ones is denied.
LEMMA EffectOfRules ==
    ASSUME NEW action
    PROVE  /\ Effect(action) = "allow" => /\ "standard" \in action.matches
                                          /\ "destructive" \notin action.matches
                                          /\ "sensitive" \notin action.matches
           /\ "destructive" \in action.matches => Effect(action) = "deny"
    BY DEF Effect, MatchedRule
-----------------------------------------------------------------------------
(* Types.                                                                  *)

\* A receipt is added to the receipts of a grant.
LEMMA ReceiptStep ==
    ASSUME TypeOK, NEW g \in Grants, NEW type \in ReceiptTypes, Receipt(g, type)
    PROVE  receipts' \in [Grants -> Seq(ReceiptTypes)]
    BY DEF TypeOK, Receipt

\* So are the two of a grant that needs no approval.
LEMMA ReceiptsStep ==
    ASSUME TypeOK, NEW g \in Grants, NEW type \in ReceiptTypes,
           receipts' = [receipts EXCEPT ![g] = @ \o <<"requested", type>>]
    PROVE  receipts' \in [Grants -> Seq(ReceiptTypes)]
<1>1. <<"requested", type>> \in Seq(ReceiptTypes)
    BY DEF ReceiptTypes
<1>2. receipts[g] \o <<"requested", type>> \in Seq(ReceiptTypes)
    BY <1>1 DEF TypeOK
<1> QED BY <1>2 DEF TypeOK

\* Types are kept.
LEMMA TypeStep ==
    ASSUME TypeOK, AskKnown, [Next]_vars
    PROVE  TypeOK'
<1>0. {"requested", "approved", "minted", "denied", "used", "use_failed", "revoked", "expired"}
          \subseteq ReceiptTypes
    BY DEF ReceiptTypes
<1>1. ASSUME NEW g \in Grants, NEW q \in Asks, RequestOpen(g, q) PROVE TypeOK'
    BY <1>1, AskFacts DEF RequestOpen, TypeOK, Statuses
<1>2. ASSUME NEW g \in Grants, RequestCommit(g) PROVE TypeOK'
  <2>1. ask[g] \in Asks
      BY <1>2 DEF RequestCommit, Opening, AskKnown
  <2>2. ask[g].ttl \in Nat /\ ask[g].run \in Runs /\ PrincipalOf[ask[g].agent] \in Principals
      BY <2>1, AskFacts
  <2>3. owner' \in [Runs -> Principals \cup {None}] /\ runLock' \in [Runs -> Grants \cup {None}]
      BY <1>2, <2>2 DEF RequestCommit, Claim, Release, TypeOK
  <2>4. status' \in [Grants -> Statuses] /\ gate' \in [Grants -> GateStatuses]
      BY <1>2 DEF RequestCommit, TypeOK, Statuses, GateStatuses
  <2>5. expires' \in [Grants -> Nat]
    <3>1. PICK t \in Nat : expires' = [expires EXCEPT ![g] = t]
      <4>1. now + Window \in Nat /\ now + ask[g].ttl \in Nat
          BY <2>2 DEF TypeOK
      <4> QED BY <1>2, <4>1, Zenon DEF RequestCommit
    <3> QED BY <3>1 DEF TypeOK
  <2>6. receipts' \in [Grants -> Seq(ReceiptTypes)]
    <3>1. CASE Effect(ask[g].action) = "approval"
        BY <1>0, <1>2, <3>1, ReceiptStep DEF RequestCommit
    <3>2. CASE Effect(ask[g].action) # "approval"
      <4>1. PICK type \in {"minted", "approved"} :
                receipts' = [receipts EXCEPT ![g] = @ \o <<"requested", type>>]
          BY <1>2, <3>2, Zenon DEF RequestCommit
      <4> QED BY <1>0, <4>1, ReceiptsStep
    <3> QED BY <3>1, <3>2
  <2> QED BY <1>2, <2>3, <2>4, <2>5, <2>6 DEF RequestCommit, TypeOK
<1>3. ASSUME NEW g \in Grants, RequestAbort(g) PROVE TypeOK'
    BY <1>3 DEF RequestAbort, Release, TypeOK, Statuses
<1>4. ASSUME NEW g \in Grants, NEW a \in Agents, NEW m \in Methods, ReserveUse(g, a, m) PROVE TypeOK'
  <2>1. receipts' \in [Grants -> Seq(ReceiptTypes)]
      BY <1>0, <1>4, ReceiptStep DEF ReserveUse
  <2>2. /\ used' \in [Grants -> Nat] /\ reserved' \in [Grants -> Nat]
        /\ status' \in [Grants -> Statuses]
      BY <1>4 DEF ReserveUse, TypeOK, Statuses
  <2>3. UNCHANGED <<cancelled, owner, runLock, connected, ask, expires, gate, made, sweep, now>>
      BY <1>4 DEF ReserveUse
  <2> QED BY <2>1, <2>2, <2>3 DEF TypeOK
<1>5. ASSUME NEW g \in Grants, MakeCall(g) PROVE TypeOK'
  <2>1. /\ UNCHANGED <<cancelled, owner, runLock, connected, rowVars, sweep, now>>
        /\ reserved[g] > 0 /\ reserved' = [reserved EXCEPT ![g] = @ - 1]
        /\ made' = made \/ made' = [made EXCEPT ![g] = @ + 1]
        /\ receipts' = receipts \/ Receipt(g, "use_failed")
      BY <1>5 DEF MakeCall, UseFailed
  <2>2. receipts' \in [Grants -> Seq(ReceiptTypes)]
      BY <1>0, <2>1, ReceiptStep DEF TypeOK
  <2>3. made' \in [Grants -> Nat] /\ reserved' \in [Grants -> Nat]
    <3>1. reserved[g] - 1 \in Nat /\ made[g] + 1 \in Nat
        BY <2>1 DEF TypeOK
    <3>2. reserved' \in [Grants -> Nat]
        BY <2>1, <3>1 DEF TypeOK
    <3>3. CASE made' = made
        BY <3>2, <3>3 DEF TypeOK
    <3>4. CASE made' = [made EXCEPT ![g] = @ + 1]
        BY <3>1, <3>2, <3>4 DEF TypeOK
    <3> QED BY <2>1, <3>3, <3>4
  <2> QED BY <2>1, <2>2, <2>3 DEF TypeOK, rowVars
<1>6. ASSUME NEW g \in Grants, LoseUse(g) \/ RevokeGrant(g) \/ SweepRow(g) PROVE TypeOK'
  <2>1. receipts' \in [Grants -> Seq(ReceiptTypes)]
      BY <1>0, <1>6, ReceiptStep DEF LoseUse, RevokeGrant, SweepRow, TypeOK
  <2>2. status' \in [Grants -> Statuses] /\ reserved' \in [Grants -> Nat]
    <3>1. CASE LoseUse(g)
      <4>1. reserved[g] - 1 \in Nat
          BY <3>1 DEF LoseUse, TypeOK
      <4> QED BY <3>1, <4>1 DEF LoseUse, TypeOK, rowVars
    <3>2. CASE RevokeGrant(g) \/ SweepRow(g)
        BY <3>2 DEF RevokeGrant, SweepRow, TypeOK, Statuses
    <3> QED BY <1>6, <3>1, <3>2
  <2>3. UNCHANGED <<cancelled, owner, runLock, connected, ask, used, expires, gate, made, now>>
      BY <1>6 DEF LoseUse, RevokeGrant, SweepRow, rowVars
  <2>4. sweep' \in [at: Nat, rows: SUBSET Grants]
      BY <1>6 DEF LoseUse, RevokeGrant, SweepRow, TypeOK
  <2> QED BY <2>1, <2>2, <2>3, <2>4 DEF TypeOK
<1>7. ASSUME NEW g \in Grants, NEW d \in {"approved", "rejected", "canceled"}, Resolve(g, d)
      PROVE  TypeOK'
  <2>1. status[g] = "pending" => ask[g].ttl \in Nat
      BY AskFacts DEF AskKnown
  <2>2. receipts' \in [Grants -> Seq(ReceiptTypes)]
      BY <1>0, <1>7, ReceiptStep DEF Resolve, TypeOK
  <2>3. status' \in [Grants -> Statuses] /\ gate' \in [Grants -> GateStatuses]
      BY <1>7 DEF Resolve, TypeOK, Statuses, GateStatuses
  <2>4. expires' \in [Grants -> Nat]
      BY <1>7, <2>1 DEF Resolve, TypeOK
  <2> QED BY <1>7, <2>2, <2>3, <2>4 DEF Resolve, TypeOK
<1>8. ASSUME NEW q \in Asks, RequestRefused(q) PROVE TypeOK'
    BY <1>8, AskFacts DEF RequestRefused, Claim, TypeOK, rowVars
<1>9. ASSUME NEW x \in Resources, Connect(x) \/ RevokeResource(x) PROVE TypeOK'
  <2>1. \A g \in Grants : Append(receipts[g], "revoked") \in Seq(ReceiptTypes)
      BY <1>0 DEF TypeOK
  <2>2. receipts' \in [Grants -> Seq(ReceiptTypes)]
    <3>1. CASE Connect(x)
        BY <3>1 DEF Connect, TypeOK
    <3>2. CASE RevokeResource(x)
        BY <2>1, <3>2 DEF RevokeResource, TypeOK
    <3> QED BY <1>9, <3>1, <3>2
  <2>3. status' \in [Grants -> Statuses] /\ connected' \subseteq Resources
      BY <1>9 DEF Connect, RevokeResource, TypeOK, Statuses, rowVars
  <2>4. UNCHANGED <<cancelled, owner, runLock, ask, used, expires, gate, reserved, made, sweep, now>>
      BY <1>9 DEF Connect, RevokeResource, rowVars
  <2> QED BY <2>2, <2>3, <2>4 DEF TypeOK
<1>10. ASSUME NEW r \in Runs, CancelRun(r) PROVE TypeOK'
    BY <1>10 DEF CancelRun, TypeOK, rowVars
<1>11. CASE SweepSelect \/ SweepAbort \/ Advance
    BY <1>11 DEF SweepSelect, SweepAbort, Advance, Overdue, TypeOK, rowVars
<1>12. CASE UNCHANGED vars
    BY <1>12 DEF vars, TypeOK, rowVars
<1> QED BY <1>1, <1>2, <1>3, <1>4, <1>5, <1>6, <1>7, <1>8, <1>9, <1>10, <1>11, <1>12 DEF Next
-----------------------------------------------------------------------------
(* The requests under way.                                                 *)

\* A grant is of a request.
LEMMA AskStep ==
    ASSUME TypeOK, AskKnown, [Next]_vars
    PROVE  AskKnown'
<1>1. ASSUME NEW g \in Grants, NEW q \in Asks, RequestOpen(g, q) PROVE AskKnown'
    BY <1>1 DEF RequestOpen, AskKnown, TypeOK
<1>2. ASSUME NEW g \in Grants, RequestAbort(g) PROVE AskKnown'
    BY <1>2 DEF RequestAbort, AskKnown, TypeOK
<1>3. ASSUME NEW g \in Grants,
             \/ RequestCommit(g) \/ MakeCall(g) \/ LoseUse(g) \/ RevokeGrant(g) \/ SweepRow(g)
             \/ \E a \in Agents, m \in Methods : ReserveUse(g, a, m)
             \/ \E d \in {"approved", "rejected", "canceled"} : Resolve(g, d)
      PROVE  AskKnown'
  <2>1. /\ ask' = ask
        /\ status[g] = "absent" => status' = status
        /\ \A h \in Grants \ {g} : status'[h] = status[h]
      BY <1>3 DEF RequestCommit, Opening, MakeCall, LoseUse, RevokeGrant, SweepRow, ReserveUse,
                  Usable, Resolve, Overdue, Open, rowVars, TypeOK
  <2> QED BY <2>1 DEF AskKnown
<1>4. ASSUME NEW x \in Resources, RevokeResource(x) PROVE AskKnown'
    BY <1>4 DEF RevokeResource, OpenGrantsOf, Open, AskKnown
<1>5. CASE \/ \E q \in Asks : RequestRefused(q)
           \/ \E x \in Resources : Connect(x)
           \/ \E r \in Runs : CancelRun(r)
           \/ SweepSelect \/ SweepAbort \/ Advance \/ UNCHANGED vars
    BY <1>5 DEF RequestRefused, Connect, CancelRun, SweepSelect, SweepAbort, Advance, vars, rowVars,
                AskKnown
<1> QED BY <1>1, <1>2, <1>3, <1>4, <1>5 DEF Next

\* Requests under way are on different runs, and none is on a run that is free.
LEMMA OpeningApart ==
    ASSUME TypeOK, OpeningHoldsRun, NEW g \in Grants, Opening(g)
    PROVE  /\ runLock[ask[g].run] = g /\ runLock[ask[g].run] # None
           /\ \A h \in Grants \ {g} : Opening(h) => ask[h].run # ask[g].run
    BY DEF OpeningHoldsRun

\* A request is opened, committed or given up: what the others see.
LEMMA OpeningStep ==
    ASSUME TypeOK, AskKnown, OpeningHoldsRun, OpeningChecked, [Next]_vars
    PROVE  OpeningHoldsRun' /\ OpeningChecked'
<1> USE DEF Opening, Tenant
<1>1. ASSUME NEW g \in Grants, NEW q \in Asks, RequestOpen(g, q)
      PROVE  OpeningHoldsRun' /\ OpeningChecked'
  <2>1. /\ runLock[q.run] = None /\ q.run \notin cancelled /\ Tenant(q) /\ q.run \in Runs
        /\ OwnerOf[q.resource] = PrincipalOf[q.agent] /\ Effect(q.action) # "deny"
        /\ runLock' = [runLock EXCEPT ![q.run] = g] /\ ask' = [ask EXCEPT ![g] = q]
        /\ status' = [status EXCEPT ![g] = "opening"] /\ UNCHANGED <<cancelled, owner>>
      BY <1>1, AskFacts DEF RequestOpen, RunIsOpen, Grantable
  <2>2. /\ ask'[g] = q /\ runLock'[q.run] = g
        /\ \A h \in Grants \ {g} : status'[h] = status[h] /\ ask'[h] = ask[h]
        /\ \A h \in Grants \ {g} : Opening(h) => runLock'[ask[h].run] = h
      BY <2>1, OpeningApart, SMTT(30) DEF TypeOK
  <2> QED BY <2>1, <2>2 DEF OpeningHoldsRun, OpeningChecked
<1>2. ASSUME NEW g \in Grants, RequestCommit(g) \/ RequestAbort(g)
      PROVE  OpeningHoldsRun' /\ OpeningChecked'
  <2>1. /\ Opening(g) /\ Release(g) /\ UNCHANGED cancelled
        /\ owner' = owner \/ Claim(ask[g])
        /\ status'[g] # "opening" /\ ask[g] \in Asks
        /\ \A h \in Grants \ {g} : status'[h] = status[h] /\ ask'[h] = ask[h]
      BY <1>2 DEF RequestCommit, RequestAbort, TypeOK, AskKnown
  <2>2. \A h \in Grants \ {g} : Opening(h) =>
            /\ ask[h].run # ask[g].run /\ ask[h] \in Asks /\ ask[h].run \in Runs
      BY <2>1, OpeningApart, AskFacts DEF AskKnown
  <2>3. \A h \in Grants \ {g} : Opening(h) => /\ runLock'[ask[h].run] = h
                                              /\ owner'[ask[h].run] = owner[ask[h].run]
      BY <2>1, <2>2, AskFacts DEF Release, Claim, TypeOK, OpeningHoldsRun
  <2> QED BY <2>1, <2>3 DEF OpeningHoldsRun, OpeningChecked
<1>3. ASSUME NEW q \in Asks, RequestRefused(q) PROVE OpeningHoldsRun' /\ OpeningChecked'
  <2>1. /\ runLock[q.run] = None /\ owner' = [owner EXCEPT ![q.run] = PrincipalOf[q.agent]]
        /\ UNCHANGED <<cancelled, runLock, ask, status>> /\ q.run \in Runs
      BY <1>3, AskFacts DEF RequestRefused, RunIsOpen, Claim, rowVars
  <2>2. \A h \in Grants : Opening(h) => owner'[ask[h].run] = owner[ask[h].run]
      BY <2>1, OpeningApart DEF TypeOK
  <2> QED BY <2>1, <2>2 DEF OpeningHoldsRun, OpeningChecked
<1>4. ASSUME NEW r \in Runs, CancelRun(r) PROVE OpeningHoldsRun' /\ OpeningChecked'
  <2>1. /\ runLock[r] = None /\ cancelled' = cancelled \cup {r}
        /\ UNCHANGED <<owner, runLock, ask, status>>
      BY <1>4 DEF CancelRun, rowVars
  <2>2. \A h \in Grants : Opening(h) => ask[h].run # r
      BY <2>1, OpeningApart
  <2> QED BY <2>1, <2>2 DEF OpeningHoldsRun, OpeningChecked
<1>5. CASE /\ UNCHANGED <<cancelled, owner, runLock, ask>>
           /\ \A h \in Grants : status'[h] = "opening" => status[h] = "opening"
    BY <1>5 DEF OpeningHoldsRun, OpeningChecked
<1>6. ASSUME NEW g \in Grants,
             \/ MakeCall(g) \/ LoseUse(g) \/ RevokeGrant(g) \/ SweepRow(g)
             \/ \E a \in Agents, m \in Methods : ReserveUse(g, a, m)
             \/ \E d \in {"approved", "rejected", "canceled"} : Resolve(g, d)
      PROVE  /\ UNCHANGED <<cancelled, owner, runLock, ask>>
             /\ \A h \in Grants : status'[h] = "opening" => status[h] = "opening"
    BY <1>6 DEF MakeCall, LoseUse, RevokeGrant, SweepRow, ReserveUse, Resolve, rowVars, TypeOK
<1>7. CASE \/ \E x \in Resources : Connect(x) \/ RevokeResource(x)
           \/ SweepSelect \/ SweepAbort \/ Advance \/ UNCHANGED vars
  <2>1. /\ UNCHANGED <<cancelled, owner, runLock, ask>>
        /\ \A h \in Grants : status'[h] = "opening" => status[h] = "opening"
      BY <1>7 DEF Connect, RevokeResource, SweepSelect, SweepAbort, Advance, rowVars, vars, TypeOK
  <2> QED BY <1>5, <2>1
<1> QED BY <1>1, <1>2, <1>3, <1>4, <1>5, <1>6, <1>7 DEF Next
-----------------------------------------------------------------------------
(* Uses.                                                                   *)

\* Uses are counted, whatever else happens to the grant.
LEMMA UsesStep ==
    ASSUME IInv, [Next]_vars
    PROVE  UsesBounded' /\ SweepPast'
<1> USE DEF IInv, UsesBounded, SweepPast, Issued
<1>1. CASE /\ UNCHANGED <<sweep, now, ask, used, reserved, made>>
           /\ \A h \in Grants : Issued(h)' <=> Issued(h)
    BY <1>1
<1>2. ASSUME NEW g \in Grants, NEW q \in Asks, RequestOpen(g, q) PROVE UsesBounded' /\ SweepPast'
    BY <1>2 DEF RequestOpen, TypeOK
<1>3. ASSUME NEW g \in Grants, RequestCommit(g) PROVE UsesBounded' /\ SweepPast'
  <2>1. /\ UNCHANGED <<sweep, now, ask, used, reserved, made>> /\ used[g] = 0
        /\ \A h \in Grants \ {g} : status'[h] = status[h]
      BY <1>3 DEF RequestCommit, Opening, TypeOK
  <2>2. ask[g].max \in Nat \ {0}
      BY <1>3, AskFacts DEF RequestCommit, Opening, AskKnown
  <2>3. used[g] <= ask[g].max
      BY <2>1, <2>2
  <2> QED BY <2>1, <2>3
<1>4. ASSUME NEW g \in Grants, RequestAbort(g) PROVE UsesBounded' /\ SweepPast'
    BY <1>4 DEF RequestAbort, Opening, TypeOK
<1>5. ASSUME NEW g \in Grants, NEW a \in Agents, NEW m \in Methods, ReserveUse(g, a, m) PROVE UsesBounded' /\ SweepPast'
  <2>1. /\ status[g] = "active" /\ used[g] < ask[g].max /\ ask[g].max \in Nat
        /\ used' = [used EXCEPT ![g] = @ + 1] /\ reserved' = [reserved EXCEPT ![g] = @ + 1]
        /\ Issued(g)' /\ \A h \in Grants \ {g} : status'[h] = status[h]
        /\ UNCHANGED <<sweep, now, ask, made>>
      BY <1>5, AskFacts DEF ReserveUse, Usable, TypeOK, AskKnown
  <2>2. /\ used'[g] = used[g] + 1 /\ reserved'[g] = reserved[g] + 1
        /\ \A h \in Grants \ {g} : used'[h] = used[h] /\ reserved'[h] = reserved[h]
      BY <2>1 DEF TypeOK
  <2>3. /\ made'[g] + reserved'[g] <= used'[g]
        /\ used'[g] <= ask[g].max
      BY <2>1, <2>2 DEF TypeOK
  <2>4. \A h \in Grants \ {g} : /\ made'[h] + reserved'[h] <= used'[h]
                                /\ Issued(h)' => used'[h] <= ask'[h].max
                                /\ ~Issued(h)' => used'[h] = 0
      BY <2>1, <2>2
  <2> QED BY <2>1, <2>3, <2>4
<1>6. ASSUME NEW g \in Grants, MakeCall(g) \/ LoseUse(g) PROVE UsesBounded' /\ SweepPast'
  <2>1. /\ UNCHANGED <<sweep, now, ask, used, status>>
        /\ reserved[g] > 0 /\ reserved' = [reserved EXCEPT ![g] = @ - 1]
        /\ made' = made \/ made' = [made EXCEPT ![g] = @ + 1]
      BY <1>6 DEF MakeCall, LoseUse, rowVars
  <2>2. /\ made'[g] + reserved'[g] <= made[g] + reserved[g]
        /\ \A h \in Grants \ {g} : made'[h] = made[h] /\ reserved'[h] = reserved[h]
    <3>1. reserved[g] \in Nat /\ made[g] \in Nat /\ reserved'[g] = reserved[g] - 1
        BY <2>1 DEF TypeOK
    <3>2. CASE made' = made
        BY <2>1, <3>1, <3>2 DEF TypeOK
    <3>3. CASE made' = [made EXCEPT ![g] = @ + 1]
        BY <2>1, <3>1, <3>3 DEF TypeOK
    <3> QED BY <2>1, <3>2, <3>3
  <2>3. /\ made'[g] \in Nat /\ reserved'[g] \in Nat
        /\ made[g] \in Nat /\ reserved[g] \in Nat /\ used[g] \in Nat
      BY TypeStep DEF TypeOK
  <2>4. made'[g] + reserved'[g] <= used[g]
      BY <2>2, <2>3
  <2> QED BY <2>1, <2>2, <2>4
<1>7. ASSUME NEW g \in Grants,
             \/ RevokeGrant(g)
             \/ \E d \in {"approved", "rejected", "canceled"} : Resolve(g, d)
      PROVE  /\ UNCHANGED <<sweep, now, ask, used, reserved, made>>
             /\ \A h \in Grants : Issued(h)' <=> Issued(h)
    BY <1>7, SMTT(30) DEF RevokeGrant, Resolve, Open, TypeOK
<1>8. ASSUME NEW g \in Grants, SweepRow(g) PROVE UsesBounded' /\ SweepPast'
    BY <1>8 DEF SweepRow, Overdue, Open, TypeOK
<1>9. ASSUME NEW x \in Resources, Connect(x) \/ RevokeResource(x)
      PROVE  /\ UNCHANGED <<sweep, now, ask, used, reserved, made>>
             /\ \A h \in Grants : Issued(h)' <=> Issued(h)
    BY <1>9 DEF Connect, RevokeResource, OpenGrantsOf, Open, rowVars, TypeOK
<1>10. CASE \/ \E q \in Asks : RequestRefused(q)
            \/ \E r \in Runs : CancelRun(r)
            \/ UNCHANGED vars
  <2>1. /\ UNCHANGED <<sweep, now, ask, used, reserved, made>>
        /\ \A h \in Grants : Issued(h)' <=> Issued(h)
      BY <1>10 DEF RequestRefused, CancelRun, rowVars, vars
  <2> QED BY <1>1, <2>1
<1>11. CASE SweepSelect \/ SweepAbort \/ Advance
    BY <1>11, SMTT(30) DEF SweepSelect, SweepAbort, Advance, rowVars, TypeOK
<1> QED BY <1>1, <1>2, <1>3, <1>4, <1>5, <1>6, <1>7, <1>8, <1>9, <1>10, <1>11 DEF Next
-----------------------------------------------------------------------------
(* Gates and the policy.                                                   *)

\* Gates, grants and the policy agree after a step.
LEMMA GateStep ==
    ASSUME IInv, [Next]_vars
    PROVE  GateOfIssued' /\ GateAgrees' /\ PolicyKept'
<1> USE DEF IInv, GateOfIssued, GateAgrees, PolicyKept, Issued
<1> DEFINE Goal == GateOfIssued' /\ GateAgrees' /\ PolicyKept'
<1>1. ASSUME NEW g \in Grants, NEW q \in Asks, RequestOpen(g, q) PROVE Goal
    BY <1>1 DEF RequestOpen, UsesBounded, TypeOK
<1>2. ASSUME NEW g \in Grants, RequestCommit(g) PROVE Goal
  <2>1. /\ status[g] = "opening" /\ gate[g] = "none" /\ used[g] = 0
        /\ Effect(ask[g].action) \in {"approval", "allow"}
        /\ UNCHANGED <<ask, used>>
        /\ \A h \in Grants \ {g} : status'[h] = status[h] /\ gate'[h] = gate[h]
      BY <1>2, EffectIsKnown DEF RequestCommit, Opening, OpeningChecked, UsesBounded, TypeOK
  <2>2. \/ /\ Effect(ask[g].action) = "approval" /\ status'[g] = "pending" /\ gate'[g] = "pending"
        \/ /\ Effect(ask[g].action) # "approval" /\ status'[g] = "active" /\ gate'[g] = gate[g]
      BY <1>2 DEF RequestCommit, TypeOK
  <2> QED BY <2>1, <2>2
<1>3. ASSUME NEW g \in Grants, RequestAbort(g) PROVE Goal
    BY <1>3 DEF RequestAbort, Opening, TypeOK
<1>4. ASSUME NEW g \in Grants, NEW a \in Agents, NEW m \in Methods, ReserveUse(g, a, m) PROVE Goal
  <2>1. /\ status[g] = "active" /\ status'[g] \in {"active", "used"} /\ UNCHANGED <<ask, gate>>
        /\ \A h \in Grants \ {g} : status'[h] = status[h] /\ used'[h] = used[h]
      BY <1>4 DEF ReserveUse, Usable, TypeOK
  <2> QED BY <2>1 DEF Terminal
<1>5. ASSUME NEW g \in Grants, RevokeGrant(g) \/ SweepRow(g) PROVE Goal
  <2>1. /\ UNCHANGED <<ask, gate, used>>
        /\ \A h \in Grants \ {g} : status'[h] = status[h]
        /\ \/ status' = status
           \/ status[g] \in Open /\ status'[g] \in {"revoked", "expired"}
           \/ status[g] = "denied" /\ status'[g] = "revoked"
      BY <1>5 DEF RevokeGrant, SweepRow, Overdue, TypeOK
  <2> QED BY <2>1 DEF Open, Terminal
<1>6. ASSUME NEW g \in Grants, NEW d \in {"approved", "rejected", "canceled"}, Resolve(g, d)
      PROVE  Goal
  <2>1. /\ UNCHANGED <<ask, used>> /\ gate[g] = "pending" /\ gate'[g] = d
        /\ \A h \in Grants \ {g} : status'[h] = status[h] /\ gate'[h] = gate[h]
        /\ \/ status[g] # "pending" /\ status' = status
           \/ status[g] = "pending" /\ d = "approved" /\ status'[g] = "active"
           \/ status[g] = "pending" /\ d # "approved" /\ status'[g] = "denied"
      BY <1>6 DEF Resolve, TypeOK
  <2> QED BY <2>1 DEF Terminal
<1>7. ASSUME NEW x \in Resources, RevokeResource(x) PROVE Goal
  <2>1. /\ UNCHANGED <<ask, gate, used>>
        /\ \A h \in Grants : \/ status'[h] = status[h]
                             \/ status[h] \in Open /\ status'[h] = "revoked"
      BY <1>7 DEF RevokeResource, OpenGrantsOf
  <2> QED BY <2>1 DEF Open, Terminal
<1>8. CASE UNCHANGED <<status, ask, gate, used>>
    BY <1>8
<1>9. ASSUME NEW g \in Grants, MakeCall(g) \/ LoseUse(g)
      PROVE  UNCHANGED <<status, ask, gate, used>>
    BY <1>9 DEF MakeCall, LoseUse, rowVars
<1>10. CASE \/ \E q \in Asks : RequestRefused(q)
            \/ \E x \in Resources : Connect(x)
            \/ \E r \in Runs : CancelRun(r)
            \/ SweepSelect \/ SweepAbort \/ Advance \/ UNCHANGED vars
  <2>1. UNCHANGED <<status, ask, gate, used>>
      BY <1>10 DEF RequestRefused, Connect, CancelRun, SweepSelect, SweepAbort, Advance, rowVars, vars
  <2> QED BY <1>8, <2>1
<1> QED BY <1>1, <1>2, <1>3, <1>4, <1>5, <1>6, <1>7, <1>8, <1>9, <1>10 DEF Next
-----------------------------------------------------------------------------
(* Principals.                                                             *)

\* A run whose principal is known keeps it, whoever claims it.
LEMMA OwnerStep ==
    ASSUME IInv, [Next]_vars
    PROVE  \A r \in Runs : owner[r] # None => owner'[r] = owner[r]
<1> USE DEF IInv
<1>1. ASSUME NEW q \in Asks, Claim(q), Tenant(q)
      PROVE  \A r \in Runs : owner[r] # None => owner'[r] = owner[r]
    BY <1>1, AskFacts DEF Claim, Tenant, TypeOK
<1>2. ASSUME NEW g \in Grants, RequestCommit(g) PROVE ask[g] \in Asks /\ Claim(ask[g]) /\ Tenant(ask[g])
    BY <1>2 DEF RequestCommit, Opening, OpeningChecked, AskKnown
<1>3. ASSUME NEW q \in Asks, RequestRefused(q) PROVE Claim(q) /\ Tenant(q)
    BY <1>3 DEF RequestRefused
<1>4. ASSUME NEW g \in Grants,
             \/ \E q \in Asks : RequestOpen(g, q)
             \/ RequestAbort(g) \/ MakeCall(g) \/ LoseUse(g) \/ RevokeGrant(g) \/ SweepRow(g)
             \/ \E a \in Agents, m \in Methods : ReserveUse(g, a, m)
             \/ \E d \in {"approved", "rejected", "canceled"} : Resolve(g, d)
      PROVE  owner' = owner
    BY <1>4 DEF RequestOpen, RequestAbort, MakeCall, LoseUse, RevokeGrant, SweepRow, ReserveUse, Resolve
<1>5. CASE \/ \E x \in Resources : Connect(x) \/ RevokeResource(x)
           \/ \E r \in Runs : CancelRun(r)
           \/ SweepSelect \/ SweepAbort \/ Advance \/ UNCHANGED vars
    BY <1>5 DEF Connect, RevokeResource, CancelRun, SweepSelect, SweepAbort, Advance, vars
<1> QED BY <1>1, <1>2, <1>3, <1>4, <1>5 DEF Next

\* A grant is issued only by the commit of its request.
LEMMA IssueStep ==
    ASSUME IInv, [Next]_vars, NEW g \in Grants, Issued(g)'
    PROVE  \/ Issued(g) /\ ask'[g] = ask[g]
           \/ RequestCommit(g) /\ ask'[g] = ask[g]
<1> USE DEF IInv, Issued
<1>1. ASSUME NEW h \in Grants,
             \/ \E q \in Asks : RequestOpen(h, q)
             \/ RequestAbort(h) \/ MakeCall(h) \/ LoseUse(h) \/ RevokeGrant(h) \/ SweepRow(h)
             \/ \E a \in Agents, m \in Methods : ReserveUse(h, a, m)
             \/ \E d \in {"approved", "rejected", "canceled"} : Resolve(h, d)
      PROVE  Issued(g) /\ ask'[g] = ask[g]
    BY <1>1 DEF RequestOpen, RequestAbort, Opening, MakeCall, LoseUse, RevokeGrant, SweepRow, Overdue,
                Open, ReserveUse, Usable, Resolve, rowVars, TypeOK
<1>2. ASSUME NEW h \in Grants, RequestCommit(h)
      PROVE  ask'[g] = ask[g] /\ (h = g \/ Issued(g))
    BY <1>2 DEF RequestCommit, TypeOK
<1>3. CASE \/ \E q \in Asks : RequestRefused(q)
           \/ \E x \in Resources : Connect(x) \/ RevokeResource(x)
           \/ \E r \in Runs : CancelRun(r)
           \/ SweepSelect \/ SweepAbort \/ Advance \/ UNCHANGED vars
    BY <1>3 DEF RequestRefused, Connect, RevokeResource, OpenGrantsOf, Open, CancelRun, SweepSelect,
                SweepAbort, Advance, vars, rowVars, TypeOK
<1> QED BY <1>1, <1>2, <1>3 DEF Next

\* So an issued grant of an agent with a principal belongs to that of its run.
LEMMA TenantStep ==
    ASSUME IInv, [Next]_vars
    PROVE  OneTenant'
<1> SUFFICES ASSUME NEW g \in Grants, Issued(g)'
             PROVE  /\ OwnerOf[ask'[g].resource] = PrincipalOf[ask'[g].agent]
                    /\ PrincipalOf[ask'[g].agent] # None
                           => owner'[ask'[g].run] = PrincipalOf[ask'[g].agent]
    BY DEF OneTenant
<1>1. ask'[g] = ask[g] /\ (Issued(g) \/ RequestCommit(g))
    BY IssueStep
<1>2. ask[g] \in Asks
    BY <1>1 DEF IInv, AskKnown, Issued, RequestCommit, Opening
<1>3. ask[g].run \in Runs
    BY <1>2, AskFacts
<1>4. CASE Issued(g)
    BY <1>1, <1>3, <1>4, OwnerStep DEF IInv, OneTenant
<1>5. CASE RequestCommit(g)
  <2>1. owner'[ask[g].run] = PrincipalOf[ask[g].agent]
      BY <1>3, <1>5 DEF RequestCommit, Claim, IInv, TypeOK
  <2> QED BY <1>1, <1>5, <2>1 DEF RequestCommit, IInv, OpeningChecked
<1> QED BY <1>1, <1>4, <1>5
-----------------------------------------------------------------------------
(* The theorems.                                                           *)

\* The invariant holds at first.
LEMMA InitIInv == Init => IInv
<1> SUFFICES ASSUME Init PROVE IInv
    OBVIOUS
<1>1. TypeOK
    BY DEF Init, TypeOK, Statuses, GateStatuses
<1>2. \A g \in Grants : ~Issued(g) /\ ~Opening(g) /\ status[g] = "absent"
    BY DEF Init, Issued, Opening
<1>3. UsesBounded /\ GateAgrees
    BY <1>2 DEF Init, UsesBounded, GateAgrees
<1> QED BY <1>1, <1>2, <1>3
       DEF Init, IInv, AskKnown, OpeningHoldsRun, OpeningChecked, GateOfIssued, PolicyKept, SweepPast,
           OneTenant, Issued

\* Every step keeps it.
LEMMA NextIInv == IInv /\ [Next]_vars => IInv'
    BY TypeStep, AskStep, OpeningStep, UsesStep, GateStep, TenantStep DEF IInv

\* The inductive invariant holds: whatever requests, uses, decisions,
\* revocations, cancellations and sweeps do to each other.
THEOREM GrantsInvariant == Spec => []IInv
    BY InitIInv, NextIInv, PTL DEF Spec

\* The rows, the locks and the sweep keep their types.
THEOREM GrantsTypeCorrect == Spec => []TypeOK
<1>1. IInv => TypeOK
    BY DEF IInv
<1> QED BY <1>1, GrantsInvariant, PTL

\* No grant is used more often than was asked for, and each use makes at most
\* one call, with any number of uses in flight.
THEOREM UsesAreBounded == Spec => []UsesBounded
<1>1. IInv => UsesBounded
    BY DEF IInv
<1> QED BY <1>1, GrantsInvariant, PTL

\* A gate and its grant agree, in whatever order they are decided, revoked
\* and expired.
THEOREM GatesAndGrantsAgree == Spec => []GateAgrees
<1>1. IInv => GateAgrees
    BY DEF IInv
<1> QED BY <1>1, GrantsInvariant, PTL

\* No sensitive or unknown action is usable without an approval, and no
\* destructive one at all.
THEOREM SensitiveIsApproved == Spec => []NothingSensitiveUnapproved
<1>1. IInv => NothingSensitiveUnapproved
  <2> SUFFICES ASSUME IInv, NEW g \in Grants, status[g] \in {"active", "used"}
               PROVE  LET matches == ask[g].action.matches IN
                      /\ "destructive" \notin matches
                      /\ "sensitive" \in matches \/ "standard" \notin matches => gate[g] = "approved"
      BY DEF NothingSensitiveUnapproved
  <2>1. /\ Effect(ask[g].action) # "deny"
        /\ Effect(ask[g].action) = "allow" \/ gate[g] = "approved"
      BY DEF IInv, PolicyKept, Issued
  <2> QED BY <2>1, EffectOfRules
<1> QED BY <1>1, GrantsInvariant, PTL

\* The grants of a run whose agents have a principal are of the one that owns it.
THEOREM RunsHaveOneTenant == Spec => []OneTenant
<1>1. IInv => OneTenant
    BY DEF IInv
<1> QED BY <1>1, GrantsInvariant, PTL

\* A run keeps its principal, and gets no grant of another, nor any once it is
\* cancelled.
THEOREM ClaimsLast == Spec => RunStaysClaimed
<1>1. IInv /\ [Next]_vars =>
        [/\ \A r \in Runs : owner[r] # None => owner'[r] = owner[r]
         /\ \A g \in Grants : ~Issued(g) /\ Issued(g)' =>
                /\ ask'[g].run \notin cancelled
                /\ owner[ask'[g].run] \in {None, PrincipalOf[ask'[g].agent]}]_vars
  <2> SUFFICES ASSUME IInv, [Next]_vars, NEW g \in Grants, ~Issued(g), Issued(g)'
               PROVE  /\ ask'[g].run \notin cancelled
                      /\ owner[ask'[g].run] \in {None, PrincipalOf[ask'[g].agent]}
      BY OwnerStep
  <2>1. RequestCommit(g) /\ ask'[g] = ask[g]
      BY IssueStep
  <2> QED BY <2>1 DEF RequestCommit, IInv, OpeningChecked, Tenant
<1> QED BY <1>1, GrantsInvariant, PTL DEF Spec, RunStaysClaimed

\* A grant that ended stays as it ended.
THEOREM EndsAreFinal == Spec => EndedStaysEnded
<1>1. IInv /\ [Next]_vars =>
        [\A g \in Grants :
            /\ status[g] \in Terminal => status'[g] = status[g] /\ used'[g] = used[g]
            /\ status[g] = "denied" => status'[g] \in {"denied", "revoked"}]_vars
  <2> SUFFICES ASSUME TypeOK, GateAgrees, Next, NEW g \in Grants
               PROVE  /\ status[g] \in Terminal => status'[g] = status[g] /\ used'[g] = used[g]
                      /\ status[g] = "denied" => status'[g] \in {"denied", "revoked"}
      BY DEF IInv
  <2>1. ASSUME NEW h \in Grants,
               \/ \E q \in Asks : RequestOpen(h, q)
               \/ RequestCommit(h) \/ RequestAbort(h)
               \/ MakeCall(h) \/ LoseUse(h) \/ RevokeGrant(h) \/ SweepRow(h)
               \/ \E a \in Agents, m \in Methods : ReserveUse(h, a, m)
               \/ \E d \in {"approved", "rejected", "canceled"} : Resolve(h, d)
        PROVE  /\ status[g] \in Terminal => status'[g] = status[g] /\ used'[g] = used[g]
               /\ status[g] = "denied" => status'[g] \in {"denied", "revoked"}
      BY <2>1, SMTT(30) DEF RequestOpen, RequestCommit, RequestAbort, Opening, MakeCall, LoseUse, RevokeGrant,
                  SweepRow, Overdue, ReserveUse, Usable, Resolve, rowVars, Open, Terminal, TypeOK
  <2>2. CASE \/ \E q \in Asks : RequestRefused(q)
             \/ \E x \in Resources : Connect(x) \/ RevokeResource(x)
             \/ \E r \in Runs : CancelRun(r)
             \/ SweepSelect \/ SweepAbort \/ Advance
      BY <2>2 DEF RequestRefused, Connect, RevokeResource, OpenGrantsOf, CancelRun, SweepSelect,
                  SweepAbort, Advance, rowVars, Open, Terminal, TypeOK
  <2> QED BY <2>1, <2>2 DEF Next
<1> QED BY <1>1, GrantsInvariant, PTL DEF Spec, EndedStaysEnded

\* A grant expires only past the deadline it has now.
THEOREM ExpiryIsDue == Spec => ExpiresWhenDue
<1>1. IInv /\ [Next]_vars =>
        [\A g \in Grants : status'[g] = "expired" /\ status[g] # "expired" => expires[g] < now]_vars
  <2> SUFFICES ASSUME TypeOK, SweepPast, Next, NEW g \in Grants,
                      status'[g] = "expired", status[g] # "expired"
               PROVE  expires[g] < now
      BY DEF IInv
  <2>1. ASSUME NEW h \in Grants,
               \/ \E q \in Asks : RequestOpen(h, q)
               \/ RequestCommit(h) \/ RequestAbort(h)
               \/ MakeCall(h) \/ LoseUse(h) \/ RevokeGrant(h)
               \/ \E a \in Agents, m \in Methods : ReserveUse(h, a, m)
               \/ \E d \in {"approved", "rejected", "canceled"} : Resolve(h, d)
        PROVE  FALSE
      BY <2>1, SMTT(30) DEF RequestOpen, RequestCommit, RequestAbort, MakeCall, LoseUse, RevokeGrant,
                  ReserveUse, Resolve, rowVars, TypeOK
  <2>2. ASSUME NEW h \in Grants, SweepRow(h) PROVE expires[g] < now
      BY <2>2 DEF SweepRow, Overdue, SweepPast, TypeOK
  <2>3. CASE \/ \E q \in Asks : RequestRefused(q)
             \/ \E x \in Resources : Connect(x) \/ RevokeResource(x)
             \/ \E r \in Runs : CancelRun(r)
             \/ SweepSelect \/ SweepAbort \/ Advance
      BY <2>3 DEF RequestRefused, Connect, RevokeResource, CancelRun, SweepSelect,
                  SweepAbort, Advance, rowVars, TypeOK
  <2> QED BY <2>1, <2>2, <2>3 DEF Next
<1> QED BY <1>1, GrantsInvariant, PTL DEF Spec, ExpiresWhenDue
-----------------------------------------------------------------------------
(* The receipts.                                                           *)

\* The last receipt but for those of failed calls.
LastTold(log, m) ==
    /\ m \in DOMAIN log /\ log[m] # "use_failed"
    /\ \A i \in DOMAIN log : m < i => log[i] = "use_failed"

\* What a log tells of a grant.
Tells(log, is, count) ==
    /\ UsesTold(log) = count
    /\ IF is \in {"absent", "opening"} THEN log = <<>>
       ELSE \E m : LastTold(log, m) /\ is \in Says(log[m])

RInv == \A g \in Grants : Tells(receipts[g], status[g], used[g])

\* What is in a log, and after one more receipt.
LEMMA AppendFacts ==
    ASSUME NEW log \in Seq(ReceiptTypes), NEW type \in ReceiptTypes, NEW next, next = Append(log, type)
    PROVE  /\ Len(log) \in Nat /\ DOMAIN log = 1..Len(log) /\ DOMAIN next = 1..(Len(log) + 1)
           /\ next[Len(log) + 1] = type /\ \A i \in 1..Len(log) : next[i] = log[i]
<1>1. Len(log) \in Nat /\ DOMAIN log = 1..Len(log)
    BY LenProperties
<1>2. /\ next \in Seq(ReceiptTypes) /\ Len(next) = Len(log) + 1
      /\ next[Len(log) + 1] = type /\ \A i \in 1..Len(log) : next[i] = log[i]
    BY AppendProperties
<1>3. DOMAIN next = 1..Len(next)
    BY <1>2, LenProperties
<1> QED BY <1>1, <1>2, <1>3

\* It is counted when it is one of a use.
LEMMA CountAppend ==
    ASSUME NEW log \in Seq(ReceiptTypes), NEW type \in ReceiptTypes, NEW next, next = Append(log, type)
    PROVE  /\ type # "used" => UsesTold(next) = UsesTold(log)
           /\ type = "used" => UsesTold(next) = UsesTold(log) + 1
<1> DEFINE old == {i \in DOMAIN log : log[i] = "used"}
           new == {i \in DOMAIN next : next[i] = "used"}
           l   == Len(log)
<1>1. /\ l \in Nat /\ DOMAIN log = 1..l /\ DOMAIN next = 1..(l + 1)
      /\ next[l + 1] = type /\ \A i \in 1..l : next[i] = log[i]
    BY AppendFacts
<1>2. IsFiniteSet(old)
  <2>1. IsFiniteSet(1..l)
      BY <1>1, FS_Interval
  <2> QED BY <1>1, <2>1, FS_Subset
<1>3. type # "used" => new = old
    BY <1>1
<1>4. type = "used" => new = old \cup {l + 1} /\ l + 1 \notin old
    BY <1>1
<1> HIDE DEF old, new, l
<1>5. type = "used" => Cardinality(new) = Cardinality(old) + 1
    BY <1>2, <1>4, FS_AddElement
<1> QED BY <1>3, <1>5 DEF UsesTold, old, new

\* A receipt that is not one of a failed call tells the new status.
LEMMA TellsMore ==
    ASSUME NEW log \in Seq(ReceiptTypes), NEW is, NEW count, Tells(log, is, count),
           NEW type \in ReceiptTypes, type # "use_failed", NEW next, next = Append(log, type),
           NEW becomes, becomes \in Says(type), becomes \notin {"absent", "opening"}
    PROVE  /\ type # "used" => Tells(next, becomes, count)
           /\ type = "used" => Tells(next, becomes, count + 1)
<1>1. /\ Len(log) \in Nat /\ DOMAIN log = 1..Len(log) /\ DOMAIN next = 1..(Len(log) + 1)
      /\ next[Len(log) + 1] = type
    BY AppendFacts
<1>2. LastTold(next, Len(log) + 1)
    BY <1>1 DEF LastTold
<1>3. \E m : LastTold(next, m) /\ becomes \in Says(next[m])
    BY <1>1, <1>2
<1>4. UsesTold(log) = count
    BY DEF Tells
<1> QED BY <1>3, <1>4, CountAppend, ZenonT(30) DEF Tells

\* One of a failed call tells nothing new.
LEMMA TellsNoMore ==
    ASSUME NEW log \in Seq(ReceiptTypes), NEW is, is \notin {"absent", "opening"}, NEW count,
           Tells(log, is, count), NEW next, next = Append(log, "use_failed")
    PROVE  Tells(next, is, count)
<1>0. "use_failed" \in ReceiptTypes
    BY DEF ReceiptTypes
<1>1. /\ Len(log) \in Nat /\ DOMAIN log = 1..Len(log) /\ DOMAIN next = 1..(Len(log) + 1)
      /\ next[Len(log) + 1] = "use_failed" /\ \A i \in 1..Len(log) : next[i] = log[i]
    BY <1>0, AppendFacts
<1>2. PICK m : LastTold(log, m) /\ is \in Says(log[m])
    BY DEF Tells
<1>3. LastTold(next, m) /\ next[m] = log[m]
    BY <1>1, <1>2 DEF LastTold
<1>4. UsesTold(next) = count
    BY <1>0, CountAppend DEF Tells
<1>5. is \in Says(next[m])
    BY <1>2, <1>3
<1> QED BY <1>3, <1>4, <1>5 DEF Tells

\* A new grant: it is requested, and perhaps approved with it.
LEMMA TellsFirst ==
    ASSUME NEW log, Tells(log, "opening", 0), NEW next
    PROVE  /\ next = Append(log, "requested") => Tells(next, "pending", 0)
           /\ \A type \in {"minted", "approved"} :
                  next = log \o <<"requested", type>> => Tells(next, "active", 0)
<1>1. log = <<>> /\ log \in Seq(ReceiptTypes)
    BY DEF Tells
<1>2. "requested" \in ReceiptTypes /\ "minted" \in ReceiptTypes /\ "approved" \in ReceiptTypes
    BY DEF ReceiptTypes
<1>3. "pending" \in Says("requested") /\ "active" \in Says("minted") /\ "active" \in Says("approved")
    BY DEF Says
<1>4. Tells(Append(log, "requested"), "pending", 0)
    BY <1>1, <1>2, <1>3, TellsMore
<1>5. ASSUME NEW type \in {"minted", "approved"}, next = log \o <<"requested", type>>
      PROVE  Tells(next, "active", 0)
  <2>1. PICK first : first = Append(log, "requested")
      OBVIOUS
  <2>2. first \in Seq(ReceiptTypes)
      BY <1>1, <1>2, <2>1, AppendProperties
  <2>3. next = Append(first, type)
      BY <1>1, <1>5, <2>1
  <2> QED BY <1>2, <1>3, <1>4, <1>5, <2>1, <2>2, <2>3, TellsMore
<1> QED BY <1>4, <1>5

\* A step of one grant.
LEMMA OneGrant ==
    ASSUME RInv, NEW g \in Grants,
           \A h \in Grants \ {g} : /\ receipts'[h] = receipts[h] /\ status'[h] = status[h]
                                   /\ used'[h] = used[h],
           Tells(receipts'[g], status'[g], used'[g])
    PROVE  RInv'
<1>1. ASSUME NEW h \in Grants PROVE Tells(receipts'[h], status'[h], used'[h])
    BY DEF RInv
<1> QED BY <1>1 DEF RInv

\* A step that adds one receipt, of the new status.
LEMMA OneReceipt ==
    ASSUME TypeOK, RInv, NEW g \in Grants, NEW type \in ReceiptTypes \ {"use_failed", "used"},
           NEW becomes \in Says(type), becomes \notin {"absent", "opening"},
           Receipt(g, type), status' = [status EXCEPT ![g] = becomes], used' = used
    PROVE  RInv'
<1>1. /\ receipts'[g] = Append(receipts[g], type) /\ status'[g] = becomes /\ used'[g] = used[g]
      /\ \A h \in Grants \ {g} : /\ receipts'[h] = receipts[h] /\ status'[h] = status[h]
                                 /\ used'[h] = used[h]
    BY DEF Receipt, TypeOK
<1>2. receipts[g] \in Seq(ReceiptTypes) /\ Tells(receipts[g], status[g], used[g])
    BY DEF TypeOK, RInv
<1>3. Tells(receipts'[g], becomes, used[g])
    BY <1>1, <1>2, TellsMore
<1> QED BY <1>1, <1>3, OneGrant

\* Every step writes the receipts of what it does.
LEMMA ReceiptsTold ==
    ASSUME IInv, RInv, [Next]_vars
    PROVE  RInv'
<1>0. TypeOK /\ \A g \in Grants : Tells(receipts[g], status[g], used[g])
    BY DEF IInv, RInv
<1>1. /\ "revoked" \in Says("revoked") /\ "expired" \in Says("expired") /\ "denied" \in Says("denied")
      /\ "active" \in Says("approved") /\ "active" \in Says("used") /\ "used" \in Says("used")
    BY DEF Says
<1>2. {"requested", "approved", "minted", "denied", "used", "use_failed", "revoked", "expired"}
          \subseteq ReceiptTypes
    BY DEF ReceiptTypes
<1>3. ASSUME NEW g \in Grants, NEW q \in Asks, RequestOpen(g, q) PROVE RInv'
  <2>1. /\ status[g] = "absent" /\ status'[g] = "opening" /\ receipts' = receipts /\ used' = used
        /\ \A h \in Grants \ {g} : status'[h] = status[h]
      BY <1>0, <1>3 DEF RequestOpen, TypeOK
  <2>2. Tells(receipts'[g], status'[g], used'[g])
      BY <1>0, <2>1 DEF Tells
  <2> QED BY <2>1, <2>2, OneGrant
<1>4. ASSUME NEW g \in Grants, RequestCommit(g) PROVE RInv'
  <2>1. status[g] = "opening" /\ used'[g] = used[g] /\ used[g] = 0
      BY <1>0, <1>4 DEF RequestCommit, Opening, IInv, UsesBounded, Issued
  <2>2. \A h \in Grants \ {g} : /\ receipts'[h] = receipts[h] /\ status'[h] = status[h]
                                /\ used'[h] = used[h]
      BY <1>0, <1>4 DEF RequestCommit, Receipt, TypeOK
  <2>3. \/ /\ receipts'[g] = Append(receipts[g], "requested") /\ status'[g] = "pending"
        \/ \E type \in {"minted", "approved"} :
               receipts'[g] = receipts[g] \o <<"requested", type>> /\ status'[g] = "active"
      BY <1>0, <1>4 DEF RequestCommit, Receipt, TypeOK
  <2>4. Tells(receipts'[g], status'[g], used'[g])
    <3>1. PICK log, next : log = receipts[g] /\ next = receipts'[g]
        OBVIOUS
    <3>2. Tells(log, "opening", 0)
        BY <1>0, <2>1, <3>1
    <3> QED BY <2>1, <2>3, <3>1, <3>2, TellsFirst
  <2> QED BY <2>2, <2>4, OneGrant
<1>5. ASSUME NEW g \in Grants, RequestAbort(g) PROVE RInv'
  <2>1. /\ status[g] = "opening" /\ status'[g] = "absent" /\ receipts' = receipts /\ used' = used
        /\ \A h \in Grants \ {g} : status'[h] = status[h]
      BY <1>0, <1>5 DEF RequestAbort, Opening, TypeOK
  <2>2. Tells(receipts'[g], status'[g], used'[g])
      BY <1>0, <2>1 DEF Tells
  <2> QED BY <2>1, <2>2, OneGrant
<1>6. ASSUME NEW g \in Grants, NEW a \in Agents, NEW m \in Methods, ReserveUse(g, a, m) PROVE RInv'
  <2>1. /\ used'[g] = used[g] + 1 /\ status'[g] \in {"active", "used"}
        /\ receipts'[g] = Append(receipts[g], "used")
        /\ \A h \in Grants \ {g} : /\ receipts'[h] = receipts[h] /\ status'[h] = status[h]
                                   /\ used'[h] = used[h]
      BY <1>0, <1>6 DEF ReserveUse, Usable, Receipt, TypeOK
  <2>2. receipts[g] \in Seq(ReceiptTypes) /\ Tells(receipts[g], status[g], used[g])
      BY <1>0 DEF TypeOK
  <2>3. Tells(receipts'[g], status'[g], used[g] + 1)
      BY <1>1, <1>2, <2>1, <2>2, TellsMore
  <2> QED BY <2>1, <2>3, OneGrant
<1>7. ASSUME NEW g \in Grants, MakeCall(g) PROVE RInv'
  <2>1. UNCHANGED <<status, used>> /\ reserved[g] > 0 /\ (UNCHANGED receipts \/ Receipt(g, "use_failed"))
    <3>1. UNCHANGED receipts \/ UseFailed(g)
        BY <1>7 DEF MakeCall
    <3> QED BY <1>7, <3>1 DEF MakeCall, UseFailed, rowVars
  <2>2. status[g] \notin {"absent", "opening"}
      BY <1>0, <2>1 DEF IInv, UsesBounded, Issued, TypeOK
  <2>3. CASE UNCHANGED receipts
      BY <2>1, <2>3 DEF RInv
  <2>4. CASE Receipt(g, "use_failed")
    <3>1. /\ receipts'[g] = Append(receipts[g], "use_failed")
          /\ \A h \in Grants \ {g} : receipts'[h] = receipts[h]
        BY <1>0, <2>4 DEF Receipt, TypeOK
    <3>2. receipts[g] \in Seq(ReceiptTypes)
        BY <1>0 DEF TypeOK
    <3>3. Tells(receipts'[g], status[g], used[g])
        BY <1>0, <2>2, <3>1, <3>2, TellsNoMore
    <3> QED BY <2>1, <3>1, <3>3, OneGrant
  <2> QED BY <2>1, <2>3, <2>4
<1>8. ASSUME NEW g \in Grants, RevokeGrant(g) PROVE RInv'
    BY <1>0, <1>1, <1>2, <1>8, OneReceipt DEF RevokeGrant
<1>9. ASSUME NEW g \in Grants, SweepRow(g) PROVE RInv'
  <2>1. CASE g \in Overdue(sweep.at)
      BY <1>0, <1>1, <1>2, <1>9, <2>1, OneReceipt DEF SweepRow
  <2>2. CASE g \notin Overdue(sweep.at)
      BY <1>9, <2>2 DEF SweepRow, RInv
  <2> QED BY <2>1, <2>2
<1>10. ASSUME NEW g \in Grants, NEW d \in {"approved", "rejected", "canceled"}, Resolve(g, d)
       PROVE  RInv'
  <2>1. CASE status[g] # "pending"
      BY <1>10, <2>1 DEF Resolve, RInv
  <2>2. CASE status[g] = "pending" /\ d = "approved"
      BY <1>0, <1>1, <1>2, <1>10, <2>2, OneReceipt DEF Resolve
  <2>3. CASE status[g] = "pending" /\ d # "approved"
      BY <1>0, <1>1, <1>2, <1>10, <2>3, OneReceipt DEF Resolve
  <2> QED BY <2>1, <2>2, <2>3
<1>11. ASSUME NEW x \in Resources, RevokeResource(x) PROVE RInv'
  <2>1. ASSUME NEW g \in Grants PROVE Tells(receipts'[g], status'[g], used'[g])
    <3>1. used'[g] = used[g] /\ receipts[g] \in Seq(ReceiptTypes) /\ Tells(receipts[g], status[g], used[g])
        BY <1>0, <1>11 DEF RevokeResource, TypeOK
    <3>2. CASE g \in OpenGrantsOf(x)
      <4>1. receipts'[g] = Append(receipts[g], "revoked") /\ status'[g] = "revoked"
          BY <1>11, <3>2 DEF RevokeResource
      <4> QED BY <1>1, <1>2, <3>1, <4>1, TellsMore
    <3>3. CASE g \notin OpenGrantsOf(x)
      <4>1. receipts'[g] = receipts[g] /\ status'[g] = status[g]
          BY <1>11, <3>3 DEF RevokeResource
      <4> QED BY <3>1, <4>1
    <3> QED BY <3>2, <3>3
  <2> QED BY <2>1 DEF RInv
<1>12. ASSUME UNCHANGED <<status, used, receipts>> PROVE RInv'
    BY <1>12 DEF RInv
<1>13. ASSUME NEW g \in Grants, LoseUse(g) PROVE RInv'
    BY <1>12, <1>13 DEF LoseUse, rowVars
<1>14. CASE \/ \E q \in Asks : RequestRefused(q)
            \/ \E x \in Resources : Connect(x)
            \/ \E r \in Runs : CancelRun(r)
            \/ SweepSelect \/ SweepAbort \/ Advance \/ UNCHANGED vars
  <2>1. UNCHANGED <<status, used, receipts>>
      BY <1>14 DEF RequestRefused, Connect, CancelRun, SweepSelect, SweepAbort, Advance, rowVars, vars
  <2> QED BY <1>12, <2>1
<1> QED BY <1>3, <1>4, <1>5, <1>6, <1>7, <1>8, <1>9, <1>10, <1>11, <1>13, <1>14 DEF Next

\* The receipts of a grant tell its status, and count its uses, to whoever reads
\* the audit log.
THEOREM ReceiptsTellTheStatus == Spec => []ReceiptsTellStatus
<1>1. Init => RInv
  <2>1. ASSUME NEW g \in Grants, Init PROVE Tells(receipts[g], status[g], used[g])
    <3>1. UsesTold(<<>>) = 0
      <4>1. {i \in DOMAIN <<>> : <<>>[i] = "used"} = {}
          OBVIOUS
      <4> QED BY <4>1, FS_EmptySet DEF UsesTold
    <3> QED BY <2>1, <3>1 DEF Init, Tells
  <2> QED BY <2>1 DEF RInv
<1>2. IInv /\ RInv /\ [Next]_vars => RInv'
    BY ReceiptsTold
<1>3. ASSUME IInv, RInv PROVE ReceiptsTellStatus
  <2>1. ASSUME NEW g \in Grants, NEW log, log = receipts[g]
        PROVE  /\ Told(log) = {} <=> ~Issued(g)
               /\ Issued(g) => status[g] \in Says(log[Max(Told(log))])
               /\ UsesTold(log) = used[g]
    <3>1. log \in Seq(ReceiptTypes) /\ Tells(log, status[g], used[g])
        BY <1>3, <2>1 DEF IInv, TypeOK, RInv
    <3>2. Len(log) \in Nat /\ DOMAIN log = 1..Len(log)
        BY <3>1, LenProperties
    <3>3. CASE ~Issued(g)
      <4>1. log = <<>>
          BY <3>1, <3>3 DEF Tells, Issued
      <4>2. Told(log) = {}
          BY <4>1 DEF Told
      <4> QED BY <3>1, <3>3, <4>2 DEF Tells
    <3>4. CASE Issued(g)
      <4>1. PICK m : LastTold(log, m) /\ status[g] \in Says(log[m])
          BY <3>1, <3>4 DEF Tells, Issued
      <4>2. m \in Told(log) /\ \A i \in Told(log) : m >= i
          BY <3>2, <4>1 DEF LastTold, Told
      <4>3. Told(log) \subseteq Nat
          BY <3>2 DEF Told
      <4>4. Max(Told(log)) = m
        <5> HIDE DEF Told
        <5> QED BY <4>2, <4>3 DEF Max
      <4> QED BY <3>1, <3>4, <4>1, <4>2, <4>4 DEF Tells
    <3> QED BY <3>3, <3>4
  <2> QED BY <2>1 DEF ReceiptsTellStatus
<1> QED BY <1>1, <1>2, <1>3, GrantsInvariant, PTL DEF Spec
=============================================================================
