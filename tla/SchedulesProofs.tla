---------------------------- MODULE SchedulesProofs ----------------------------
(***************************************************************************)
(* Theorems about Schedules and Cron, for any calendar, expressions, names *)
(* and ticks: what the next fire time is, that no two active runs are the  *)
(* same fire, and, while no tick is interrupted, that fires ascend and no  *)
(* minute of an expression is skipped.                                     *)
(***************************************************************************)
EXTENDS Schedules, SequenceTheorems, WellFoundedInduction, TLAPS

USE CronConstants, SchedulesConstants

-----------------------------------------------------------------------------
(* The next fire time.                                                     *)

\* The minimum of numbers is one of them and none is smaller.
LEMMA MinIsLeast ==
    ASSUME NEW S \in SUBSET Nat, S # {}
    PROVE  Min(S) \in S /\ \A y \in S : Min(S) <= y
<1> DEFINE R == OpToRel(<, Nat)
<1>1. IsWellFoundedOn(R, Nat)
    BY NatLessThanWellFounded
<1>2. \E x \in S : \A y \in S : ~ (<<y, x>> \in R)
  <2> HIDE DEF R
  <2> QED BY <1>1, WFMin
<1>3. PICK x \in S : \A y \in S : ~ (<<y, x>> \in R)
    BY <1>2
<1>4. \A y \in S : ~(y < x)
    BY <1>3 DEF OpToRel
<1>5. \A y \in S : x <= y
    BY <1>4
<1> QED BY <1>5 DEF Min

\* nextFire returns the first minute after from that the expression matches, and
\* throws only when none does as far as it looks (cron.ts).
LEMMA NextFireIsFirst ==
    ASSUME NEW cron, NEW from \in Nat
    PROVE  \/ /\ NextFire(cron, from) = Never
              /\ \A t \in (from + 1) .. (from + Horizon) : ~Matches(cron, t)
           \/ /\ NextFire(cron, from) \in (from + 1) .. (from + Horizon)
              /\ NextFire(cron, from) \in Nat
              /\ Matches(cron, NextFire(cron, from))
              /\ \A t \in (from + 1) .. (NextFire(cron, from) - 1) : ~Matches(cron, t)
<1> DEFINE found == MatchesAfter(cron, from)
<1>1. /\ found \subseteq Nat /\ found \subseteq (from + 1) .. (from + Horizon)
      /\ \A t \in (from + 1) .. (from + Horizon) : Matches(cron, t) <=> t \in found
    BY DEF MatchesAfter
<1>2. CASE found = {}
    BY <1>1, <1>2 DEF NextFire
<1>3. CASE found # {}
  <2>1. Min(found) \in found /\ \A y \in found : Min(found) <= y
    <3> HIDE DEF found
    <3> QED BY <1>1, <1>3, MinIsLeast
  <2>2. NextFire(cron, from) = Min(found)
      BY <1>3 DEF NextFire
  <2> HIDE DEF found
  <2> QED BY <1>1, <2>1, <2>2
<1> QED BY <1>2, <1>3

\* The table has what nextFire returns: a later minute, or never.
LEMMA NextOfIsLater ==
    ASSUME NEW cron \in Parses, NEW from \in 0 .. MaxTime, NextOf[cron][from] # Never
    PROVE  NextOf[cron][from] \in Nat /\ NextOf[cron][from] > from
<1>1. NextOf[cron][from] = NextFire(cron, from) /\ from \in Nat
    BY DEF NextOf
<1> QED BY <1>1, NextFireIsFirst

\* The values of a field are those that the documentation of cron allows, where
\* the calendar has them.
LEMMA FieldIsAllowed ==
    ASSUME NEW cron \in Crons, NEW f \in FieldNames, NEW v \in Fields[f].min .. Fields[f].max
    PROVE  v \in ParseField(f, Terms[cron][f]) <=> Allowed(cron, f, v)
<1> DEFINE In(term) == v \in Low(f, term) .. High(f, term) /\ (v - Low(f, term)) % Step(term) = 0
           Says(term) ==
               CASE term.kind = "star"  -> term.step = 0 \/ (v - Fields[f].min) % term.step = 0
                 [] term.kind = "value" -> v = term.lo \/ (term.step > 0 /\ v > term.lo /\ (v - term.lo) % term.step = 0)
                 [] OTHER -> v \in term.lo .. term.hi /\ (term.step = 0 \/ (v - term.lo) % term.step = 0)
<1>1. ASSUME NEW term \in Terms[cron][f]
      PROVE  In(term) <=> Says(term)
  <2>1. term \in TermType /\ Fields[f].min \in Nat /\ Fields[f].max \in Nat /\ v \in Nat
      OBVIOUS
  <2>2. term.lo \in Int /\ term.hi \in Int /\ term.step \in Nat
      BY <2>1 DEF TermType
  <2>3. Step(term) = (IF term.step = 0 THEN 1 ELSE term.step) /\ \A x \in Int : x % 1 = 0
      BY DEF Step
  <2>4. CASE term.kind = "star"
      BY <2>1, <2>2, <2>3, <2>4 DEF Low, High
  <2>5. CASE term.kind = "value"
    <3>1. /\ Low(f, term) = term.lo
          /\ High(f, term) = IF term.step = 0 THEN term.lo ELSE Fields[f].max
        BY <2>5 DEF Low, High
    <3>2. Says(term) <=> v = term.lo \/ (term.step > 0 /\ v > term.lo /\ (v - term.lo) % term.step = 0)
        BY <2>5
    <3>3. term.step > 0 => 0 % term.step = 0
        BY <2>2
    <3>4. CASE term.step = 0
        BY <2>1, <2>2, <2>3, <3>1, <3>2, <3>4
    <3>5. CASE term.step > 0
      <4>1. CASE v = term.lo
          BY <2>1, <2>2, <2>3, <3>1, <3>2, <3>3, <3>5, <4>1
      <4>2. CASE v # term.lo
        <5>1. v \in Low(f, term) .. High(f, term) <=> v > term.lo
            BY <2>1, <2>2, <3>1, <3>5, <4>2
        <5>2. Step(term) = term.step /\ Low(f, term) = term.lo
            BY <2>3, <3>1, <3>5
        <5> QED BY <2>2, <3>2, <3>5, <4>2, <5>1, <5>2
      <4> QED BY <4>1, <4>2
    <3> QED BY <2>2, <3>4, <3>5
  <2>6. CASE term.kind = "range"
      BY <2>1, <2>2, <2>3, <2>6 DEF Low, High
  <2> QED BY <2>1, <2>4, <2>5, <2>6 DEF TermType
<1>2. v \in ParseField(f, Terms[cron][f]) <=> \E term \in Terms[cron][f] : In(term)
    BY DEF ParseField
<1>3. Allowed(cron, f, v) <=> \E term \in Terms[cron][f] : Says(term)
    BY DEF Allowed
<1> HIDE DEF In, Says
<1> QED BY <1>1, <1>2, <1>3

\* A field "*" allows every value.
LEMMA StarAllowsAll ==
    ASSUME NEW cron \in Crons, NEW f \in FieldNames, NEW v, ~Restricted(cron, f)
    PROVE  Allowed(cron, f, v)
<1> DEFINE star == [kind |-> "star", lo |-> 0, hi |-> 0, step |-> 0]
<1>1. star \in Terms[cron][f] /\ star.kind = "star" /\ star.step = 0
    BY DEF Restricted
<1> HIDE DEF star
<1> QED BY <1>1 DEF Allowed

\* matches is what the documentation of cron says of a minute: the fields of the
\* time, and of the two of the day either, when both are restricted.
LEMMA MatchIsMeant ==
    ASSUME NEW cron \in Crons, NEW t \in DOMAIN Calendar
    PROVE  Matches(cron, t) <=> Means(cron, t)
<1>1. \A f \in FieldNames : Calendar[t][f] \in Fields[f].min .. Fields[f].max
    BY CalendarInBounds
<1>2. \A f \in {"minute", "hour", "month"} :
          Calendar[t][f] \in ParseField(f, Terms[cron][f]) <=> Allowed(cron, f, Calendar[t][f])
    BY <1>1, FieldIsAllowed DEF FieldNames
<1>3. Calendar[t].dom \in ParseField("dom", Terms[cron]["dom"]) <=> Allowed(cron, "dom", Calendar[t].dom)
    BY <1>1, FieldIsAllowed DEF FieldNames
<1>4. Calendar[t].dow \in Dow(cron)
          <=> \/ Allowed(cron, "dow", Calendar[t].dow)
              \/ Calendar[t].dow = 0 /\ Allowed(cron, "dow", 7)
  <2>1. /\ Calendar[t].dow \in ParseField("dow", Terms[cron]["dow"]) <=> Allowed(cron, "dow", Calendar[t].dow)
        /\ 7 \in ParseField("dow", Terms[cron]["dow"]) <=> Allowed(cron, "dow", 7)
      BY <1>1, CalendarInBounds, FieldIsAllowed DEF FieldNames
  <2> QED BY <2>1 DEF Dow
<1>5. /\ ~Restricted(cron, "dom") => Allowed(cron, "dom", Calendar[t].dom)
      /\ ~Restricted(cron, "dow") => Allowed(cron, "dow", Calendar[t].dow)
    BY StarAllowsAll DEF FieldNames
<1>6. (CASE Restricted(cron, "dom") /\ Restricted(cron, "dow") ->
                Calendar[t].dom \in ParseField("dom", Terms[cron]["dom"]) \/ Calendar[t].dow \in Dow(cron)
         [] Restricted(cron, "dom") /\ ~Restricted(cron, "dow") ->
                Calendar[t].dom \in ParseField("dom", Terms[cron]["dom"])
         [] ~Restricted(cron, "dom") /\ Restricted(cron, "dow") -> Calendar[t].dow \in Dow(cron)
         [] OTHER -> TRUE)
          <=> DayAllowed(cron, Calendar[t])
    BY <1>3, <1>4, <1>5 DEF DayAllowed
<1> QED BY <1>2, <1>6 DEF Matches, Means

\* The next time is the first minute that the expression means.
LEMMA NextOfIsMeant ==
    ASSUME NEW cron \in Parses, NEW from \in 0 .. MaxTime, NextOf[cron][from] # Never
    PROVE  /\ Means(cron, NextOf[cron][from])
           /\ \A t \in (from + 1) .. (NextOf[cron][from] - 1) : ~Means(cron, t)
<1> DEFINE next == NextFire(cron, from)
<1>1. NextOf[cron][from] = next /\ from \in Nat /\ cron \in Crons
    BY DEF NextOf, Parses
<1>2. /\ next \in (from + 1) .. (from + Horizon) /\ Matches(cron, next)
      /\ \A t \in (from + 1) .. (next - 1) : ~Matches(cron, t)
    BY <1>1, NextFireIsFirst
<1> HIDE DEF next
<1>3. \A t \in (from + 1) .. (from + Horizon) : t \in DOMAIN Calendar
  <2>1. MaxTime \in Nat /\ Horizon \in Nat
      OBVIOUS
  <2>2. \A t \in (from + 1) .. (from + Horizon) : t \in 1 .. (MaxTime + Horizon)
      BY <2>1
  <2> QED BY <2>2, CalendarReaches
<1>4. \A t \in (from + 1) .. (from + Horizon) : Matches(cron, t) <=> Means(cron, t)
    BY <1>1, <1>3, MatchIsMeant
<1>5. \A t \in (from + 1) .. (next - 1) : t \in (from + 1) .. (from + Horizon)
    BY <1>1, <1>2
<1> QED BY <1>1, <1>2, <1>4, <1>5
-----------------------------------------------------------------------------
(* The inductive invariant.                                                *)

SweepType == [pc: {"idle", "in", "loop", "write"}, at: 0 .. MaxTime,
              due: SUBSET DueType, cur: DueType \cup {None}]

\* A tick compares with a time that has come; what it selected was due then,
\* one row for a name; what it enqueued it selected.
SweepSound ==
    \A k \in Ticks :
        /\ sweep[k].at <= now
        /\ \A d \in sweep[k].due : d.row.next <= sweep[k].at
        /\ \A d, e \in sweep[k].due : d.name = e.name => d = e
        /\ sweep[k].pc = "write" => sweep[k].cur \in sweep[k].due
        /\ sweep[k].pc \in {"idle", "in"} => sweep[k].due = {}

\* No fire is of the future.
FiresPast == \A i \in DOMAIN runs : runs[i].fire <= now

\* As long as nothing is interrupted: one tick at a time,
OneTick == \A k \in Ticks : sweep[k].pc # "idle" => tickLock = k

\* which sees no fire after its time,
FiresSeen ==
    \A k \in Ticks, i \in DOMAIN runs : sweep[k].pc # "idle" => runs[i].fire <= sweep[k].at

\* what it still has to enqueue is later than all fires of the schedule,
Enqueued(k, d) == sweep[k].pc = "write" /\ sweep[k].cur = d

DueAhead ==
    \A k \in Ticks, i \in DOMAIN runs : \A d \in sweep[k].due :
        runs[i].name = d.name /\ ~Enqueued(k, d) => runs[i].fire < d.row.next

\* and so is the time of a row, unless it is about to be advanced.
Advancing(n) == \E k \in Ticks : sweep[k].pc = "write" /\ sweep[k].cur.name = n

RowAhead ==
    \A n \in Names, i \in DOMAIN runs :
        schedules[n] # None /\ runs[i].name = n /\ ~Advancing(n)
            => runs[i].fire < schedules[n].next

Ascend ==
    \A i, j \in DOMAIN runs : i < j /\ runs[i].name = runs[j].name => runs[i].fire < runs[j].fire

Whole == OneTick /\ FiresSeen /\ DueAhead /\ RowAhead /\ Ascend

IInv == TypeOK /\ SweepSound /\ FiresPast /\ ActiveFireUnique /\ (faults = 0 => Whole)
-----------------------------------------------------------------------------
(* What steps do to sweeps and runs.                                       *)

\* Only the sweep of k goes on.
OnlySweep(k) == /\ sweep' \in [Ticks -> SweepType]
                /\ \A l \in Ticks \ {k} : sweep'[l] = sweep[l]

\* The sweeps that do not change.
LEMMA SweepSet ==
    ASSUME TypeOK, NEW k \in Ticks, NEW c \in SweepType, sweep' = [sweep EXCEPT ![k] = c]
    PROVE  OnlySweep(k) /\ sweep'[k] = c
    BY DEF TypeOK, OnlySweep, SweepType

\* An idle sweep.
LEMMA IdleType == Idle \in SweepType
    BY DEF Idle, SweepType

\* A tick begins.
LEMMA BeginStep ==
    ASSUME TypeOK, NEW k \in Ticks, TickIn(k)
    PROVE  /\ OnlySweep(k) /\ sweep'[k].pc = "in" /\ sweep'[k].at = now /\ sweep'[k].due = {}
<1> DEFINE i == [Idle EXCEPT !.pc = "in"]
           c == [i EXCEPT !.at = now]
<1>1. i \in SweepType /\ i.pc = "in" /\ i.due = {}
    BY IdleType DEF Idle, SweepType
<1>2. sweep' = [sweep EXCEPT ![k] = c]
    BY DEF TickIn
<1> HIDE DEF i
<1>3. c \in SweepType /\ c.pc = "in" /\ c.at = now /\ c.due = {}
    BY <1>1 DEF SweepType, TypeOK
<1> HIDE DEF c
<1> QED BY <1>2, <1>3, SweepSet

\* A sweep goes on to another place with other rows.
LEMMA GoStep ==
    ASSUME TypeOK, NEW k \in Ticks, NEW pc \in {"loop"}, NEW due \in SUBSET DueType,
           sweep' = [sweep EXCEPT ![k].pc = pc, ![k].due = due]
    PROVE  OnlySweep(k) /\ sweep'[k].pc = pc /\ sweep'[k].at = sweep[k].at /\ sweep'[k].due = due
<1> DEFINE i == [sweep[k] EXCEPT !.pc = pc]
           c == [i EXCEPT !.due = due]
<1>1. sweep[k] \in SweepType
    BY DEF TypeOK, SweepType
<1>2. i \in SweepType /\ i.pc = pc /\ i.at = sweep[k].at
    BY <1>1 DEF SweepType
<1> HIDE DEF i
<1>3. c \in SweepType /\ c.pc = pc /\ c.at = sweep[k].at /\ c.due = due
    BY <1>2 DEF SweepType
<1>4. sweep' = [sweep EXCEPT ![k] = c]
    BY DEF i
<1> HIDE DEF c
<1> QED BY <1>3, <1>4, SweepSet

\* It has enqueued a row.
LEMMA WriteStep ==
    ASSUME TypeOK, NEW k \in Ticks, NEW due \in DueType,
           sweep' = [sweep EXCEPT ![k].pc = "write", ![k].cur = due]
    PROVE  /\ OnlySweep(k) /\ sweep'[k].pc = "write" /\ sweep'[k].cur = due
           /\ sweep'[k].at = sweep[k].at /\ sweep'[k].due = sweep[k].due
<1> DEFINE i == [sweep[k] EXCEPT !.pc = "write"]
           c == [i EXCEPT !.cur = due]
<1>1. sweep[k] \in SweepType
    BY DEF TypeOK, SweepType
<1>2. i \in SweepType /\ i.pc = "write" /\ i.at = sweep[k].at /\ i.due = sweep[k].due
    BY <1>1 DEF SweepType
<1> HIDE DEF i
<1>3. /\ c \in SweepType /\ c.pc = "write" /\ c.at = sweep[k].at /\ c.cur = due
      /\ c.due = sweep[k].due
    BY <1>2 DEF SweepType
<1>4. sweep' = [sweep EXCEPT ![k] = c]
    BY DEF i
<1> HIDE DEF c
<1> QED BY <1>3, <1>4, SweepSet

\* It has advanced a row.
LEMMA DoneStep ==
    ASSUME TypeOK, NEW k \in Ticks, NEW d,
           sweep' = [sweep EXCEPT ![k].pc = "loop", ![k].due = @ \ {d}, ![k].cur = None]
    PROVE  /\ OnlySweep(k) /\ sweep'[k].pc = "loop"
           /\ sweep'[k].at = sweep[k].at /\ sweep'[k].due = sweep[k].due \ {d}
<1> DEFINE rest == sweep[k].due \ {d}
           i == [sweep[k] EXCEPT !.pc = "loop"]
           j == [i EXCEPT !.due = rest]
           c == [j EXCEPT !.cur = None]
<1>1. sweep[k] \in SweepType
    BY DEF TypeOK, SweepType
<1>2. i \in SweepType /\ i.pc = "loop" /\ i.at = sweep[k].at /\ i.due = sweep[k].due
    BY <1>1 DEF SweepType
<1>3. rest \in SUBSET DueType
    BY <1>1 DEF SweepType
<1>4. sweep' = [sweep EXCEPT ![k] = c]
    BY <1>2
<1> HIDE DEF i, rest
<1>5. j \in SweepType /\ j.pc = "loop" /\ j.at = sweep[k].at /\ j.due = rest
    BY <1>2, <1>3 DEF SweepType
<1> HIDE DEF j
<1>6. c \in SweepType /\ c.pc = "loop" /\ c.at = sweep[k].at /\ c.due = rest
    BY <1>5 DEF SweepType
<1> HIDE DEF c
<1> QED BY <1>4, <1>6, SweepSet DEF rest

\* The runs have their type.
LEMMA RunsTyped ==
    ASSUME TypeOK, NEW i \in DOMAIN runs
    PROVE  runs[i] \in RunType /\ runs[i].fire \in Nat
<1>1. runs \in Seq(RunType) /\ i \in 1..Len(runs)
    BY LenProperties DEF TypeOK
<1>2. runs[i] \in RunType
    BY <1>1, ElementOfSeq
<1> QED BY <1>2 DEF RunType

\* A scheduled run ends.
LEMMA EndStep ==
    ASSUME TypeOK, NEW i \in DOMAIN runs, runs' = [runs EXCEPT ![i].active = FALSE]
    PROVE  /\ runs' \in Seq(RunType) /\ DOMAIN runs' = DOMAIN runs
           /\ \A j \in DOMAIN runs : /\ runs'[j].name = runs[j].name /\ runs'[j].queue = runs[j].queue
                                     /\ runs'[j].fire = runs[j].fire
                                     /\ runs'[j].sweptAt = runs[j].sweptAt
                                     /\ runs'[j].active => runs[j].active
<1> DEFINE c == [runs[i] EXCEPT !.active = FALSE]
<1>1. runs \in Seq(RunType) /\ DOMAIN runs = 1..Len(runs) /\ i \in 1..Len(runs)
    BY LenProperties DEF TypeOK
<1>2. runs[i] \in RunType
    BY <1>1, ElementOfSeq
<1>3. /\ c \in RunType /\ c.name = runs[i].name /\ c.queue = runs[i].queue
      /\ c.fire = runs[i].fire /\ c.active = FALSE /\ c.sweptAt = runs[i].sweptAt
    BY <1>2 DEF RunType
<1> DEFINE r == [runs EXCEPT ![i] = c]
<1>4. runs' = r
    OBVIOUS
<1> HIDE DEF c
<1>5. /\ r \in Seq(RunType) /\ Len(r) = Len(runs)
      /\ \A j \in 1..Len(runs) : r[j] = IF j = i THEN c ELSE runs[j]
    BY <1>1, <1>3, ExceptSeq
<1> HIDE DEF r
<1>6. DOMAIN r = 1..Len(r)
    BY <1>5, LenProperties
<1>7. \A j \in 1..Len(runs) : r[j] = c \/ r[j] = runs[j]
    BY <1>5
<1>8. \A j \in 1..Len(runs) : /\ r[j].name = runs[j].name /\ r[j].queue = runs[j].queue
                              /\ r[j].fire = runs[j].fire
                              /\ r[j].sweptAt = runs[j].sweptAt
                              /\ r[j].active => runs[j].active
    BY <1>3, <1>5
<1> QED BY <1>1, <1>4, <1>5, <1>6, <1>8
-----------------------------------------------------------------------------
(* Each action preserves the invariant.                                    *)

\* A request, the end of a run or the clock: no sweep goes on.
LEMMA PutKeeps ==
    ASSUME IInv, NEW n \in Names, NEW cron, NEW queue \in Queues, NEW enabled \in BOOLEAN,
           Put(n, cron, queue, enabled)
    PROVE  IInv'
<1> DEFINE row == [cron |-> cron, queue |-> queue, enabled |-> enabled, next |-> NextOf[cron][now]]
<1>1. /\ schedules' = [schedules EXCEPT ![n] = row]
      /\ cron \in Parses /\ NextOf[cron][now] # Never
      /\ UNCHANGED <<runs, sweep, tickLock, now, faults>>
    BY DEF Put
<1>2. now \in 0 .. MaxTime /\ schedules \in [Names -> RowType \cup {None}]
    BY DEF IInv, TypeOK
<1>3. NextOf[cron][now] \in Nat /\ NextOf[cron][now] > now
    BY <1>1, <1>2, NextOfIsLater
<1>4. row \in RowType /\ row.next > now /\ row.next \in Nat
    BY <1>1, <1>3 DEF RowType
<1> HIDE DEF row
<1>5. schedules' \in [Names -> RowType \cup {None}]
    BY <1>1, <1>2, <1>4
<1>6. TypeOK'
    BY <1>1, <1>5 DEF IInv, TypeOK
<1>7. SweepSound' /\ FiresPast' /\ ActiveFireUnique'
    BY <1>1 DEF IInv, SweepSound, FiresPast, ActiveFireUnique
<1>8. ASSUME faults' = 0  PROVE Whole'
  <2>1. Whole
      BY <1>1, <1>8 DEF IInv
  <2>2. OneTick' /\ FiresSeen' /\ DueAhead' /\ Ascend'
      BY <1>1, <2>1 DEF Whole, OneTick, FiresSeen, DueAhead, Enqueued, Ascend
  <2>3. ASSUME NEW m \in Names, NEW i \in DOMAIN runs, schedules'[m] # None, runs[i].name = m,
               ~Advancing(m)
        PROVE  runs[i].fire < schedules'[m].next
    <3>1. CASE m = n
      <4>1. runs[i].fire <= now
          BY DEF IInv, FiresPast
      <4>2. runs[i].fire \in Nat
          BY RunsTyped DEF IInv
      <4>3. schedules'[m] = row
          BY <1>1, <1>2, <3>1
      <4> QED BY <1>2, <1>4, <4>1, <4>2, <4>3
    <3>2. CASE m # n
        BY <1>1, <1>2, <2>1, <2>3, <3>2 DEF Whole, RowAhead
    <3> QED BY <3>1, <3>2
  <2>4. RowAhead'
      BY <1>1, <2>3 DEF RowAhead, Advancing
  <2> QED BY <2>2, <2>4 DEF Whole
<1> QED BY <1>6, <1>7, <1>8 DEF IInv

LEMMA DeleteKeeps ==
    ASSUME IInv, NEW n \in Names, Delete(n)
    PROVE  IInv'
<1>1. /\ schedules' = [schedules EXCEPT ![n] = None]
      /\ UNCHANGED <<runs, sweep, tickLock, now, faults>>
    BY DEF Delete
<1>2. schedules \in [Names -> RowType \cup {None}]
    BY DEF IInv, TypeOK
<1>3. TypeOK'
    BY <1>1, <1>2 DEF IInv, TypeOK
<1>4. SweepSound' /\ FiresPast' /\ ActiveFireUnique'
    BY <1>1 DEF IInv, SweepSound, FiresPast, ActiveFireUnique
<1>5. ASSUME faults' = 0  PROVE Whole'
  <2>1. Whole
      BY <1>1, <1>5 DEF IInv
  <2>2. OneTick' /\ FiresSeen' /\ DueAhead' /\ Ascend'
      BY <1>1, <2>1 DEF Whole, OneTick, FiresSeen, DueAhead, Enqueued, Ascend
  <2>3. RowAhead'
      BY <1>1, <1>2, <2>1 DEF Whole, RowAhead, Advancing
  <2> QED BY <2>2, <2>3 DEF Whole
<1> QED BY <1>3, <1>4, <1>5 DEF IInv

LEMMA RunEndsKeeps ==
    ASSUME IInv, NEW i \in DOMAIN runs, RunEnds(i)
    PROVE  IInv'
<1>1. /\ runs' = [runs EXCEPT ![i].active = FALSE]
      /\ UNCHANGED <<schedules, sweep, tickLock, now, faults>>
    BY DEF RunEnds
<1>2. /\ runs' \in Seq(RunType) /\ DOMAIN runs' = DOMAIN runs
      /\ \A j \in DOMAIN runs : /\ runs'[j].name = runs[j].name /\ runs'[j].queue = runs[j].queue
                                /\ runs'[j].fire = runs[j].fire
                                /\ runs'[j].active => runs[j].active
    BY <1>1, EndStep DEF IInv
<1>3. TypeOK'
    BY <1>1, <1>2 DEF IInv, TypeOK
<1>4. SweepSound' /\ FiresPast'
    BY <1>1, <1>2 DEF IInv, SweepSound, FiresPast
<1>5. ActiveFireUnique'
  <2>1. ASSUME NEW j \in DOMAIN runs, NEW l \in DOMAIN runs, runs'[j].active, runs'[l].active,
               runs'[j].name = runs'[l].name, runs'[j].queue = runs'[l].queue,
               runs'[j].fire = runs'[l].fire
        PROVE  j = l
    <3>1. runs[j].active /\ runs[l].active
        BY <1>2, <2>1, Zenon
    <3>2. /\ runs[j].name = runs[l].name /\ runs[j].queue = runs[l].queue
          /\ runs[j].fire = runs[l].fire
        BY <1>2, <2>1
    <3> QED BY <3>1, <3>2, Zenon DEF IInv, ActiveFireUnique
  <2> QED BY <1>2, <2>1, Zenon DEF ActiveFireUnique
<1>6. ASSUME faults' = 0  PROVE Whole'
  <2>1. Whole
      BY <1>1, <1>6 DEF IInv
  <2>2. OneTick' /\ FiresSeen' /\ Ascend'
      BY <1>1, <1>2, <2>1, SMTT(30) DEF Whole, OneTick, FiresSeen, Ascend
  <2>3. DueAhead' /\ RowAhead'
      BY <1>1, <1>2, <2>1 DEF Whole, DueAhead, Enqueued, RowAhead, Advancing
  <2> QED BY <2>2, <2>3 DEF Whole
<1> QED BY <1>3, <1>4, <1>5, <1>6 DEF IInv

\* The rest of the invariant does not look at the clock.
LEMMA AdvanceKeeps ==
    ASSUME IInv, Advance
    PROVE  IInv'
<1>1. /\ now' \in 0 .. MaxTime /\ now <= now'
      /\ UNCHANGED <<schedules, runs, sweep, tickLock, faults>>
    BY DEF IInv, TypeOK, Advance
<1>2. TypeOK'
    BY <1>1 DEF IInv, TypeOK
<1>3. SweepSound'
  <2>1. \A k \in Ticks : sweep[k].at \in 0 .. MaxTime /\ sweep[k].at <= now
      BY DEF IInv, TypeOK, SweepSound
  <2>2. \A k \in Ticks : sweep[k].at <= now'
      BY <1>1, <2>1 DEF IInv, TypeOK
  <2> QED BY <1>1, <2>2 DEF IInv, SweepSound
<1>4. FiresPast'
  <2>1. \A i \in DOMAIN runs : runs[i].fire \in Nat
      BY RunsTyped DEF IInv
  <2> QED BY <1>1, <2>1 DEF IInv, TypeOK, FiresPast
<1>5. ActiveFireUnique' /\ (faults' = 0 => Whole')
    BY <1>1 DEF IInv, ActiveFireUnique, Whole, OneTick, FiresSeen, DueAhead, Enqueued,
                RowAhead, Advancing, Ascend
<1> QED BY <1>2, <1>3, <1>4, <1>5 DEF IInv

\* A tick that holds the lock finds the others idle.
LEMMA TickInKeeps ==
    ASSUME IInv, NEW k \in Ticks, TickIn(k)
    PROVE  IInv'
<1>1. /\ sweep[k].pc = "idle" /\ tickLock = None /\ tickLock' = k
      /\ UNCHANGED <<schedules, runs, now, faults>>
    BY DEF TickIn
<1>2. /\ OnlySweep(k) /\ sweep'[k].pc = "in" /\ sweep'[k].at = now /\ sweep'[k].due = {}
    BY BeginStep DEF IInv
<1>3. TypeOK'
    BY <1>1, <1>2 DEF IInv, TypeOK, OnlySweep, SweepType
<1>4. SweepSound'
  <2>1. now <= now
      BY DEF IInv, TypeOK
  <2> QED BY <1>1, <1>2, <2>1 DEF IInv, SweepSound, OnlySweep
<1>5. FiresPast' /\ ActiveFireUnique'
    BY <1>1 DEF IInv, FiresPast, ActiveFireUnique
<1>6. ASSUME faults' = 0  PROVE Whole'
  <2>1. Whole
      BY <1>1, <1>6 DEF IInv
  <2>2. \A l \in Ticks : sweep[l].pc = "idle"
      BY <1>1, <2>1 DEF Whole, OneTick
  <2>3. \A l \in Ticks : sweep'[l].due = {} /\ (l # k => sweep'[l].pc = "idle")
      BY <1>2, <2>2 DEF IInv, SweepSound, OnlySweep
  <2>4. OneTick' /\ DueAhead'
      BY <1>1, <2>3 DEF OneTick, DueAhead
  <2>5. FiresSeen'
      BY <1>1, <1>2, <2>3 DEF IInv, FiresPast, FiresSeen
  <2>6. RowAhead' /\ Ascend'
      BY <1>1, <2>1, <2>2 DEF Whole, RowAhead, Advancing, Ascend
  <2> QED BY <2>4, <2>5, <2>6 DEF Whole
<1> QED BY <1>3, <1>4, <1>5, <1>6 DEF IInv

\* The selected rows are later than all fires.
LEMMA SelectKeeps ==
    ASSUME IInv, NEW k \in Ticks, Select(k)
    PROVE  IInv'
<1> DEFINE due == {[name |-> n, row |-> schedules[n]] : n \in Due(sweep[k].at)}
<1>1. /\ sweep[k].pc = "in" /\ sweep' = [sweep EXCEPT ![k].pc = "loop", ![k].due = due]
      /\ UNCHANGED <<schedules, runs, tickLock, now, faults>>
    BY DEF Select
<1>2. \A d \in due : /\ d.name \in Names /\ schedules[d.name] # None /\ d.row = schedules[d.name]
                     /\ d.row.next <= sweep[k].at /\ d \in DueType
    BY DEF Due, DueType, IInv, TypeOK
<1>3. \A d, e \in due : d.name = e.name => d = e
    OBVIOUS
<1> HIDE DEF due
<1>4. due \in SUBSET DueType
    BY <1>2
<1>5. /\ OnlySweep(k) /\ sweep'[k].pc = "loop" /\ sweep'[k].at = sweep[k].at
      /\ sweep'[k].due = due
    BY <1>1, <1>4, GoStep DEF IInv
<1>6. TypeOK'
    BY <1>1, <1>5 DEF IInv, TypeOK, OnlySweep, SweepType
<1>7. SweepSound'
    BY <1>1, <1>2, <1>3, <1>5 DEF IInv, SweepSound, OnlySweep
<1>8. FiresPast' /\ ActiveFireUnique'
    BY <1>1 DEF IInv, FiresPast, ActiveFireUnique
<1>9. ASSUME faults' = 0  PROVE Whole'
  <2>1. Whole
      BY <1>1, <1>9 DEF IInv
  <2>2. tickLock = k /\ \A l \in Ticks : l # k => sweep[l].pc = "idle"
      BY <1>1, <2>1 DEF Whole, OneTick
  <2>3. OneTick' /\ FiresSeen'
      BY <1>1, <1>5, <2>1, <2>2 DEF Whole, OneTick, FiresSeen, OnlySweep
  <2>4. \A n \in Names : ~Advancing(n)
      BY <1>1, <2>2 DEF Advancing
  <2>5. \A i \in DOMAIN runs, d \in due : runs[i].name = d.name => runs[i].fire < d.row.next
      BY <1>2, <2>1, <2>4 DEF Whole, RowAhead
  <2>6. DueAhead'
      BY <1>1, <1>5, <2>1, <2>5 DEF Whole, DueAhead, Enqueued, OnlySweep
  <2>7. RowAhead' /\ Ascend'
      BY <1>1, <2>1, <2>4 DEF Whole, RowAhead, Ascend
  <2> QED BY <2>3, <2>6, <2>7 DEF Whole
<1> QED BY <1>6, <1>7, <1>8, <1>9 DEF IInv

\* What is enqueued is later than all fires and no active run.
LEMMA EnqueueKeeps ==
    ASSUME IInv, NEW k \in Ticks, NEW due \in sweep[k].due, EnqueueDue(k, due)
    PROVE  IInv'
<1> DEFINE run == [name |-> due.name, queue |-> due.row.queue, fire |-> due.row.next,
                   active |-> TRUE, sweptAt |-> sweep[k].at]
<1>1. /\ sweep[k].pc = "loop"
      /\ runs' = IF Taken(due.name, due.row) THEN runs ELSE Append(runs, run)
      /\ sweep' = [sweep EXCEPT ![k].pc = "write", ![k].cur = due]
      /\ UNCHANGED <<schedules, tickLock, now, faults>>
    BY DEF EnqueueDue
<1>2. /\ due \in DueType /\ due.name \in Names /\ due.row \in RowType
      /\ due.row.next <= sweep[k].at /\ sweep[k].at <= now
      /\ sweep[k].at \in Nat /\ due.row.next \in Nat /\ due.row.queue \in Queues
  <2>1. sweep[k] \in SweepType
      BY DEF IInv, TypeOK, SweepType
  <2>2. due \in DueType /\ sweep[k].at \in Nat
      BY <2>1 DEF SweepType
  <2> QED BY <2>2 DEF DueType, RowType, IInv, SweepSound
<1>3. /\ run \in RunType /\ run.name = due.name /\ run.queue = due.row.queue
      /\ run.fire = due.row.next
    BY <1>2 DEF RunType
<1> HIDE DEF run
<1>4. /\ OnlySweep(k) /\ sweep'[k].pc = "write" /\ sweep'[k].cur = due
      /\ sweep'[k].at = sweep[k].at /\ sweep'[k].due = sweep[k].due
    BY <1>1, <1>2, WriteStep DEF IInv
<1>5. runs \in Seq(RunType) /\ Len(runs) \in Nat /\ DOMAIN runs = 1..Len(runs)
    BY LenProperties DEF IInv, TypeOK
<1>6. /\ runs' \in Seq(RunType)
      /\ \/ runs' = runs
         \/ /\ ~Taken(due.name, due.row) /\ DOMAIN runs' = 1..(Len(runs) + 1)
            /\ runs'[Len(runs) + 1] = run /\ \A i \in DOMAIN runs : runs'[i] = runs[i]
  <2>1. CASE Taken(due.name, due.row)
      BY <1>1, <1>5, <2>1
  <2>2. CASE ~Taken(due.name, due.row)
    <3>1. runs' = Append(runs, run)
        BY <1>1, <2>2
    <3>2. /\ runs' \in Seq(RunType) /\ Len(runs') = Len(runs) + 1
          /\ runs'[Len(runs) + 1] = run /\ \A i \in 1..Len(runs) : runs'[i] = runs[i]
        BY <1>3, <1>5, <3>1, AppendProperties
    <3>3. DOMAIN runs' = 1..Len(runs')
        BY <3>2, LenProperties
    <3> QED BY <1>5, <2>2, <3>2, <3>3
  <2> QED BY <2>1, <2>2
<1>7. \A i \in DOMAIN runs' : \/ i \in DOMAIN runs /\ runs'[i] = runs[i]
                              \/ /\ i = Len(runs) + 1 /\ runs'[i] = run
                                 /\ ~Taken(due.name, due.row)
    BY <1>5, <1>6
<1>8. TypeOK'
    BY <1>1, <1>4, <1>6 DEF IInv, TypeOK, OnlySweep, SweepType
<1>9. SweepSound'
    BY <1>1, <1>4 DEF IInv, SweepSound, OnlySweep
<1>10. FiresPast'
  <2>1. run.fire <= now
      BY <1>2, <1>3 DEF IInv, TypeOK
  <2> QED BY <1>1, <1>7, <2>1 DEF IInv, FiresPast
<1>11. ActiveFireUnique'
  <2>1. \A i \in DOMAIN runs : ~Taken(due.name, due.row) /\ runs[i].active
                                   => \/ runs[i].name # run.name \/ runs[i].queue # run.queue
                                      \/ runs[i].fire # run.fire
      BY <1>3 DEF Taken
  <2> QED BY <1>7, <2>1 DEF IInv, ActiveFireUnique
<1>12. ASSUME faults' = 0  PROVE Whole'
  <2>1. Whole
      BY <1>1, <1>12 DEF IInv
  <2>2. tickLock = k /\ \A l \in Ticks : l # k => sweep[l].pc = "idle" /\ sweep[l].due = {}
      BY <1>1, <2>1 DEF Whole, OneTick, IInv, SweepSound
  <2>3. \A l \in Ticks : l # k => sweep'[l] = sweep[l]
      BY <1>4 DEF OnlySweep
  <2>4. OneTick'
      BY <1>1, <2>2, <2>3 DEF OneTick
  <2>5. FiresSeen'
      BY <1>1, <1>2, <1>3, <1>4, <1>7, <2>1, <2>2, <2>3, ZenonT(30) DEF Whole, FiresSeen
  <2>6. DueAhead'
    <3>1. ASSUME NEW d \in sweep[k].due, d # due, NEW i \in DOMAIN runs', runs'[i].name = d.name
          PROVE  runs'[i].fire < d.row.next
      <4>1. d.name # run.name
          BY <1>3, <3>1 DEF IInv, SweepSound
      <4>2. i \in DOMAIN runs /\ runs'[i] = runs[i]
          BY <1>7, <3>1, <4>1
      <4>3. ~Enqueued(k, d)
          BY <1>1 DEF Enqueued
      <4> QED BY <2>1, <3>1, <4>2, <4>3 DEF Whole, DueAhead
    <3>2. \A d : Enqueued(k, d)' <=> d = due
        BY <1>4 DEF Enqueued
    <3> QED BY <1>4, <2>2, <2>3, <3>1, <3>2 DEF DueAhead
  <2>7. RowAhead'
    <3>1. Advancing(due.name)'
        BY <1>4 DEF Advancing
    <3>2. \A n \in Names : ~Advancing(n)
        BY <1>1, <2>2 DEF Advancing
    <3>3. ASSUME NEW n \in Names, NEW i \in DOMAIN runs', schedules[n] # None,
                 runs'[i].name = n, n # due.name
          PROVE  runs'[i].fire < schedules[n].next
      <4>1. i \in DOMAIN runs /\ runs'[i] = runs[i]
          BY <1>3, <1>7, <3>3
      <4> QED BY <2>1, <3>2, <3>3, <4>1 DEF Whole, RowAhead
    <3> QED BY <1>1, <3>1, <3>3 DEF RowAhead
  <2>8. Ascend'
    <3>1. \A i \in DOMAIN runs : runs[i].name = run.name => runs[i].fire < run.fire
      <4>1. ~Enqueued(k, due)
          BY <1>1 DEF Enqueued
      <4> QED BY <1>3, <2>1, <4>1 DEF Whole, DueAhead
    <3>2. ASSUME NEW i \in DOMAIN runs', NEW j \in DOMAIN runs', i < j, runs'[i].name = runs'[j].name
          PROVE  runs'[i].fire < runs'[j].fire
      <4>1. CASE j \in DOMAIN runs
        <5>1. i \in DOMAIN runs /\ runs'[i] = runs[i] /\ runs'[j] = runs[j]
            BY <1>5, <1>7, <3>2, <4>1
        <5>2. runs[i].name = runs[j].name
            BY <3>2, <5>1
        <5>3. runs[i].fire < runs[j].fire
            BY <2>1, <3>2, <4>1, <5>1, <5>2, Zenon DEF Whole, Ascend
        <5> QED BY <5>1, <5>3
      <4>2. CASE j \notin DOMAIN runs
        <5>1. j = Len(runs) + 1 /\ runs'[j] = run
            BY <1>7, <4>2
        <5>2. i \in DOMAIN runs /\ runs'[i] = runs[i]
            BY <1>5, <1>7, <3>2, <5>1
        <5> QED BY <3>1, <3>2, <5>1, <5>2
      <4> QED BY <4>1, <4>2
    <3> QED BY <3>2 DEF Ascend
  <2> QED BY <2>4, <2>5, <2>6, <2>7, <2>8 DEF Whole
<1> QED BY <1>8, <1>9, <1>10, <1>11, <1>12 DEF IInv

\* The next time is later than the time of the tick, and no fire is after that.
LEMMA AdvanceDueKeeps ==
    ASSUME IInv, NEW k \in Ticks, AdvanceDue(k)
    PROVE  IInv'
<1> DEFINE due == sweep[k].cur
           n == due.name
           next == NextOf[due.row.cron][sweep[k].at]
<1>1. /\ sweep[k].pc = "write" /\ next # Never
      /\ schedules' = IF schedules[n] = None THEN schedules ELSE [schedules EXCEPT ![n].next = next]
      /\ sweep' = [sweep EXCEPT ![k].pc = "loop", ![k].due = @ \ {due}, ![k].cur = None]
      /\ UNCHANGED <<runs, tickLock, now, faults>>
    BY DEF AdvanceDue
<1>2. /\ due \in sweep[k].due /\ due \in DueType /\ n \in Names /\ due.row.cron \in Parses
      /\ sweep[k].at \in 0 .. MaxTime
  <2>1. sweep[k] \in SweepType /\ due \in sweep[k].due
      BY <1>1 DEF IInv, TypeOK, SweepType, SweepSound
  <2>2. due \in DueType /\ sweep[k].at \in 0 .. MaxTime
      BY <2>1 DEF SweepType
  <2> QED BY <2>1, <2>2 DEF DueType, RowType
<1>3. next \in Nat /\ next > sweep[k].at
    BY <1>1, <1>2, NextOfIsLater
<1>4. OnlySweep(k) /\ sweep'[k].pc = "loop" /\ sweep'[k].at = sweep[k].at /\ sweep'[k].due = sweep[k].due \ {due}
    BY <1>1, DoneStep DEF IInv
<1> HIDE DEF next
<1>5. /\ schedules' \in [Names -> RowType \cup {None}]
      /\ \A m \in Names : m # n => schedules'[m] = schedules[m]
      /\ schedules'[n] # None => schedules'[n].next = next
  <2>1. schedules \in [Names -> RowType \cup {None}]
      BY DEF IInv, TypeOK
  <2>2. CASE schedules[n] = None
      BY <1>1, <2>1, <2>2
  <2>3. CASE schedules[n] # None
    <3> DEFINE row == [schedules[n] EXCEPT !.next = next]
    <3>1. schedules[n] \in RowType
        BY <1>2, <2>1, <2>3
    <3>2. row \in RowType /\ row.next = next
        BY <1>3, <3>1 DEF RowType
    <3>3. schedules' = [schedules EXCEPT ![n] = row]
        BY <1>1, <2>3
    <3> HIDE DEF row
    <3> QED BY <1>2, <2>1, <3>2, <3>3
  <2> QED BY <2>2, <2>3
<1> HIDE DEF due
<1>6. TypeOK'
    BY <1>1, <1>4, <1>5 DEF IInv, TypeOK, OnlySweep, SweepType
<1>7. SweepSound'
    BY <1>1, <1>4 DEF IInv, SweepSound, OnlySweep
<1>8. FiresPast' /\ ActiveFireUnique'
    BY <1>1 DEF IInv, FiresPast, ActiveFireUnique
<1>9. ASSUME faults' = 0  PROVE Whole'
  <2>1. Whole
      BY <1>1, <1>9 DEF IInv
  <2>2. tickLock = k /\ \A l \in Ticks : l # k => sweep[l].pc = "idle" /\ sweep[l].due = {}
      BY <1>1, <2>1 DEF Whole, OneTick, IInv, SweepSound
  <2>3. \A l \in Ticks : l # k => sweep'[l] = sweep[l]
      BY <1>4 DEF OnlySweep
  <2>4. OneTick' /\ FiresSeen' /\ Ascend'
      BY <1>1, <1>4, <2>1, <2>2, <2>3 DEF Whole, OneTick, FiresSeen, Ascend
  <2>5. DueAhead'
    <3>1. \A d \in sweep[k].due \ {due} : ~Enqueued(k, d)
        BY DEF Enqueued, due
    <3> QED BY <1>1, <1>4, <2>1, <2>2, <2>3, <3>1 DEF Whole, DueAhead
  <2>6. RowAhead'
    <3>1. ASSUME NEW m \in Names, NEW i \in DOMAIN runs, schedules'[m] # None, runs[i].name = m
          PROVE  runs[i].fire < schedules'[m].next
      <4>1. CASE m = n
        <5>1. runs[i].fire <= sweep[k].at
            BY <1>1, <2>1 DEF Whole, FiresSeen
        <5>2. runs[i].fire \in Nat
            BY RunsTyped DEF IInv
        <5> QED BY <1>2, <1>3, <1>5, <3>1, <4>1, <5>1, <5>2
      <4>2. CASE m # n
        <5>1. ~Advancing(m)
            BY <2>2, <4>2 DEF Advancing, due
        <5> QED BY <1>5, <2>1, <3>1, <4>2, <5>1 DEF Whole, RowAhead
      <4> QED BY <4>1, <4>2
    <3> QED BY <1>1, <3>1 DEF RowAhead
  <2> QED BY <2>4, <2>5, <2>6 DEF Whole
<1> QED BY <1>6, <1>7, <1>8, <1>9 DEF IInv

\* A tick is over.
LEMMA IdleStep ==
    ASSUME IInv, NEW k \in Ticks, sweep' = [sweep EXCEPT ![k] = Idle], tickLock' = Free(k),
           UNCHANGED <<schedules, runs, now>>, faults' \in Nat
    PROVE  /\ TypeOK' /\ SweepSound' /\ FiresPast' /\ ActiveFireUnique'
           /\ OnlySweep(k) /\ sweep'[k] = Idle
<1>1. OnlySweep(k) /\ sweep'[k] = Idle
    BY IdleType, SweepSet DEF IInv
<1>2. /\ Idle.pc = "idle" /\ Idle.at = 0 /\ Idle.due = {}
    BY DEF Idle
<1>3. TypeOK'
  <2>1. tickLock' \in Ticks \cup {None}
      BY DEF IInv, TypeOK, Free
  <2> QED BY <1>1, <2>1 DEF IInv, TypeOK, OnlySweep, SweepType
<1>4. SweepSound'
    BY <1>1, <1>2 DEF IInv, TypeOK, SweepSound, OnlySweep
<1>5. FiresPast' /\ ActiveFireUnique'
    BY DEF IInv, FiresPast, ActiveFireUnique
<1> QED BY <1>1, <1>3, <1>4, <1>5

LEMMA TickEndKeeps ==
    ASSUME IInv, NEW k \in Ticks, TickEnd(k)
    PROVE  IInv'
<1>1. /\ sweep[k].pc = "loop" /\ sweep' = [sweep EXCEPT ![k] = Idle] /\ tickLock' = Free(k)
      /\ UNCHANGED <<schedules, runs, now, faults>>
    BY DEF TickEnd
<1>2. /\ TypeOK' /\ SweepSound' /\ FiresPast' /\ ActiveFireUnique'
      /\ OnlySweep(k) /\ sweep'[k] = Idle
  <2>1. faults' \in Nat
      BY <1>1 DEF IInv, TypeOK
  <2> QED BY <1>1, <2>1, IdleStep
<1>3. ASSUME faults' = 0  PROVE Whole'
  <2>1. Whole
      BY <1>1, <1>3 DEF IInv
  <2>2. sweep'[k].pc = "idle" /\ sweep'[k].due = {} /\ \A l \in Ticks : l # k => sweep'[l] = sweep[l]
      BY <1>2 DEF OnlySweep, Idle
  <2>3. OneTick'
      BY <1>1, <2>1, <2>2 DEF Whole, OneTick, Free
  <2>4. FiresSeen' /\ Ascend'
      BY <1>1, <2>1, <2>2 DEF Whole, FiresSeen, Ascend
  <2>5. DueAhead'
      BY <1>1, <2>1, <2>2 DEF Whole, DueAhead, Enqueued
  <2>6. RowAhead'
      BY <1>1, <2>1, <2>2 DEF Whole, RowAhead, Advancing
  <2> QED BY <2>3, <2>4, <2>5, <2>6 DEF Whole
<1> QED BY <1>2, <1>3 DEF IInv

\* After a fault the invariant says nothing of the order of fires.
LEMMA FaultKeeps ==
    ASSUME IInv, NEW k \in Ticks, Interrupt(k) \/ LoseLock(k)
    PROVE  IInv'
<1>1. faults \in Nat /\ faults' = faults + 1
    BY DEF IInv, TypeOK, Interrupt, LoseLock
<1>2. faults' \in Nat /\ faults' # 0
    BY <1>1
<1>3. CASE Interrupt(k)
    BY <1>2, <1>3, IdleStep DEF Interrupt, IInv
<1>4. CASE LoseLock(k)
  <2>1. tickLock' = None /\ UNCHANGED <<schedules, runs, sweep, now>>
      BY <1>4 DEF LoseLock
  <2> QED BY <1>2, <2>1 DEF IInv, TypeOK, SweepSound, FiresPast, ActiveFireUnique
<1> QED BY <1>3, <1>4
-----------------------------------------------------------------------------
(* Theorems.                                                               *)

LEMMA InitIInv == Init => IInv
<1> SUFFICES ASSUME Init
             PROVE  IInv
    OBVIOUS
<1>1. /\ schedules = [n \in Names |-> None] /\ runs = <<>> /\ sweep = [k \in Ticks |-> Idle]
      /\ tickLock = None /\ now = 0 /\ faults = 0
    BY DEF Init
<1>2. \A k \in Ticks : sweep[k] = Idle
    BY <1>1
<1>3. Idle.pc = "idle" /\ Idle.at = 0 /\ Idle.due = {}
    BY DEF Idle
<1>4. runs \in Seq(RunType) /\ DOMAIN runs = {}
    BY <1>1
<1>5. sweep \in [Ticks -> SweepType]
    BY <1>1, IdleType
<1>6. TypeOK
    BY <1>1, <1>4, <1>5 DEF TypeOK, SweepType
<1>7. SweepSound /\ FiresPast /\ ActiveFireUnique
    BY <1>1, <1>2, <1>3, <1>4 DEF SweepSound, FiresPast, ActiveFireUnique
<1>8. Whole
    BY <1>2, <1>3, <1>4 DEF Whole, OneTick, FiresSeen, DueAhead, RowAhead, Ascend
<1> QED BY <1>6, <1>7, <1>8 DEF IInv

LEMMA NextIInv == IInv /\ [Next]_vars => IInv'
<1> SUFFICES ASSUME IInv, [Next]_vars
             PROVE  IInv'
    OBVIOUS
<1>1. ASSUME NEW n \in Names, NEW cron \in Crons, NEW queue \in Queues, NEW enabled \in BOOLEAN,
             Put(n, cron, queue, enabled)
      PROVE  IInv'
    BY <1>1, PutKeeps
<1>2. ASSUME NEW n \in Names, Delete(n)  PROVE IInv'
    BY <1>2, DeleteKeeps
<1>3. ASSUME NEW i \in DOMAIN runs, RunEnds(i)  PROVE IInv'
    BY <1>3, RunEndsKeeps
<1>4. ASSUME NEW k \in Ticks, SweepStep(k)  PROVE IInv'
    BY <1>4, TickInKeeps, SelectKeeps, EnqueueKeeps, AdvanceDueKeeps, TickEndKeeps DEF SweepStep
<1>5. ASSUME NEW k \in Ticks, Interrupt(k) \/ LoseLock(k)  PROVE IInv'
    BY <1>5, FaultKeeps
<1>6. ASSUME Advance  PROVE IInv'
    BY <1>6, AdvanceKeeps
<1>7. ASSUME UNCHANGED vars  PROVE IInv'
    BY <1>7 DEF vars, IInv, TypeOK, SweepSound, FiresPast, ActiveFireUnique, Whole, OneTick,
                FiresSeen, DueAhead, Enqueued, RowAhead, Advancing, Ascend
<1> QED BY <1>1, <1>2, <1>3, <1>4, <1>5, <1>6, <1>7 DEF Next

\* The inductive invariant holds in every reachable state of Schedules.
THEOREM SchedulesInvariant == Spec => []IInv
    BY InitIInv, NextIInv, PTL DEF Spec

\* Tables, sweeps and the lock keep their types.
THEOREM SchedulesTypeCorrect == Spec => []TypeOK
<1>1. IInv => TypeOK
    BY DEF IInv
<1> QED BY <1>1, SchedulesInvariant, PTL

\* Two active runs of a queue are never the same fire, whatever is interrupted
\* or swept twice (reconciler.ts:201-202).
THEOREM ActiveFiresUnique == Spec => []ActiveFireUnique
<1>1. IInv => ActiveFireUnique
    BY DEF IInv
<1> QED BY <1>1, SchedulesInvariant, PTL

\* Without faults the fires of a schedule ascend, however it is put, deleted and
\* put again while it is swept (reconciler.ts:191-212).
THEOREM FiresAlwaysAscend == Spec => []FiresAscend
<1>1. IInv => FiresAscend
    BY DEF IInv, Whole, Ascend, FiresAscend
<1> QED BY <1>1, SchedulesInvariant, PTL
-----------------------------------------------------------------------------
(* No minute is skipped.                                                   *)

\* A run that was enqueued late enough stands for a minute.
Covered(n, t) == \E i \in DOMAIN runs : runs[i].name = n /\ runs[i].fire <= t /\ t <= runs[i].sweptAt

\* What a tick is about to advance, it enqueued.
WriteCovered ==
    \A k \in Ticks : sweep[k].pc = "write" =>
        \E i \in DOMAIN runs : /\ runs[i].name = sweep[k].cur.name
                               /\ runs[i].fire = sweep[k].cur.row.next
                               /\ runs[i].sweptAt = sweep[k].at

\* A row has a minute its expression means, and those before it were enqueued.
SinceTyped == since \in [Names -> [put: 0 .. MaxTime, over: BOOLEAN]]

SInv == SinceTyped /\ NextIsMeant /\ NoMinuteSkipped /\ (faults = 0 => WriteCovered)

\* Runs are never removed.
RunsStay ==
    \A i \in DOMAIN runs : /\ i \in DOMAIN runs' /\ runs'[i].name = runs[i].name
                           /\ runs'[i].fire = runs[i].fire /\ runs'[i].sweptAt = runs[i].sweptAt

\* What was covered stays so.
LEMMA CoveredStays ==
    ASSUME RunsStay, NEW n, NEW t, Covered(n, t)
    PROVE  \E i \in DOMAIN runs' : runs'[i].name = n /\ runs'[i].fire <= t /\ t <= runs'[i].sweptAt
<1>1. PICK i \in DOMAIN runs : runs[i].name = n /\ runs[i].fire <= t /\ t <= runs[i].sweptAt
    BY DEF Covered
<1> QED BY <1>1 DEF RunsStay

\* A step that leaves the table alone and enqueues nothing.
LEMMA QuietSInv ==
    ASSUME SInv, RunsStay, UNCHANGED <<schedules, since>>, faults' = 0 => faults = 0,
           \A k \in Ticks : sweep'[k].pc = "write" => sweep'[k] = sweep[k]
    PROVE  SInv'
<1>1. SinceTyped' /\ NextIsMeant'
    BY DEF SInv, SinceTyped, NextIsMeant
<1>2. NoMinuteSkipped'
    BY CoveredStays DEF SInv, NoMinuteSkipped, Covered
<1>3. ASSUME faults' = 0, NEW k \in Ticks, sweep'[k].pc = "write"
      PROVE  \E i \in DOMAIN runs' : /\ runs'[i].name = sweep'[k].cur.name
                                     /\ runs'[i].fire = sweep'[k].cur.row.next
                                     /\ runs'[i].sweptAt = sweep'[k].at
  <2>1. sweep'[k] = sweep[k] /\ WriteCovered
      BY <1>3 DEF SInv
  <2>2. PICK i \in DOMAIN runs : /\ runs[i].name = sweep[k].cur.name
                                 /\ runs[i].fire = sweep[k].cur.row.next
                                 /\ runs[i].sweptAt = sweep[k].at
      BY <1>3, <2>1 DEF WriteCovered
  <2>3. i \in DOMAIN runs' /\ runs'[i].name = sweep'[k].cur.name
        /\ runs'[i].fire = sweep'[k].cur.row.next /\ runs'[i].sweptAt = sweep'[k].at
      BY <2>1, <2>2 DEF RunsStay
  <2> QED BY <2>3
<1> QED BY <1>1, <1>2, <1>3 DEF SInv, WriteCovered

\* A schedule is put: its time is the first minute that its expression means.
LEMMA PutSInv ==
    ASSUME IInv, SInv, NEW n \in Names, NEW cron, NEW queue \in Queues, NEW enabled \in BOOLEAN,
           Put(n, cron, queue, enabled)
    PROVE  SInv'
<1> DEFINE row == [cron |-> cron, queue |-> queue, enabled |-> enabled, next |-> NextOf[cron][now]]
           s == [put |-> now, over |-> FALSE]
<1>1. /\ schedules' = [schedules EXCEPT ![n] = row] /\ since' = [since EXCEPT ![n] = s]
      /\ cron \in Parses /\ NextOf[cron][now] # Never
      /\ UNCHANGED <<runs, sweep, now, faults>>
    BY DEF Put
<1>2. now \in 0 .. MaxTime /\ schedules \in [Names -> RowType \cup {None}]
    BY DEF IInv, TypeOK
<1>3. /\ Means(row.cron, row.next)
      /\ \A t \in (s.put + 1) .. (row.next - 1) : ~Means(row.cron, t)
    BY <1>1, <1>2, NextOfIsMeant
<1>4. s \in [put: 0 .. MaxTime, over: BOOLEAN]
    BY <1>2
<1> HIDE DEF row, s
<1>5. /\ schedules'[n] = row /\ since'[n] = s
      /\ \A m \in Names : m # n => schedules'[m] = schedules[m] /\ since'[m] = since[m]
    BY <1>1, <1>2 DEF SInv, SinceTyped
<1>6. SinceTyped'
    BY <1>1, <1>4 DEF SInv, SinceTyped
<1>7. NextIsMeant'
    BY <1>3, <1>5 DEF SInv, NextIsMeant
<1>8. NoMinuteSkipped'
  <2>1. ASSUME NEW m \in Names, faults' = 0, schedules'[m] # None, ~since'[m].over,
               NEW t \in (since'[m].put + 1) .. (schedules'[m].next - 1), Means(schedules'[m].cron, t)
        PROVE  Covered(m, t)
    <3>1. m # n
        BY <1>3, <1>5, <2>1
    <3>2. schedules'[m] = schedules[m] /\ since'[m] = since[m] /\ faults = 0
        BY <1>1, <1>5, <2>1, <3>1
    <3> QED BY <2>1, <3>2 DEF SInv, NoMinuteSkipped, Covered
  <2> QED BY <1>1, <2>1 DEF NoMinuteSkipped, Covered
<1>9. faults' = 0 => WriteCovered'
    BY <1>1 DEF SInv, WriteCovered
<1> QED BY <1>6, <1>7, <1>8, <1>9 DEF SInv

\* A schedule is deleted.
LEMMA DeleteSInv ==
    ASSUME IInv, SInv, NEW n \in Names, Delete(n)
    PROVE  SInv'
<1>1. schedules' = [schedules EXCEPT ![n] = None] /\ UNCHANGED <<runs, sweep, faults, since>>
    BY DEF Delete
<1>2. schedules \in [Names -> RowType \cup {None}]
    BY DEF IInv, TypeOK
<1>3. schedules'[n] = None /\ \A m \in Names : m # n => schedules'[m] = schedules[m]
    BY <1>1, <1>2
<1>4. SinceTyped' /\ NextIsMeant' /\ NoMinuteSkipped' /\ (faults' = 0 => WriteCovered')
    BY <1>1, <1>3 DEF SInv, SinceTyped, NextIsMeant, NoMinuteSkipped, WriteCovered
<1> QED BY <1>4 DEF SInv

\* A run is enqueued: without faults its key is not taken, for no fire of its
\* schedule is as late.
LEMMA EnqueueSInv ==
    ASSUME IInv, SInv, NEW k \in Ticks, NEW due \in sweep[k].due, EnqueueDue(k, due)
    PROVE  SInv'
<1> DEFINE run == [name |-> due.name, queue |-> due.row.queue, fire |-> due.row.next,
                   active |-> TRUE, sweptAt |-> sweep[k].at]
<1>1. /\ sweep[k].pc = "loop"
      /\ runs' = IF Taken(due.name, due.row) THEN runs ELSE Append(runs, run)
      /\ sweep' = [sweep EXCEPT ![k].pc = "write", ![k].cur = due]
      /\ UNCHANGED <<schedules, faults, since>>
    BY DEF EnqueueDue
<1>2. due \in DueType /\ due.name \in Names /\ due.row \in RowType /\ sweep[k].at \in Nat
  <2>1. sweep[k] \in SweepType
      BY DEF IInv, TypeOK, SweepType
  <2>2. due \in DueType /\ sweep[k].at \in Nat
      BY <2>1 DEF SweepType
  <2> QED BY <2>2 DEF DueType
<1>3. due.row.next \in Nat /\ due.row.queue \in Queues
    BY <1>2 DEF RowType
<1>4. run \in RunType /\ run.name = due.name /\ run.fire = due.row.next /\ run.sweptAt = sweep[k].at
    BY <1>2, <1>3 DEF RunType
<1> HIDE DEF run
<1>5. /\ OnlySweep(k) /\ sweep'[k].pc = "write" /\ sweep'[k].cur = due /\ sweep'[k].at = sweep[k].at
    BY <1>1, <1>2, WriteStep DEF IInv
<1>6. runs \in Seq(RunType) /\ Len(runs) \in Nat /\ DOMAIN runs = 1..Len(runs)
    BY LenProperties DEF IInv, TypeOK
<1>7. ~Taken(due.name, due.row) =>
          /\ Len(runs) + 1 \in DOMAIN runs' /\ runs'[Len(runs) + 1] = run
          /\ \A i \in DOMAIN runs : i \in DOMAIN runs' /\ runs'[i] = runs[i]
  <2> SUFFICES ASSUME ~Taken(due.name, due.row)
               PROVE  /\ Len(runs) + 1 \in DOMAIN runs' /\ runs'[Len(runs) + 1] = run
                      /\ \A i \in DOMAIN runs : i \in DOMAIN runs' /\ runs'[i] = runs[i]
      OBVIOUS
  <2>1. runs' = Append(runs, run)
      BY <1>1
  <2>2. /\ runs' \in Seq(RunType) /\ Len(runs') = Len(runs) + 1
        /\ runs'[Len(runs) + 1] = run /\ \A i \in 1..Len(runs) : runs'[i] = runs[i]
      BY <1>4, <1>6, <2>1, AppendProperties
  <2>3. DOMAIN runs' = 1..Len(runs')
      BY <2>2, LenProperties
  <2> QED BY <1>6, <2>2, <2>3
<1>8. RunsStay
    BY <1>1, <1>7 DEF RunsStay
<1>9. SinceTyped' /\ NextIsMeant' /\ NoMinuteSkipped'
  <2>1. SinceTyped' /\ NextIsMeant'
      BY <1>1 DEF SInv, SinceTyped, NextIsMeant
  <2>2. NoMinuteSkipped'
      BY <1>1, <1>8, CoveredStays DEF SInv, NoMinuteSkipped, Covered
  <2> QED BY <2>1, <2>2
<1>10. ASSUME faults' = 0  PROVE WriteCovered'
  <2>1. Whole /\ WriteCovered
      BY <1>1, <1>10 DEF IInv, SInv
  <2>2. ~Taken(due.name, due.row)
    <3>1. ~Enqueued(k, due)
        BY <1>1 DEF Enqueued
    <3>2. \A i \in DOMAIN runs : runs[i].name = due.name => runs[i].fire < due.row.next
        BY <2>1, <3>1 DEF Whole, DueAhead
    <3>3. \A i \in DOMAIN runs : runs[i].fire \in Nat
        BY RunsTyped DEF IInv
    <3> QED BY <1>3, <3>2, <3>3 DEF Taken
  <2>3. ASSUME NEW l \in Ticks, sweep'[l].pc = "write"
        PROVE  \E i \in DOMAIN runs' : /\ runs'[i].name = sweep'[l].cur.name
                                       /\ runs'[i].fire = sweep'[l].cur.row.next
                                       /\ runs'[i].sweptAt = sweep'[l].at
    <3>1. CASE l = k
        BY <1>4, <1>5, <1>7, <2>2, <3>1
    <3>2. CASE l # k
      <4>1. sweep'[l] = sweep[l]
          BY <1>5, <3>2 DEF OnlySweep
      <4>2. PICK i \in DOMAIN runs : /\ runs[i].name = sweep[l].cur.name
                                     /\ runs[i].fire = sweep[l].cur.row.next
                                     /\ runs[i].sweptAt = sweep[l].at
          BY <2>1, <2>3, <4>1 DEF WriteCovered
      <4> QED BY <1>8, <4>1, <4>2 DEF RunsStay
    <3> QED BY <3>1, <3>2
  <2> QED BY <2>3 DEF WriteCovered
<1> QED BY <1>9, <1>10 DEF SInv

\* A row is advanced.  If it is the one that was selected, the run that was enqueued
\* stands for the minutes up to the time of the tick, and no later one is skipped.
LEMMA AdvanceSInv ==
    ASSUME IInv, SInv, NEW k \in Ticks, AdvanceDue(k)
    PROVE  SInv'
<1> DEFINE due == sweep[k].cur
           n == due.name
           at == sweep[k].at
           next == NextOf[due.row.cron][at]
<1>1. /\ sweep[k].pc = "write" /\ next # Never
      /\ schedules' = IF schedules[n] = None THEN schedules ELSE [schedules EXCEPT ![n].next = next]
      /\ since' = IF schedules[n] = due.row THEN since ELSE [since EXCEPT ![n].over = TRUE]
      /\ sweep' = [sweep EXCEPT ![k].pc = "loop", ![k].due = @ \ {due}, ![k].cur = None]
      /\ UNCHANGED <<runs, faults>>
    BY DEF AdvanceDue
<1>2. /\ due \in DueType /\ n \in Names /\ due.row \in RowType /\ due.row.cron \in Parses
      /\ due.row.next \in Nat /\ at \in 0 .. MaxTime
  <2>1. sweep[k] \in SweepType /\ due \in sweep[k].due
      BY <1>1 DEF IInv, TypeOK, SweepType, SweepSound
  <2>2. due \in DueType /\ at \in 0 .. MaxTime
      BY <2>1 DEF SweepType
  <2> QED BY <2>2 DEF DueType, RowType
<1>3. next \in Nat /\ next > at
    BY <1>1, <1>2, NextOfIsLater
<1>4. Means(due.row.cron, next) /\ \A t \in (at + 1) .. (next - 1) : ~Means(due.row.cron, t)
    BY <1>1, <1>2, NextOfIsMeant
<1>5. OnlySweep(k) /\ sweep'[k].pc = "loop"
    BY <1>1, DoneStep DEF IInv
<1>6. schedules \in [Names -> RowType \cup {None}] /\ SinceTyped
    BY DEF IInv, TypeOK, SInv
<1> HIDE DEF next, at
<1>7. /\ \A m \in Names : m # n => schedules'[m] = schedules[m] /\ since'[m] = since[m]
      /\ schedules'[n] # None /\ ~since'[n].over =>
            /\ schedules[n] = due.row /\ since'[n] = since[n]
            /\ schedules'[n].cron = due.row.cron /\ schedules'[n].next = next
      /\ SinceTyped'
  <2> DEFINE s == [since[n] EXCEPT !.over = TRUE]
             row == [due.row EXCEPT !.next = next]
  <2>1. s \in [put: 0 .. MaxTime, over: BOOLEAN] /\ s.over
    <3>1. since[n] \in [put: 0 .. MaxTime, over: BOOLEAN]
        BY <1>2, <1>6 DEF SinceTyped
    <3> QED BY <3>1
  <2>2. row.cron = due.row.cron /\ row.next = next
      BY <1>2 DEF RowType
  <2>3. CASE schedules[n] = due.row
    <3>1. due.row # None
        BY <1>2
    <3>2. since' = since
        BY <1>1, <2>3
    <3>3. schedules' = [schedules EXCEPT ![n] = row]
        BY <1>1, <2>3, <3>1
    <3> HIDE DEF s, row, due, n
    <3> QED BY <1>2, <1>6, <2>2, <2>3, <3>2, <3>3 DEF SinceTyped
  <2>4. CASE schedules[n] # due.row
    <3>1. since' = [since EXCEPT ![n] = s]
        BY <1>1, <2>4
    <3>2. \A m \in Names : m # n => schedules'[m] = schedules[m]
        BY <1>1, <1>6
    <3> HIDE DEF s, row, due, n
    <3> QED BY <1>2, <1>6, <2>1, <3>1, <3>2 DEF SinceTyped
  <2> QED BY <2>3, <2>4
<1>8. ~since'[n].over /\ schedules'[n] # None => ~since[n].over /\ schedules[n] # None
  <2>1. due.row # None
      BY <1>2
  <2> QED BY <1>7, <2>1
<1>9. NextIsMeant'
  <2>1. \A m \in Names : m # n /\ schedules'[m] # None /\ ~since'[m].over
                            => Means(schedules'[m].cron, schedules'[m].next)
      BY <1>7 DEF SInv, NextIsMeant
  <2>2. schedules'[n] # None /\ ~since'[n].over => Means(schedules'[n].cron, schedules'[n].next)
      BY <1>4, <1>7
  <2> HIDE DEF n
  <2> QED BY <2>1, <2>2 DEF NextIsMeant
<1>10. NoMinuteSkipped'
  <2>1. ASSUME NEW m \in Names, faults' = 0, schedules'[m] # None, ~since'[m].over,
               NEW t \in (since'[m].put + 1) .. (schedules'[m].next - 1), Means(schedules'[m].cron, t)
        PROVE  Covered(m, t)
    <3>1. CASE m # n
      <4>1. schedules'[m] = schedules[m] /\ since'[m] = since[m] /\ faults = 0
          BY <1>1, <1>7, <2>1, <3>1
      <4> QED BY <2>1, <4>1 DEF SInv, NoMinuteSkipped, Covered
    <3>2. CASE m = n
      <4>1. /\ faults = 0 /\ schedules[n] = due.row /\ since'[n] = since[n]
            /\ schedules'[n].cron = due.row.cron /\ schedules'[n].next = next
            /\ ~since[n].over /\ schedules[n] # None
          BY <1>1, <1>7, <1>8, <2>1, <3>2
      <4>2. since[n].put \in Nat
          BY <1>2, <1>6 DEF SinceTyped
      <4>3. t \in Int /\ since[n].put + 1 <= t /\ t <= next - 1 /\ Means(due.row.cron, t)
          BY <1>3, <2>1, <3>2, <4>1, <4>2
      <4>4. CASE t < due.row.next
        <5>1. t \in (since[n].put + 1) .. (schedules[n].next - 1)
            BY <1>2, <4>1, <4>2, <4>3, <4>4
        <5>2. Means(schedules[n].cron, t)
            BY <4>1, <4>3
        <5> HIDE DEF n
        <5> QED BY <1>2, <3>2, <4>1, <5>1, <5>2 DEF SInv, NoMinuteSkipped, Covered
      <4>5. CASE due.row.next <= t /\ t <= at
        <5>1. PICK i \in DOMAIN runs : runs[i].name = n /\ runs[i].fire = due.row.next
                                       /\ runs[i].sweptAt = at
            BY <1>1, <4>1 DEF SInv, WriteCovered, at
        <5> QED BY <3>2, <4>5, <5>1 DEF Covered
      <4>6. CASE at < t
        <5>1. t \in (at + 1) .. (next - 1)
            BY <1>2, <1>3, <4>3, <4>6
        <5> QED BY <1>4, <4>3, <5>1
      <4> QED BY <1>2, <4>3, <4>4, <4>5, <4>6
    <3> QED BY <3>1, <3>2
  <2>2. runs' = runs
      BY <1>1
  <2> HIDE DEF n, due
  <2> QED BY ONLY <2>1, <2>2 DEF NoMinuteSkipped, Covered
<1>11. ASSUME faults' = 0  PROVE WriteCovered'
  <2>1. WriteCovered
      BY <1>1, <1>11 DEF SInv
  <2>2. \A l \in Ticks : sweep'[l].pc = "write" => sweep'[l] = sweep[l]
      BY <1>5 DEF OnlySweep
  <2>3. runs' = runs
      BY <1>1
  <2> QED BY ONLY <2>1, <2>2, <2>3 DEF WriteCovered
<1> QED BY <1>7, <1>9, <1>10, <1>11 DEF SInv

\* Every step keeps what is said of the schedules.
LEMMA NextSInv == IInv /\ SInv /\ [Next]_vars => SInv'
<1> SUFFICES ASSUME IInv, SInv, [Next]_vars
             PROVE  SInv'
    OBVIOUS
<1>1. ASSUME NEW n \in Names, NEW cron \in Crons, NEW queue \in Queues, NEW enabled \in BOOLEAN,
             Put(n, cron, queue, enabled)
      PROVE  SInv'
    BY <1>1, PutSInv
<1>2. ASSUME NEW n \in Names, Delete(n)  PROVE SInv'
    BY <1>2, DeleteSInv
<1>3. ASSUME NEW i \in DOMAIN runs, RunEnds(i)  PROVE SInv'
  <2>1. RunsStay
      BY <1>3, EndStep DEF RunEnds, RunsStay, IInv
  <2> QED BY <1>3, <2>1, QuietSInv DEF RunEnds
<1>4. ASSUME UNCHANGED runs  PROVE RunsStay
    BY <1>4 DEF RunsStay
<1>5. ASSUME NEW k \in Ticks, SweepStep(k)  PROVE SInv'
  <2>1. ASSUME NEW due \in sweep[k].due, EnqueueDue(k, due)  PROVE SInv'
      BY <2>1, EnqueueSInv
  <2>2. ASSUME AdvanceDue(k)  PROVE SInv'
      BY <2>2, AdvanceSInv
  <2>3. ASSUME UNCHANGED <<schedules, since, runs, faults>>, OnlySweep(k), sweep'[k].pc # "write"
        PROVE  SInv'
    <3>1. \A l \in Ticks : sweep'[l].pc = "write" => sweep'[l] = sweep[l]
        BY <2>3 DEF OnlySweep
    <3> QED BY <1>4, <2>3, <3>1, QuietSInv
  <2>4. ASSUME TickIn(k)  PROVE SInv'
    <3>1. OnlySweep(k) /\ sweep'[k].pc = "in"
        BY <2>4, BeginStep DEF IInv
    <3> QED BY <2>3, <2>4, <3>1 DEF TickIn
  <2>5. ASSUME Select(k)  PROVE SInv'
    <3> DEFINE due == {[name |-> n, row |-> schedules[n]] : n \in Due(sweep[k].at)}
    <3>1. due \in SUBSET DueType
        BY DEF IInv, TypeOK, Due, DueType
    <3>2. sweep' = [sweep EXCEPT ![k].pc = "loop", ![k].due = due]
        BY <2>5 DEF Select
    <3> HIDE DEF due
    <3>3. OnlySweep(k) /\ sweep'[k].pc = "loop"
        BY <3>1, <3>2, GoStep DEF IInv
    <3> QED BY <2>3, <2>5, <3>3 DEF Select
  <2>6. ASSUME TickEnd(k)  PROVE SInv'
    <3>1. OnlySweep(k) /\ sweep'[k] = Idle
        BY <2>6, IdleType, SweepSet DEF TickEnd, IInv
    <3> QED BY <2>3, <2>6, <3>1 DEF TickEnd, Idle
  <2> QED BY <1>5, <2>1, <2>2, <2>4, <2>5, <2>6 DEF SweepStep
<1>6. ASSUME NEW k \in Ticks, Interrupt(k) \/ LoseLock(k)  PROVE SInv'
  <2>1. faults \in Nat /\ faults' = faults + 1
      BY <1>6 DEF Interrupt, LoseLock, IInv, TypeOK
  <2>2. \A l \in Ticks : sweep'[l].pc = "write" => sweep'[l] = sweep[l]
      BY <1>6 DEF Interrupt, LoseLock, Idle, IInv, TypeOK
  <2>3. UNCHANGED <<schedules, since, runs>>
      BY <1>6 DEF Interrupt, LoseLock
  <2> QED BY <1>4, <2>1, <2>2, <2>3, QuietSInv
<1>7. ASSUME Advance \/ UNCHANGED vars  PROVE SInv'
  <2>1. UNCHANGED <<schedules, since, runs, faults, sweep>>
      BY <1>7 DEF Advance, vars
  <2> QED BY <1>4, <2>1, QuietSInv
<1> QED BY <1>1, <1>2, <1>3, <1>5, <1>6, <1>7 DEF Next

\* The first state.
LEMMA InitSInv == Init => SInv
<1> SUFFICES ASSUME Init PROVE SInv
    OBVIOUS
<1> DEFINE s == [put |-> 0, over |-> FALSE]
<1>1. s \in [put: 0 .. MaxTime, over: BOOLEAN]
    OBVIOUS
<1>2. since = [n \in Names |-> s] /\ \A n \in Names : schedules[n] = None
    BY DEF Init
<1> HIDE DEF s
<1>3. SinceTyped /\ NextIsMeant /\ NoMinuteSkipped
    BY <1>1, <1>2 DEF SinceTyped, NextIsMeant, NoMinuteSkipped
<1>4. WriteCovered
    BY DEF Init, Idle, WriteCovered
<1> QED BY <1>3, <1>4 DEF SInv

\* The inductive invariant of the minutes: what a tick is about to advance it has
\* enqueued, and each row stands where its expression means.
THEOREM MinutesInvariant == Spec => []SInv
    BY InitSInv, NextSInv, SchedulesInvariant, PTL DEF Spec

\* A schedule's time is a minute that its expression means, unless a sweep wrote
\* over it (app.ts, reconciler.ts and cron.ts).
THEOREM NextTimeIsMeant == Spec => []NextIsMeant
<1>1. SInv => NextIsMeant
    BY DEF SInv
<1> QED BY <1>1, MinutesInvariant, PTL

\* Without faults no minute of a schedule is skipped: it was enqueued, or an
\* earlier one was, late enough to stand for it.
THEOREM NoMinuteIsSkipped == Spec => []NoMinuteSkipped
<1>1. SInv => NoMinuteSkipped
    BY DEF SInv
<1> QED BY <1>1, MinutesInvariant, PTL
=============================================================================
