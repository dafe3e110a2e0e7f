--------------------------------- MODULE Cron ---------------------------------
(***************************************************************************)
(* Five-field cron expressions (apps/server/src/cron.ts).  The characters  *)
(* of an expression are abstracted away: Terms gives, for each field, the  *)
(* terms between its commas.  The calendar of UTC is a constant.           *)
(***************************************************************************)
EXTENDS Integers, FiniteSetsExt

CONSTANTS
    Crons,      \* expressions
    Terms,      \* an expression -> its fields -> their terms
    Calendar,   \* a minute -> its fields on the calendar
    Fields,     \* a field -> the least and the greatest value it may have
    Horizon,    \* BOUND: the minutes nextFire looks ahead, 5 years in the code
    Never       \* no next fire: nextFire throws

FieldNames == {"minute", "hour", "dom", "month", "dow"}

\* kind: "*", "7" or "2-5"; step 0: no "/".
TermType == [kind: {"star", "value", "range"}, lo: Int, hi: Int, step: Nat]

ASSUME CronConstants ==
    /\ \A cron \in Crons, f \in FieldNames : Terms[cron][f] \subseteq TermType
    /\ \A f \in FieldNames : Fields[f].min \in Nat /\ Fields[f].max \in Nat
    /\ Horizon \in Nat \ {0} /\ Never \notin Nat

\* The calendar keeps to the bounds of the fields, where Sunday may be 7.
ASSUME CalendarInBounds ==
    /\ 7 \in Fields["dow"].min .. Fields["dow"].max
    /\ \A t \in DOMAIN Calendar, f \in FieldNames : Calendar[t][f] \in Fields[f].min .. Fields[f].max

\* Fault: a value with a step is that value alone.
HighIgnoringStep(f, term) ==
    CASE term.kind = "star"  -> Fields[f].max
      [] term.kind = "range" -> term.hi
      [] OTHER               -> term.lo

Low(f, term)  == IF term.kind = "star" THEN Fields[f].min ELSE term.lo
High(f, term) ==
    CASE term.kind = "star"  -> Fields[f].max
      [] term.kind = "range" -> term.hi
      [] OTHER               -> IF term.step = 0 THEN term.lo ELSE Fields[f].max

Step(term) == IF term.step = 0 THEN 1 ELSE term.step

TermValid(f, term) ==
    /\ Low(f, term) >= Fields[f].min
    /\ High(f, term) <= Fields[f].max
    /\ Low(f, term) <= High(f, term)

\* Fault: from lo to hi without the step.
ParseFieldUnstepped(f, terms) == UNION {Low(f, term) .. High(f, term) : term \in terms}

\* The values of a field.
ParseField(f, terms) ==
    UNION {{v \in Low(f, term) .. High(f, term) : (v - Low(f, term)) % Step(term) = 0} : term \in terms}

ParsesCron(cron) == \A f \in FieldNames : \A term \in Terms[cron][f] : TermValid(f, term)

Dow(cron) ==
    LET days == ParseField("dow", Terms[cron]["dow"]) IN IF 7 \in days THEN days \cup {0} ELSE days

\* Only the field "*" itself is unrestricted.
Restricted(cron, f) == Terms[cron][f] # {[kind |-> "star", lo |-> 0, hi |-> 0, step |-> 0]}

Matches(cron, t) ==
    LET domOk == Calendar[t].dom \in ParseField("dom", Terms[cron]["dom"])
        dowOk == Calendar[t].dow \in Dow(cron)
    IN  /\ \A f \in {"minute", "hour", "month"} : Calendar[t][f] \in ParseField(f, Terms[cron][f])
        /\ CASE Restricted(cron, "dom") /\ Restricted(cron, "dow") -> domOk \/ dowOk
             [] Restricted(cron, "dom") /\ ~Restricted(cron, "dow") -> domOk
             [] ~Restricted(cron, "dom") /\ Restricted(cron, "dow") -> dowOk
             [] OTHER -> TRUE

MatchesAfter(cron, from) == {t \in (from + 1) .. (from + Horizon) : Matches(cron, t)}

\* The next fire time strictly after from.
NextFire(cron, from) ==
    LET found == MatchesAfter(cron, from) IN IF found = {} THEN Never ELSE Min(found)
=============================================================================
