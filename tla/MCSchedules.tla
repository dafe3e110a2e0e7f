----------------------------- MODULE MCSchedules ------------------------------
(* Small instances of Schedules: an hour of 2 minutes, a day of 2 hours, a  *)
(* week of 2 days (0 and 1) and a month of 2 days.                          *)
EXTENDS Schedules, TLC

CONSTANTS s1, s2, q1, q2, k1, k2, c1, c2, c3, c4

MCCalendar ==
    [t \in 0 .. 20 |-> [minute |-> t % 2, hour |-> (t \div 2) % 2, dom |-> 1 + ((t \div 4) % 2),
                        month |-> 1, dow |-> (t \div 4) % 2]]

Span(a, b) == [min |-> a, max |-> b]
MCFields == [minute |-> Span(0, 1), hour |-> Span(0, 1), dom |-> Span(1, 2),
             month |-> Span(1, 1), dow |-> Span(0, 7)]

Term(kind, lo, hi, step) == [kind |-> kind, lo |-> lo, hi |-> hi, step |-> step]
Star == {Term("star", 0, 0, 0)}
EveryMinute == [f \in FieldNames |-> Star]

\* "* * * * *", "*/2 1-1 * * *", "1 * 2 * 3/4" and "* * 2-1 * *", which is refused.
MCTerms ==
    c1 :> EveryMinute
    @@ c2 :> [EveryMinute EXCEPT !["minute"] = {Term("star", 0, 0, 2)}, !["hour"] = {Term("range", 1, 1, 0)}]
    @@ c3 :> [EveryMinute EXCEPT !["minute"] = {Term("value", 1, 1, 0)}, !["dom"] = {Term("value", 2, 2, 0)},
                                 !["dow"] = {Term("value", 3, 3, 4)}]
    @@ c4 :> [EveryMinute EXCEPT !["dom"] = {Term("range", 2, 1, 0)}]
=============================================================================
