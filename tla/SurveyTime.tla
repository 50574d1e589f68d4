----------------------------- MODULE SurveyTime -----------------------------
(***************************************************************************)
(* The calendar of surveys: when the period of a ScheduleExecution starts  *)
(* and ends and when its question is resent (utils/time.py and the         *)
(* set_*_period functions of database/tracking/schedule_execution.py).     *)
(*                                                                         *)
(* A time is a number of whole hours of the user's local clock, counted    *)
(* from a Sunday at midnight.  Minutes, and the shift from UTC, are left   *)
(* out: every schedule parameter is a whole hour.                          *)
(***************************************************************************)
EXTENDS Integers, FiniteSetsExt

CONSTANTS DayHours,   \* hours of a day, 24 (smaller in small instances)
          None        \* Python's None

ASSUME TimeAssumption == DayHours \in Nat \ {0} /\ None \notin Int

DaysOfWeek == 0..6    \* Sunday is 0

ZeroDay(t) == t - (t % DayHours)
HourOf(t) == t % DayHours
WeekdayOf(t) == (t \div DayHours) % 7
Days(n) == n * DayHours

(* Slip: the day itself counts as the next one.                            *)
DaysInQuestionPeriodOrToday(start, days) ==
    LET later == {d \in days : d >= WeekdayOf(start)}
    IN  IF later # {} THEN Min(later) - WeekdayOf(start)
                      ELSE 7 + Min(days) - WeekdayOf(start)

(* Days from start to the next day of the week in days, a week later when  *)
(* none is left in this week.                                              *)
DaysInQuestionPeriod(start, days) ==
    LET later == {d \in days : d > WeekdayOf(start)}
    IN  IF later # {} THEN Min(later) - WeekdayOf(start)
                      ELSE 7 + Min(days) - WeekdayOf(start)
-----------------------------------------------------------------------------
(***************************************************************************)
(* A schedule, and the execution of one schedule for one user.  A sent     *)
(* question the execution waits on is its state; state None is "at the     *)
(* root".  end None means that the period never ends.                      *)
(***************************************************************************)
Subtypes == {"one_time", "recurring", "daily_limit", "on_user_creation"}

Calendar ==
    [subtype : Subtypes, sendHour : 0..(DayHours - 1), date : Nat,
     daysOfWeek : SUBSET DaysOfWeek, questionPeriod : Nat \ {0},
     resendType : {"none", "time", "hours"}, resendHour : Nat, resendQuantity : Nat]

Execution(Questions) ==
    [start : Int, end : Int \cup {None}, resends : SUBSET Int,
     active : BOOLEAN, state : Questions \cup {None}]

(* The list resend_times as the set of its elements: check_resend only     *)
(* looks at its first, least element and drops those that have passed.     *)
ResendTimes(curr, start, s) ==
    LET daysLate == IF HourOf(start) > s.resendHour THEN 1 ELSE 0
        resend(x) ==
            CASE s.subtype = "daily_limit" -> start + Days(s.resendQuantity * (x + 1))
              [] s.subtype # "daily_limit" /\ s.resendType = "time" ->
                     ZeroDay(start) + s.resendHour + Days(x + daysLate)
              [] OTHER -> start + s.resendHour * (x + 1)
        count == CASE s.subtype = "daily_limit" -> 5
                   [] s.subtype # "daily_limit" /\ s.resendType = "none" -> 0
                   [] OTHER -> s.resendQuantity
    IN  {t \in {resend(x) : x \in 0..(count - 1)} : t >= curr}

(* The last send hour at or before curr, whatever its day of the week.     *)
LastSendHour(curr, s) ==
    LET today == ZeroDay(curr) + s.sendHour
    IN  IF curr < today THEN today - DayHours ELSE today

RecurringDays(start, s) ==
    IF s.daysOfWeek = {} THEN s.questionPeriod
                         ELSE DaysInQuestionPeriod(start, s.daysOfWeek)

(* An execution put at the root of a period.                               *)
Period(curr, start, end, s, active) ==
    [start |-> start, end |-> end, resends |-> ResendTimes(curr, start, s),
     active |-> active, state |-> None]

(* The four set_*_period functions.  A one-time schedule that is not due   *)
(* keeps everything but its end and resends.                               *)
NewPeriod(e, s, curr, active) ==
    CASE s.subtype = "one_time" /\ curr >= ZeroDay(s.date) + s.sendHour ->
             Period(curr, ZeroDay(s.date) + s.sendHour, None, s, active)
      [] s.subtype = "one_time" /\ curr < ZeroDay(s.date) + s.sendHour ->
             [e EXCEPT !.end = ZeroDay(s.date) + s.sendHour, !.resends = {}]
      [] s.subtype = "recurring" ->
             LET start == LastSendHour(curr, s)
             IN  Period(curr, start, start + Days(RecurringDays(start, s)), s, active)
      [] s.subtype = "daily_limit" ->
             LET start == ZeroDay(curr) + s.sendHour
             IN  Period(curr, start, start + Days(35000), s, active)
      [] s.subtype = "on_user_creation" -> Period(curr, curr, None, s, FALSE)

(* Slip: a running period is no reason to return.                          *)
ResetsRunning(e, curr, update) == IF update THEN ~e.active ELSE e.end # None

(* Slip: only the very hour of the end starts the next period.             *)
ResetsOnTheHour(e, curr, update) ==
    IF update THEN ~e.active ELSE e.end # None /\ curr = e.end

(* Whether set_period goes past its early returns: an update leaves an     *)
(* active execution alone, a check leaves a running or endless period.     *)
Resets(e, curr, update) ==
    IF update THEN ~e.active ELSE e.end # None /\ curr >= e.end

SetPeriod(e, s, curr, update) ==
    IF Resets(e, curr, update) THEN NewPeriod(e, s, curr, ~update) ELSE e

(* What set_period returns: whether it has set the execution to active.    *)
StartsPeriod(e, s, curr) ==
    /\ Resets(e, curr, FALSE)
    /\ \/ s.subtype \in {"recurring", "daily_limit"}
       \/ s.subtype = "one_time" /\ curr >= ZeroDay(s.date) + s.sendHour

(* make_execution: current_period_end starts as datetime.min, so the first *)
(* period is set at once, and the execution is then made inactive.         *)
MakeExecution(s, curr) ==
    LET blank == [start |-> 0, end |-> 0, resends |-> {}, active |-> FALSE, state |-> None]
    IN  [NewPeriod(blank, s, curr, TRUE) EXCEPT !.active = FALSE]

Expired(e, curr) == e.end # None /\ curr > e.end

(* check_resend: its answer, and the resend times it keeps.                *)
ResendDue(e, curr) ==
    /\ e.active
    /\ ~Expired(e, curr)
    /\ \E t \in e.resends : t <= curr

DropResends(e, curr) == [e EXCEPT !.resends = {t \in @ : t > curr}]
=============================================================================
