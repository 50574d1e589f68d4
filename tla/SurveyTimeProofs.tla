--------------------------- MODULE SurveyTimeProofs ---------------------------
(***************************************************************************)
(* What the calendar's operators return, for a day of any number of hours: *)
(* lemmas for the proofs about PeriodClock and SurveyEngine.               *)
(***************************************************************************)
EXTENDS SurveyTime, TLAPS

(* A time is a whole number of days and an hour.                           *)
LEMMA DayAndHour ==
  ASSUME NEW t \in Int
  PROVE  /\ t \div DayHours \in Int
         /\ HourOf(t) \in 0 .. DayHours - 1
         /\ t = DayHours * (t \div DayHours) + HourOf(t)
         /\ ZeroDay(t) = DayHours * (t \div DayHours)
         /\ ZeroDay(t) \in Int
  BY TimeAssumption DEF HourOf, ZeroDay

(* An hour of the day in a given day.                                      *)
LEMMA HourInDay ==
  ASSUME NEW day \in Int, NEW hour \in 0 .. DayHours - 1
  PROVE  /\ DayHours * day + hour \in Int
         /\ HourOf(DayHours * day + hour) = hour
         /\ (DayHours * day + hour) \div DayHours = day
  BY TimeAssumption DEF HourOf

(* Whole days do not change the hour.                                      *)
LEMMA SameHour ==
  ASSUME NEW t \in Int, NEW n \in Int
  PROVE  /\ t + Days(n) \in Int
         /\ HourOf(t + Days(n)) = HourOf(t)
         /\ (t + Days(n)) \div DayHours = t \div DayHours + n
  <1> DEFINE day == t \div DayHours
  <1>1. day \in Int /\ HourOf(t) \in 0 .. DayHours - 1 /\ t = DayHours * day + HourOf(t)
    BY DayAndHour
  <1> HIDE DEF day
  <1>2. t + Days(n) = DayHours * (day + n) + HourOf(t)
    BY <1>1, TimeAssumption DEF Days
  <1>3. day + n \in Int
    BY <1>1
  <1>4. QED
    BY <1>1, <1>2, <1>3, HourInDay DEF day

(* Two times at the same hour are a whole number of days apart.            *)
LEMMA DaysApart ==
  ASSUME NEW a \in Int, NEW b \in Int, HourOf(a) = HourOf(b)
  PROVE  /\ a < b + DayHours => a <= b
         /\ a < b => a + DayHours <= b
         /\ a = b + Days(a \div DayHours - b \div DayHours)
  <1> DEFINE p == a \div DayHours
             q == b \div DayHours
  <1>1. p \in Int /\ HourOf(a) \in 0 .. DayHours - 1 /\ a = DayHours * p + HourOf(a)
    BY DayAndHour
  <1>2. q \in Int /\ b = DayHours * q + HourOf(b)
    BY DayAndHour
  <1>3. /\ p \in Int /\ q \in Int /\ HourOf(a) \in Int
        /\ a = DayHours * p + HourOf(a)
        /\ b = DayHours * q + HourOf(a)
    BY <1>1, <1>2, TimeAssumption
  <1> HIDE DEF p, q
  <1>4. a - b = DayHours * (p - q)
    BY <1>3, TimeAssumption
  <1>5. p - q > 0 => DayHours * (p - q) >= DayHours
    BY <1>3, TimeAssumption
  <1>6. p - q < 0 => DayHours * (p - q) <= -DayHours
    BY <1>3, TimeAssumption
  <1>7. p - q = 0 => DayHours * (p - q) = 0
    BY <1>3, TimeAssumption
  <1>8. DayHours * (p - q) \in Int
    BY <1>3, TimeAssumption
  <1>9. a = b + Days(p - q)
    BY <1>3, <1>4, TimeAssumption DEF Days
  <1>40. QED
    BY <1>3, <1>4, <1>5, <1>6, <1>7, <1>8, <1>9, TimeAssumption DEF p, q

(* The last send hour is a send hour, and less than a day ago.             *)
LEMMA LastSendHourIsLast ==
  ASSUME NEW t \in Int, NEW s \in Calendar
  PROVE  /\ LastSendHour(t, s) \in Int
         /\ HourOf(LastSendHour(t, s)) = s.sendHour
         /\ LastSendHour(t, s) <= t
         /\ t < LastSendHour(t, s) + DayHours
  <1> DEFINE day == t \div DayHours
             today == DayHours * day + s.sendHour
  <1>1. s.sendHour \in 0 .. DayHours - 1 /\ day \in Int
    BY DayAndHour DEF Calendar
  <1>2. /\ today \in Int /\ HourOf(today) = s.sendHour
        /\ today = ZeroDay(t) + s.sendHour
    BY <1>1, HourInDay, DayAndHour
  <1>3. /\ ZeroDay(t) \in Int /\ HourOf(t) \in 0 .. DayHours - 1
        /\ t = ZeroDay(t) + HourOf(t)
    BY DayAndHour
  <1>4. /\ today - DayHours = today + Days(-1)
    BY <1>2, TimeAssumption DEF Days
  <1>5. HourOf(today - DayHours) = s.sendHour
    BY <1>2, <1>4, SameHour
  <1> HIDE DEF today
  <1>6. CASE t < today
    BY <1>6, <1>1, <1>2, <1>3, <1>5, TimeAssumption DEF LastSendHour
  <1>7. CASE ~(t < today)
    BY <1>7, <1>1, <1>2, <1>3, TimeAssumption DEF LastSendHour
  <1>8. QED
    BY <1>6, <1>7

(* Of the send hours up to now, none is later.                             *)
LEMMA NoLaterSendHour ==
  ASSUME NEW t \in Int, NEW s \in Calendar,
         NEW x \in Int, x <= t, HourOf(x) = s.sendHour
  PROVE  x <= LastSendHour(t, s)
  <1>1. x < LastSendHour(t, s) + DayHours
    BY LastSendHourIsLast, TimeAssumption
  <1>2. QED
    BY <1>1, LastSendHourIsLast, DaysApart

(* Every set of days of the week has a least one.                          *)
LEMMA FirstDay ==
  ASSUME NEW days \in SUBSET DaysOfWeek, days # {}
  PROVE  Min(days) \in days /\ \A d \in days : Min(days) <= d
  <1>1. \E x \in days : \A y \in days : x =< y
    <2>1. \A d \in days : d \in 0 .. 6
      BY DEF DaysOfWeek
    <2>2. CASE 0 \in days
      BY <2>1, <2>2
    <2>3. CASE 0 \notin days /\ 1 \in days
      BY <2>1, <2>3
    <2>4. CASE 0 \notin days /\ 1 \notin days /\ 2 \in days
      BY <2>1, <2>4
    <2>5. CASE 0 \notin days /\ 1 \notin days /\ 2 \notin days /\ 3 \in days
      BY <2>1, <2>5
    <2>6. CASE 0 \notin days /\ 1 \notin days /\ 2 \notin days /\ 3 \notin days /\ 4 \in days
      BY <2>1, <2>6
    <2>7. CASE days \subseteq {5, 6}
      <3>1. CASE 5 \in days
        BY <3>1, <2>7
      <3>2. CASE 5 \notin days
        <4>1. days = {6}
          BY <3>2, <2>7
        <4>2. QED
          BY <4>1
      <3>3. QED
        BY <3>1, <3>2
    <2>8. QED
      BY <2>1, <2>2, <2>3, <2>4, <2>5, <2>6, <2>7
  <1>2. QED
    BY <1>1 DEF Min

(* The next day of the survey is within a week; on it, and on none of the  *)
(* days before it, the survey has a day.                                   *)
LEMMA NextSurveyDay ==
  ASSUME NEW t \in Int, NEW days \in SUBSET DaysOfWeek, days # {}
  PROVE  LET n == DaysInQuestionPeriod(t, days)
         IN  /\ n \in 1 .. 7
             /\ WeekdayOf(t + Days(n)) \in days
             /\ \A m \in 1 .. n - 1 : WeekdayOf(t + Days(m)) \notin days
  <1> DEFINE n == DaysInQuestionPeriod(t, days)
             day == t \div DayHours
             today == day % 7
             later == {d \in days : d > WeekdayOf(t)}
  <1>1. /\ day \in Int /\ WeekdayOf(t) = today
        /\ \A m \in Int : WeekdayOf(t + Days(m)) = (day + m) % 7
    BY DayAndHour, SameHour DEF WeekdayOf
  <1>2. \A d \in days : d \in 0 .. 6
    BY DEF DaysOfWeek
  <1>3. Min(days) \in days /\ \A d \in days : Min(days) <= d
    BY FirstDay
  <1>4. later # {} => Min(later) \in later /\ \A d \in later : Min(later) <= d
    BY FirstDay
  <1>5. n = IF later # {} THEN Min(later) - today ELSE 7 + Min(days) - today
    BY <1>1 DEF DaysInQuestionPeriod
  <1> HIDE DEF n, day
  <1>6. /\ today \in 0 .. 6
        /\ \A m \in 0 .. 7 : (day + m) % 7 = IF today + m < 7 THEN today + m ELSE today + m - 7
    BY <1>1
  <1>7. \A d : d \in later <=> d \in days /\ d > today
    BY <1>1
  <1> HIDE DEF today, later
  <1>8. CASE later # {}
    <2>1. Min(later) \in 0 .. 6 /\ Min(later) > today /\ Min(later) \in days
      BY <1>8, <1>2, <1>4, <1>7
    <2>2. n \in 1 .. 6 /\ today + n = Min(later)
      BY <2>1, <1>5, <1>6, <1>8
    <2>3. ASSUME NEW m \in 1 .. n - 1 PROVE (day + m) % 7 \notin days
      <3>1. (day + m) % 7 = today + m /\ today + m < Min(later) /\ today + m > today
        BY <2>1, <2>2, <1>6
      <3>2. QED
        BY <3>1, <2>1, <1>2, <1>4, <1>6, <1>7, <1>8
    <2>4. (day + n) % 7 = Min(later)
      BY <2>1, <2>2, <1>6
    <2>5. WeekdayOf(t + Days(n)) \in days
      BY <2>1, <2>2, <2>4, <1>1, <1>3
    <2>6. \A m \in 1 .. n - 1 : WeekdayOf(t + Days(m)) \notin days
      BY <2>2, <2>3, <1>1
    <2>7. QED
      BY <2>2, <2>5, <2>6 DEF n
  <1>9. CASE later = {}
    <2>1. Min(days) \in 0 .. 6 /\ Min(days) <= today
      BY <1>9, <1>2, <1>3, <1>6, <1>7
    <2>2. n \in 1 .. 7 /\ today + n = Min(days) + 7
      BY <2>1, <1>5, <1>6, <1>9
    <2>3. ASSUME NEW m \in 1 .. n - 1 PROVE (day + m) % 7 \notin days
      <3>1. CASE today + m < 7
        <4>1. (day + m) % 7 = today + m /\ today + m > today
          BY <3>1, <2>2, <1>6
        <4>2. QED
          BY <4>1, <1>7, <1>9
      <3>2. CASE ~(today + m < 7)
        <4>1. (day + m) % 7 = today + m - 7 /\ today + m - 7 < Min(days)
          BY <3>2, <2>1, <2>2, <1>6
        <4>2. QED
          BY <4>1, <2>1, <1>2, <1>3, <1>6
      <3>3. QED
        BY <3>1, <3>2
    <2>4. (day + n) % 7 = Min(days)
      BY <2>1, <2>2, <1>6
    <2>5. WeekdayOf(t + Days(n)) \in days
      BY <2>1, <2>2, <2>4, <1>1, <1>3
    <2>6. \A m \in 1 .. n - 1 : WeekdayOf(t + Days(m)) \notin days
      BY <2>2, <2>3, <1>1
    <2>7. QED
      BY <2>2, <2>5, <2>6 DEF n
  <1>10. QED
    BY <1>8, <1>9
-----------------------------------------------------------------------------
(* Resends are times to come.                                              *)
LEMMA ResendsLater ==
  ASSUME NEW curr \in Nat, NEW start \in Int, NEW s \in Calendar
  PROVE  ResendTimes(curr, start, s) \subseteq Nat
  <1> DEFINE late == IF HourOf(start) > s.resendHour THEN 1 ELSE 0
             resend(x) ==
               CASE s.subtype = "daily_limit" -> start + Days(s.resendQuantity * (x + 1))
                 [] s.subtype # "daily_limit" /\ s.resendType = "time" ->
                        ZeroDay(start) + s.resendHour + Days(x + late)
                 [] OTHER -> start + s.resendHour * (x + 1)
             count ==
               CASE s.subtype = "daily_limit" -> 5
                 [] s.subtype # "daily_limit" /\ s.resendType = "none" -> 0
                 [] OTHER -> s.resendQuantity
  <1>1. ASSUME NEW t \in ResendTimes(curr, start, s)
        PROVE  /\ t >= curr
               /\ \E x \in 0..(count - 1) : t = resend(x)
    BY <1>1 DEF ResendTimes
  <1>2. count \in Nat /\ late \in Int /\ s.resendHour \in Nat /\ s.resendQuantity \in Nat
        /\ ZeroDay(start) \in Int
    BY DayAndHour DEF Calendar
  <1>3. ASSUME NEW x \in 0..(count - 1) PROVE resend(x) \in Int
    <2>1. x \in Int
      BY <1>2
    <2> HIDE DEF late, count
    <2>2. /\ Days(s.resendQuantity * (x + 1)) \in Int
          /\ Days(x + late) \in Int
          /\ s.resendHour * (x + 1) \in Int
      BY <2>1, <1>2, TimeAssumption DEF Days
    <2>3. QED
      BY <2>2, <1>2
  <1>4. QED
    BY <1>1, <1>3

(* A period of a recurring schedule began at its last send hour and ends   *)
(* at one that is still to come.                                           *)
LEMMA RecurringPeriod ==
  ASSUME NEW t \in Int, NEW s \in Calendar, s.subtype = "recurring", NEW e, NEW active
  PROVE  LET start == LastSendHour(t, s)
             p     == NewPeriod(e, s, t, active)
         IN  /\ p = [start |-> start, end |-> p.end, resends |-> ResendTimes(t, start, s),
                     active |-> active, state |-> None]
             /\ p.end = start + Days(RecurringDays(start, s))
             /\ RecurringDays(start, s) \in Nat \ {0}
             /\ p.end \in Int /\ p.end > t /\ p.end > start
             /\ HourOf(p.end) = s.sendHour
  <1> DEFINE start == LastSendHour(t, s)
             n == RecurringDays(start, s)
  <1>1. start \in Int /\ HourOf(start) = s.sendHour /\ start <= t /\ t < start + DayHours
    BY LastSendHourIsLast
  <1>2. n \in Nat \ {0}
    <2>1. CASE s.daysOfWeek = {}
      BY <2>1 DEF RecurringDays, Calendar
    <2>2. CASE s.daysOfWeek # {}
      <3>1. n = DaysInQuestionPeriod(start, s.daysOfWeek) /\ s.daysOfWeek \in SUBSET DaysOfWeek
        BY <2>2 DEF RecurringDays, Calendar
      <3>2. n \in 1 .. 7
        BY <3>1, <2>2, <1>1, NextSurveyDay
      <3>3. QED
        BY <3>2
    <2>3. QED
      BY <2>1, <2>2
  <1>3. NewPeriod(e, s, t, active) = Period(t, start, start + Days(n), s, active)
    BY DEF NewPeriod
  <1> HIDE DEF n, start
  <1>4. start + Days(n) \in Int /\ HourOf(start + Days(n)) = s.sendHour
    <2>1. n \in Int
      BY <1>2
    <2>2. QED
      BY <2>1, <1>1, SameHour
  <1>5. Days(n) >= DayHours /\ Days(n) \in Int
    BY <1>2, TimeAssumption DEF Days
  <1>6. QED
    BY <1>1, <1>2, <1>3, <1>4, <1>5, TimeAssumption DEF Period, n, start

(* The hour a one-time schedule is due.                                    *)
Due(s) == ZeroDay(s.date) + s.sendHour

(* It is a time to come or past, never before the clock's zero.            *)
LEMMA DueType ==
  ASSUME NEW s \in Calendar
  PROVE  Due(s) \in Nat
  <1>1. s.date \in Nat /\ s.sendHour \in 0 .. DayHours - 1
    BY DEF Calendar
  <1>2. HourOf(s.date) \in 0 .. DayHours - 1 /\ s.date \div DayHours \in Nat
    BY <1>1, TimeAssumption DEF HourOf
  <1>3. ZeroDay(s.date) = DayHours * (s.date \div DayHours)
    BY <1>1, DayAndHour
  <1>4. ZeroDay(s.date) \in Nat
    BY <1>2, <1>3, TimeAssumption
  <1>5. QED
    BY <1>1, <1>4, TimeAssumption DEF Due

(* A one-time schedule that is due gets an endless period.                 *)
LEMMA OneTimeDue ==
  ASSUME NEW t \in Nat, NEW s \in Calendar, s.subtype = "one_time", t >= Due(s),
         NEW e, NEW active
  PROVE  NewPeriod(e, s, t, active) = Period(t, Due(s), None, s, active)
  <1>1. /\ s.subtype = "one_time" /\ t >= ZeroDay(s.date) + s.sendHour
        /\ ~(t < ZeroDay(s.date) + s.sendHour)
    BY DueType DEF Due
  <1>2. QED
    BY <1>1 DEF NewPeriod, Due

(* Before that only the end and the resends of its execution change.       *)
LEMMA OneTimeNotDue ==
  ASSUME NEW t \in Nat, NEW s \in Calendar, s.subtype = "one_time", t < Due(s),
         NEW e, NEW active,
         e = [start |-> e.start, end |-> e.end, resends |-> e.resends,
              active |-> e.active, state |-> e.state]
  PROVE  NewPeriod(e, s, t, active) = [start |-> e.start, end |-> Due(s), resends |-> {},
                                       active |-> e.active, state |-> e.state]
  <1>1. /\ s.subtype = "one_time" /\ t < ZeroDay(s.date) + s.sendHour
        /\ ~(t >= ZeroDay(s.date) + s.sendHour)
    BY DueType DEF Due
  <1>2. NewPeriod(e, s, t, active) = [e EXCEPT !.end = ZeroDay(s.date) + s.sendHour, !.resends = {}]
    BY <1>1 DEF NewPeriod
  <1>3. QED
    BY <1>2 DEF Due

(* The four set_*_period functions make executions.                        *)
LEMMA NewPeriodType ==
  ASSUME NEW t \in Nat, NEW s \in Calendar, NEW Q, NEW e \in Execution(Q), NEW active \in BOOLEAN
  PROVE  /\ NewPeriod(e, s, t, active) \in Execution(Q)
         /\ e.state = None => NewPeriod(e, s, t, active).state = None
  <1>1. ZeroDay(t) + s.sendHour \in Int /\ s.subtype \in Subtypes
    BY DayAndHour, TimeAssumption DEF Calendar
  <1>2. ASSUME NEW start \in Int, NEW end \in Int \cup {None}, NEW a \in BOOLEAN
        PROVE  Period(t, start, end, s, a) \in Execution(Q) /\ Period(t, start, end, s, a).state = None
    <2>1. ResendTimes(t, start, s) \in SUBSET Int
      BY ResendsLater
    <2>2. QED
      BY <2>1 DEF Period, Execution
  <1>3. CASE s.subtype = "one_time" /\ t >= Due(s)
    <2>1. NewPeriod(e, s, t, active) = Period(t, Due(s), None, s, active)
      BY <1>3, OneTimeDue
    <2>2. Due(s) \in Int /\ None \in Int \cup {None}
      BY DueType
    <2>3. /\ Period(t, Due(s), None, s, active) \in Execution(Q)
          /\ Period(t, Due(s), None, s, active).state = None
      BY <2>2, <1>2
    <2>4. QED
      BY <2>1, <2>3
  <1>4. CASE s.subtype = "one_time" /\ t < Due(s)
    <2> DEFINE later == [start |-> e.start, end |-> Due(s), resends |-> {},
                         active |-> e.active, state |-> e.state]
    <2>1. e = [start |-> e.start, end |-> e.end, resends |-> e.resends,
               active |-> e.active, state |-> e.state]
      BY DEF Execution
    <2>2. NewPeriod(e, s, t, active) = later
      BY <2>1, <1>4, OneTimeNotDue
    <2>3. later \in Execution(Q) /\ later.state = e.state
      BY DueType DEF Execution
    <2>4. QED
      BY <2>2, <2>3
  <1>5. CASE s.subtype = "recurring"
    <2> DEFINE start == LastSendHour(t, s)
    <2>1. start \in Int /\ start + Days(RecurringDays(start, s)) \in Int
      BY <1>5, LastSendHourIsLast, RecurringPeriod
    <2>2. NewPeriod(e, s, t, active) = Period(t, start, start + Days(RecurringDays(start, s)), s, active)
      BY <1>5 DEF NewPeriod
    <2>3. QED
      BY <2>1, <2>2, <1>2
  <1>6. CASE s.subtype = "daily_limit"
    <2> DEFINE start == ZeroDay(t) + s.sendHour
    <2>1. start \in Int /\ start + Days(35000) \in Int
      BY <1>1, TimeAssumption DEF Days
    <2>2. NewPeriod(e, s, t, active) = Period(t, start, start + Days(35000), s, active)
      BY <1>6 DEF NewPeriod
    <2>3. QED
      BY <2>1, <2>2, <1>2
  <1>7. CASE s.subtype = "on_user_creation"
    <2>1. NewPeriod(e, s, t, active) = Period(t, t, None, s, FALSE)
      BY <1>7 DEF NewPeriod
    <2>2. t \in Int /\ None \in Int \cup {None} /\ FALSE \in BOOLEAN
      OBVIOUS
    <2>3. QED
      BY <2>1, <2>2, <1>2
  <1>8. QED
    BY <1>1, <1>3, <1>4, <1>5, <1>6, <1>7, DueType DEF Subtypes

(* The blank execution that make_execution hands to set_period.            *)
Blank == [start |-> 0, end |-> 0, resends |-> {}, active |-> FALSE, state |-> None]

(* A new execution is one, and idle.                                       *)
LEMMA MakeExecutionType ==
  ASSUME NEW t \in Nat, NEW s \in Calendar, NEW Q
  PROVE  /\ MakeExecution(s, t) = [NewPeriod(Blank, s, t, TRUE) EXCEPT !.active = FALSE]
         /\ MakeExecution(s, t) \in Execution(Q)
         /\ ~MakeExecution(s, t).active
         /\ MakeExecution(s, t).state = None
  <1> DEFINE made == NewPeriod(Blank, s, t, TRUE)
  <1>1. Blank \in Execution(Q) /\ Blank.state = None
    BY DEF Execution, Blank
  <1>2. made \in Execution(Q) /\ made.state = None
    BY <1>1, NewPeriodType
  <1>3. MakeExecution(s, t) = [made EXCEPT !.active = FALSE]
    BY DEF MakeExecution, Blank
  <1> HIDE DEF made
  <1>4. QED
    BY <1>2, <1>3 DEF Execution, made
===============================================================================
