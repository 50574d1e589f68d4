-------------------------- MODULE PeriodClockProofs --------------------------
(***************************************************************************)
(* The properties of the hourly job and one calendar, for a day of any     *)
(* number of hours, every set of calendars, every bound on the clock and   *)
(* every bound on consecutive outages.                                     *)
(***************************************************************************)
EXTENDS PeriodClock, SurveyTimeProofs, FiniteSetTheorems, WellFoundedInduction

Types ==
    /\ now \in 0..MaxNow
    /\ done \in BOOLEAN
    /\ schedule \in Calendars
    /\ missed \in 0..MaxMissed[schedule]
    /\ exec \in Execution({Question})
    /\ exec.end \in Nat \cup {None}
    /\ exec.resends \subseteq Nat
    /\ exec.active <=> exec.state # None
    /\ served \in SUBSET Int
    /\ asks \in Nat
    /\ resent \in Nat

(* The period of a running execution has begun, and in an earlier hour     *)
(* when this hour's job is still to come.                                  *)
RunningBegan ==
    exec.active => exec.start <= now /\ (~done => exec.start < now)

(* Period starts whose question was sent are counted, and never later than *)
(* the period of the execution.                                            *)
ServedCounted == IsFiniteSet(served) /\ asks = Cardinality(served)

RecurringPeriods ==
    schedule.subtype = "recurring" =>
        /\ exec.end # None
        /\ exec.start < exec.end
        /\ exec.start <= now
        /\ HourOf(exec.start) = schedule.sendHour
        /\ HourOf(exec.end) = schedule.sendHour
        /\ \A t \in served : t <= exec.start
        /\ missed = 0 => IF done THEN now < exec.end ELSE now <= exec.end

OtherPeriods ==
    schedule.subtype # "recurring" =>
        \/ schedule.subtype = "one_time" /\ exec.end = None /\ Due(schedule) <= now
        \/ schedule.subtype = "one_time" /\ exec.end = Due(schedule) /\ ~exec.active /\ served = {}
        \/ schedule.subtype = "on_user_creation" /\ exec.end = None /\ ~exec.active

(* The survey moments of a schedule, of which one without survey days has  *)
(* none.                                                                   *)
SurveyMoment(s, t) == HasSurveyDays(s) /\ Moment(s, t)

(* No moment lies inside a period; a period ends at one.                   *)
NoMomentInside ==
    schedule.subtype = "recurring" =>
        /\ \A t \in Int : exec.start < t /\ t < exec.end => ~SurveyMoment(schedule, t)
        /\ schedule.daysOfWeek # {} => WeekdayOf(exec.end) \in schedule.daysOfWeek

(* Every moment since the first week was served, or a later one was.       *)
MomentsServed ==
    schedule.subtype = "recurring" =>
        /\ \A m \in Days(7) .. exec.start :
               SurveyMoment(schedule, m) => \E t \in served : t >= m
        /\ MaxMissed[schedule] = 0 =>
               \A m \in Days(7) .. exec.start : SurveyMoment(schedule, m) => m \in served

ServedAreMoments ==
    schedule.subtype = "recurring" /\ MaxMissed[schedule] = 0 =>
        \A t \in served : t >= Days(7) => SurveyMoment(schedule, t)

(* A schedule of every second day, or rarer, is refreshed every hour and   *)
(* its period never ends while the hourly job misses no hour.              *)
RareNeverBegins ==
    schedule.subtype = "recurring" /\ MaxMissed[schedule] = 0
    /\ schedule.daysOfWeek = {} /\ schedule.questionPeriod > 1 =>
        /\ ~exec.active /\ served = {}
        /\ exec.end > IF done THEN now + 1 ELSE now

(* Two inductive invariants, the second relative to the first.             *)
Periods == Types /\ RunningBegan /\ ServedCounted /\ RecurringPeriods /\ OtherPeriods

Moments == NoMomentInside /\ MomentsServed /\ ServedAreMoments /\ RareNeverBegins
-----------------------------------------------------------------------------
(* Of the four kinds of schedules, the clock meets three.                  *)
LEMMA Subtype ==
  ASSUME NEW s \in Calendars
  PROVE  s \in Calendar /\ s.subtype \in {"one_time", "recurring", "on_user_creation"}
  BY ClockAssumption DEF Calendar, Subtypes

(* A period begun at now has not ended by now.                             *)
LEMMA NewPeriodLasts ==
  ASSUME NEW t \in Nat, NEW s \in Calendars, NEW e \in Execution({Question}),
         NEW active \in BOOLEAN, s.subtype = "one_time" => t >= Due(s)
  PROVE  LET p == NewPeriod(e, s, t, active)
         IN  /\ p \in Execution({Question})
             /\ p.end \in Nat \cup {None}
             /\ p.end # None => p.end > t
             /\ s.subtype # "recurring" => p.end = None
             /\ p.start <= t
             /\ p.resends \subseteq Nat /\ p.state = None
             /\ p.active = (active /\ s.subtype # "on_user_creation")
  <1> DEFINE p == NewPeriod(e, s, t, active)
  <1>1. s \in Calendar /\ s.subtype \in {"one_time", "recurring", "on_user_creation"}
    BY Subtype
  <1>2. p \in Execution({Question})
    BY <1>1, NewPeriodType
  <1>3. CASE s.subtype = "one_time"
    <2>1. p = Period(t, Due(s), None, s, active)
      BY <1>1, <1>3, OneTimeDue
    <2>2. ResendTimes(t, Due(s), s) \subseteq Nat /\ Due(s) \in Int
      BY <1>1, DueType, ResendsLater
    <2>3. QED
      BY <2>1, <2>2, <1>2, <1>3 DEF Period
  <1>4. CASE s.subtype = "recurring"
    <2> DEFINE start == LastSendHour(t, s)
    <2>1. start \in Int /\ start <= t
      BY <1>1, LastSendHourIsLast
    <2>2. /\ p = [start |-> start, end |-> p.end, resends |-> ResendTimes(t, start, s),
                  active |-> active, state |-> None]
          /\ p.end \in Int /\ p.end > t
      BY <1>1, <1>4, RecurringPeriod
    <2>3. ResendTimes(t, start, s) \subseteq Nat
      BY <2>1, <1>1, ResendsLater
    <2> HIDE DEF p, start
    <2>4. p.end \in Nat /\ p.start = start /\ p.state = None /\ p.active = active
          /\ p.resends = ResendTimes(t, start, s)
      BY <2>2
    <2>5. QED
      BY <2>1, <2>2, <2>3, <2>4, <1>2, <1>4 DEF p
  <1>5. CASE s.subtype = "on_user_creation"
    <2>1. p = Period(t, t, None, s, FALSE)
      BY <1>5 DEF NewPeriod
    <2>2. ResendTimes(t, t, s) \subseteq Nat
      BY <1>1, ResendsLater
    <2> HIDE DEF p
    <2>3. /\ p.start = t /\ p.end = None /\ p.active = FALSE /\ p.state = None
          /\ p.resends = ResendTimes(t, t, s)
      BY <2>1 DEF Period
    <2>4. p.active = (active /\ s.subtype # "on_user_creation")
      BY <2>3, <1>5
    <2>5. QED
      BY <2>2, <2>3, <2>4, <1>2 DEF p
  <1>6. QED
    BY <1>1, <1>3, <1>4, <1>5
-----------------------------------------------------------------------------
(* The three things an hourly job can do: begin the next period and send   *)
(* its question, leave a running execution as it is (and perhaps resend),  *)
(* or refresh an idle one.                                                 *)
JobDone == ~done /\ done' = TRUE /\ missed' = 0 /\ UNCHANGED <<now, schedule>>

Lasts == exec.end # None => now < exec.end

Begins ==
    /\ JobDone
    /\ exec.end # None /\ now >= exec.end
    /\ schedule.subtype = "one_time" => now >= Due(schedule)
    /\ LET p == NewPeriod(exec, schedule, now, TRUE)
       IN  /\ exec' \in Execution({Question}) /\ exec'.resends \subseteq Nat
           /\ exec'.start = p.start /\ exec'.end = p.end
           /\ exec'.active = TRUE /\ exec'.state = Question
           /\ served' = served \cup {p.start}
    /\ asks' = asks + 1
    /\ resent' = 0

Continues ==
    /\ JobDone
    /\ Lasts
    /\ exec.active
    /\ exec' \in Execution({Question}) /\ exec'.resends \subseteq Nat
    /\ exec'.start = exec.start /\ exec'.end = exec.end
    /\ exec'.active = TRUE /\ exec'.state = exec.state
    /\ UNCHANGED <<served, asks>>
    /\ resent' \in {resent, resent + 1}

Refreshes ==
    /\ JobDone
    /\ Lasts
    /\ ~exec.active
    /\ exec' = NewPeriod(exec, schedule, now, FALSE)
    /\ UNCHANGED <<served, asks, resent>>

(* Every hourly job is one of the three.                                   *)
LEMMA EveryHourCases ==
  ASSUME Types, OtherPeriods, RecurringPeriods, EveryHour
  PROVE  Begins \/ Continues \/ Refreshes
  <1> DEFINE checked == SetPeriod(exec, schedule, now, FALSE)
             due     == ResendDue(checked, now)
             kept    == IF due THEN DropResends(checked, now) ELSE checked
             runs    == due \/ StartsPeriod(exec, schedule, now)
             p       == NewPeriod(exec, schedule, now, TRUE)
  <1>1. /\ now \in Nat /\ schedule \in Calendars
        /\ schedule.subtype \in {"one_time", "recurring", "on_user_creation"}
        /\ exec \in Execution({Question})
        /\ exec.start \in Int /\ exec.end \in Nat \cup {None}
        /\ exec.active \in BOOLEAN /\ exec.state \in {Question, None}
        /\ exec.resends \subseteq Nat
        /\ exec.active <=> exec.state # None
        /\ Question # None
    BY ClockAssumption, Subtype DEF Types, Execution
  <1>2. /\ JobDone
        /\ \/ runs /\ ~Expired(kept, now) /\ kept.state = None /\ SendFresh(kept)
           \/ runs /\ ~Expired(kept, now) /\ kept.state # None /\ SendAgain(kept)
           \/ ~(runs /\ ~Expired(kept, now)) /\ SendNothing(kept)
    BY DEF EveryHour, JobDone
  <1>3. ASSUME NEW e \in Execution({Question}), e.resends \subseteq Nat
        PROVE  /\ DropResends(e, now) \in Execution({Question})
               /\ DropResends(e, now).resends \subseteq Nat
               /\ DropResends(e, now).start = e.start
               /\ DropResends(e, now).end = e.end
               /\ DropResends(e, now).active = e.active
               /\ DropResends(e, now).state = e.state
    BY <1>3 DEF DropResends, Execution
  <1>4. ASSUME NEW e \in Execution({Question})
        PROVE  /\ Asked(e) \in Execution({Question})
               /\ Asked(e).resends = e.resends
               /\ Asked(e).start = e.start
               /\ Asked(e).end = e.end
               /\ Asked(e).active = TRUE
               /\ Asked(e).state = Question
               /\ SetPeriod(Asked(e), schedule, now, TRUE) = Asked(e)
    BY DEF Asked, Execution, SetPeriod, Resets
  <1> HIDE DEF due, runs, p, checked, kept
  <1>5. CASE exec.end # None /\ now >= exec.end
    <2>1. schedule.subtype = "one_time" => now >= Due(schedule)
      BY <1>1, <1>5 DEF OtherPeriods
    <2>2. /\ p \in Execution({Question})
          /\ p.end # None => p.end > now
          /\ p.resends \subseteq Nat /\ p.state = None
      BY <2>1, <1>1, NewPeriodLasts DEF p
    <2>3. schedule.subtype # "on_user_creation"
      BY <1>1, <1>5 DEF OtherPeriods
    <2>4. checked = p /\ runs
      BY <1>1, <1>5, <2>1, <2>3 DEF checked, p, runs, SetPeriod, Resets, StartsPeriod, Due
    <2>5. /\ kept \in Execution({Question}) /\ kept.resends \subseteq Nat
          /\ kept.start = p.start /\ kept.end = p.end /\ kept.state = None
      BY <2>2, <2>4, <1>3 DEF kept
    <2>6. ~Expired(kept, now)
      BY <2>2, <2>5, <1>1 DEF Expired, Execution
    <2>7. SendFresh(kept)
      BY <1>2, <2>4, <2>5, <2>6
    <2>8. Begins
      BY <1>2, <1>4, <1>5, <2>1, <2>5, <2>7 DEF Begins, SendFresh, p
    <2>9. QED
      BY <2>8
  <1>6. CASE ~(exec.end # None /\ now >= exec.end)
    <2>1. Lasts
      BY <1>1, <1>6 DEF Lasts
    <2>2. checked = exec /\ (runs <=> due)
      BY <1>6 DEF checked, runs, SetPeriod, Resets, StartsPeriod
    <2>3. CASE exec.active
      <3>1. /\ kept \in Execution({Question}) /\ kept.resends \subseteq Nat
            /\ kept.start = exec.start /\ kept.end = exec.end
            /\ kept.active = TRUE /\ kept.state = exec.state
        BY <2>2, <2>3, <1>1, <1>3 DEF kept
      <3>2. SetPeriod(kept, schedule, now, TRUE) = kept
        BY <3>1 DEF SetPeriod, Resets
      <3>3. SendAgain(kept) \/ SendNothing(kept)
        BY <1>1, <1>2, <2>3, <3>1
      <3>4. CASE SendAgain(kept)
        BY <3>1, <3>4, <1>1, <1>2, <1>4, <2>1, <2>3 DEF SendAgain, Continues
      <3>5. CASE SendNothing(kept)
        BY <3>1, <3>2, <3>5, <1>1, <1>2, <2>1, <2>3 DEF SendNothing, Continues
      <3>6. QED
        BY <3>3, <3>4, <3>5
    <2>4. CASE ~exec.active
      <3>1. ~due /\ kept = exec
        BY <2>2, <2>4 DEF due, kept, ResendDue
      <3>2. SendNothing(exec)
        BY <3>1, <2>2, <1>2
      <3>3. exec' = NewPeriod(exec, schedule, now, FALSE)
        BY <3>2, <2>4 DEF SendNothing, SetPeriod, Resets
      <3>4. Refreshes
        BY <3>2, <3>3, <1>2, <2>1, <2>4 DEF Refreshes, SendNothing
      <3>5. QED
        BY <3>4
    <2>5. QED
      BY <2>3, <2>4
  <1>7. QED
    BY <1>5, <1>6
-----------------------------------------------------------------------------
(* The next period of a recurring schedule starts no earlier than the last *)
(* one, and not before its end if that has passed.                         *)
LEMMA RecurringAdvances ==
  ASSUME Types, RecurringPeriods, schedule.subtype = "recurring", NEW active \in BOOLEAN
  PROVE  LET p == NewPeriod(exec, schedule, now, active)
         IN  /\ p.start = LastSendHour(now, schedule)
             /\ p.end = p.start + Days(RecurringDays(p.start, schedule))
             /\ p.start \in Int /\ p.end \in Int
             /\ HourOf(p.start) = schedule.sendHour
             /\ HourOf(p.end) = schedule.sendHour
             /\ p.start <= now /\ now < p.end /\ p.start < p.end
             /\ now < p.start + DayHours
             /\ exec.start <= p.start
             /\ now >= exec.end => exec.end <= p.start
  <1> DEFINE p == NewPeriod(exec, schedule, now, active)
             start == LastSendHour(now, schedule)
  <1>1. /\ now \in Int /\ schedule \in Calendar
        /\ exec.start \in Int /\ exec.end \in Int /\ exec.start <= now
        /\ HourOf(exec.start) = schedule.sendHour /\ HourOf(exec.end) = schedule.sendHour
    BY Subtype DEF Types, RecurringPeriods, Execution
  <1>2. /\ start \in Int /\ HourOf(start) = schedule.sendHour
        /\ start <= now /\ now < start + DayHours
    BY <1>1, LastSendHourIsLast
  <1>3. exec.start <= start /\ (now >= exec.end => exec.end <= start)
    BY <1>1, NoLaterSendHour
  <1>4. /\ p = [start |-> start, end |-> p.end, resends |-> ResendTimes(now, start, schedule),
                active |-> active, state |-> None]
        /\ p.end = start + Days(RecurringDays(start, schedule))
        /\ p.end \in Int /\ p.end > now /\ p.end > start
        /\ HourOf(p.end) = schedule.sendHour
    BY <1>1, RecurringPeriod
  <1> HIDE DEF p, start
  <1>5. p.start = start
    BY <1>4
  <1>6. QED
    BY <1>1, <1>2, <1>3, <1>4, <1>5 DEF p, start

(* An execution is created idle, in a period that is running or endless.   *)
LEMMA InitPeriods == Init => Periods
  <1> SUFFICES ASSUME Init PROVE Periods
    OBVIOUS
  <1> DEFINE p == NewPeriod(Blank, schedule, now, TRUE)
  <1>1. /\ now \in Nat /\ now \in Int /\ now \in 0..MaxNow /\ schedule \in Calendars
        /\ schedule \in Calendar
        /\ schedule.subtype \in {"one_time", "recurring", "on_user_creation"}
        /\ done = TRUE /\ missed = 0 /\ MaxMissed[schedule] \in Nat
        /\ served = {} /\ asks = 0 /\ resent = 0
    <2>1. Days(7) \in Int
      BY TimeAssumption DEF Days
    <2>2. QED
      BY <2>1, ClockAssumption, Subtype DEF Init
  <1>2. Blank \in Execution({Question})
    BY DEF Blank, Execution
  <1>3. /\ exec = [p EXCEPT !.active = FALSE]
        /\ exec \in Execution({Question}) /\ exec.active = FALSE /\ exec.state = None
    <2>1. exec = MakeExecution(schedule, now)
      BY DEF Init
    <2>2. /\ MakeExecution(schedule, now) = [p EXCEPT !.active = FALSE]
          /\ MakeExecution(schedule, now) \in Execution({Question})
          /\ ~MakeExecution(schedule, now).active
          /\ MakeExecution(schedule, now).state = None
      BY <1>1, MakeExecutionType
    <2>3. \A e \in Execution({Question}) : e.active \in BOOLEAN
      BY DEF Execution
    <2> HIDE DEF p
    <2>4. exec \in Execution({Question}) /\ ~exec.active
      BY <2>1, <2>2
    <2>5. exec.active = FALSE
      BY <2>3, <2>4
    <2>6. QED
      BY <2>1, <2>2, <2>5
  <1>4. p \in Execution({Question})
    BY <1>1, <1>2, NewPeriodType
  <1> HIDE DEF p
  <1>5. /\ exec.start = p.start /\ exec.end = p.end /\ exec.resends = p.resends
    <2>1. p = [start |-> p.start, end |-> p.end, resends |-> p.resends,
               active |-> p.active, state |-> p.state]
      BY <1>4 DEF Execution
    <2>2. exec = [start |-> p.start, end |-> p.end, resends |-> p.resends,
                  active |-> FALSE, state |-> p.state]
      BY <2>1, <1>3
    <2>3. QED
      BY <2>2
  <1>6. ServedCounted /\ RunningBegan
    BY <1>1, <1>3, FS_EmptySet DEF ServedCounted, RunningBegan
  <1>7. CASE schedule.subtype = "recurring"
    <2> DEFINE start == LastSendHour(now, schedule)
    <2>1. /\ start \in Int /\ start <= now /\ HourOf(start) = schedule.sendHour
      BY <1>1, LastSendHourIsLast
    <2>2. /\ p = [start |-> start, end |-> p.end, resends |-> ResendTimes(now, start, schedule),
                  active |-> TRUE, state |-> None]
          /\ p.end \in Int /\ p.end > now /\ p.end > start
          /\ HourOf(p.end) = schedule.sendHour
      <3>1. /\ NewPeriod(Blank, schedule, now, TRUE)
               = [start |-> start, end |-> NewPeriod(Blank, schedule, now, TRUE).end,
                  resends |-> ResendTimes(now, start, schedule),
                  active |-> TRUE, state |-> None]
            /\ NewPeriod(Blank, schedule, now, TRUE).end \in Int
            /\ NewPeriod(Blank, schedule, now, TRUE).end > now
            /\ NewPeriod(Blank, schedule, now, TRUE).end > start
            /\ HourOf(NewPeriod(Blank, schedule, now, TRUE).end) = schedule.sendHour
        BY <1>1, <1>7, RecurringPeriod
      <3>2. QED
        BY <3>1 DEF p
    <2>3. ResendTimes(now, start, schedule) \subseteq Nat
      BY <2>1, <1>1, ResendsLater
    <2> HIDE DEF start
    <2>4. exec.start = start /\ exec.resends = ResendTimes(now, start, schedule)
      BY <2>2, <1>5
    <2>5. exec.end # None
      BY <2>2, <1>5, TimeAssumption
    <2>6. RecurringPeriods
      BY <2>1, <2>2, <2>4, <2>5, <1>1, <1>5 DEF RecurringPeriods
    <2>7. Types
      BY <2>2, <2>3, <2>4, <1>1, <1>3, <1>5 DEF Types
    <2>8. QED
      BY <2>6, <2>7, <1>6, <1>7 DEF Periods, OtherPeriods
  <1>8. CASE schedule.subtype = "one_time" /\ now < Due(schedule)
    <2>1. p = [start |-> Blank.start, end |-> Due(schedule), resends |-> {},
               active |-> Blank.active, state |-> Blank.state]
      <3>1. NewPeriod(Blank, schedule, now, TRUE) =
              [start |-> Blank.start, end |-> Due(schedule), resends |-> {},
               active |-> Blank.active, state |-> Blank.state]
        <4>1. Blank = [start |-> Blank.start, end |-> Blank.end, resends |-> Blank.resends,
                       active |-> Blank.active, state |-> Blank.state]
          BY DEF Blank
        <4>2. QED
          BY <4>1, <1>1, <1>8, OneTimeNotDue, ZenonT(60)
      <3>2. QED
        BY <3>1 DEF p
    <2>2. exec.end = Due(schedule) /\ exec.resends = {}
      BY <2>1, <1>5
    <2>3. Due(schedule) \in Nat
      BY <1>1, DueType
    <2>4. Types
      BY <2>2, <2>3, <1>1, <1>3 DEF Types
    <2>5. QED
      BY <2>2, <2>4, <1>1, <1>3, <1>6, <1>8 DEF Periods, OtherPeriods, RecurringPeriods
  <1>9. CASE schedule.subtype # "recurring" /\ (schedule.subtype = "one_time" => now >= Due(schedule))
    <2>1. p.end = None /\ p.resends \subseteq Nat
      BY <1>1, <1>2, <1>9, NewPeriodLasts DEF p
    <2>2. Types
      BY <2>1, <1>1, <1>3, <1>5 DEF Types
    <2>3. QED
      BY <2>1, <2>2, <1>1, <1>3, <1>5, <1>6, <1>9 DEF Periods, OtherPeriods, RecurringPeriods
  <1>10. QED
    BY <1>1, <1>7, <1>8, <1>9, DueType

(* The job begins a period: its start is none of those served before.      *)
LEMMA BeginsPeriods ==
  ASSUME Periods, Begins
  PROVE  /\ Periods'
         /\ exec'.start \notin served
         /\ exec'.end # None => now < exec'.end
  <1> DEFINE p == NewPeriod(exec, schedule, now, TRUE)
  <1>1. /\ now \in Nat /\ schedule \in Calendars /\ missed' = 0 /\ now' = now
        /\ schedule' = schedule /\ ~done /\ done' = TRUE
        /\ schedule.subtype \in {"one_time", "recurring", "on_user_creation"}
        /\ exec \in Execution({Question}) /\ MaxMissed[schedule] \in Nat
        /\ IsFiniteSet(served) /\ served \in SUBSET Int /\ asks = Cardinality(served)
    BY ClockAssumption, Subtype DEF Periods, Types, ServedCounted, Begins, JobDone
  <1>2. /\ exec' \in Execution({Question}) /\ exec'.resends \subseteq Nat
        /\ exec'.start = p.start /\ exec'.end = p.end
        /\ exec'.active = TRUE /\ exec'.state = Question
        /\ served' = served \cup {p.start} /\ asks' = asks + 1 /\ resent' = 0
        /\ exec.end # None /\ now >= exec.end
        /\ schedule.subtype = "one_time" => now >= Due(schedule)
    BY DEF Begins
  <1>3. /\ p.end \in Nat \cup {None} /\ (p.end # None => p.end > now) /\ p.start <= now
        /\ schedule.subtype # "recurring" => p.end = None
    BY <1>1, <1>2, NewPeriodLasts, ZenonT(60)
  <1>4. p.start \in Int
    BY <1>2 DEF Execution
  <1>5. ASSUME schedule.subtype = "recurring"
        PROVE  p.start \notin served /\ RecurringPeriods'
    <2>1. /\ p.end \in Int /\ HourOf(p.start) = schedule.sendHour
          /\ HourOf(p.end) = schedule.sendHour /\ now < p.end /\ p.start < p.end
          /\ exec.end <= p.start
      BY <1>1, <1>2, <1>5, RecurringAdvances DEF Periods
    <2>2. exec.start < exec.end /\ exec.end \in Int /\ exec.start \in Int
          /\ \A t \in served : t <= exec.start
      BY <1>1, <1>2, <1>5 DEF Periods, RecurringPeriods, Types, Execution
    <2> HIDE DEF p
    <2>3. \A t \in served : t < p.start
      BY <2>1, <2>2, <1>1, <1>4
    <2>4. p.start \notin served
      BY <2>3, <1>4
    <2>5. \A t \in served' : t <= p.start
      <3>1. \A t \in served : t <= p.start
        BY <2>3, <1>1, <1>4
      <3>2. p.start <= p.start
        BY <1>4
      <3>3. served' = served \cup {p.start}
        BY <1>2
      <3>4. QED
        BY <3>1, <3>2, <3>3
    <2>6. RecurringPeriods'
      BY <2>1, <2>5, <1>1, <1>2, <1>3, <1>4, <1>5, TimeAssumption DEF RecurringPeriods
    <2>7. QED
      BY <2>4, <2>6
  <1>6. ASSUME schedule.subtype # "recurring"
        PROVE  p.start \notin served /\ OtherPeriods'
    <2>1. schedule.subtype = "one_time" /\ served = {}
      BY <1>1, <1>2, <1>6 DEF Periods, OtherPeriods
    <2> HIDE DEF p
    <2>2. Due(schedule) <= now
      BY <1>1, <1>2, <2>1, Subtype, DueType
    <2>3. OtherPeriods'
      BY <1>1, <1>2, <1>3, <1>6, <2>1, <2>2 DEF OtherPeriods
    <2>4. QED
      BY <2>1, <2>3
  <1> HIDE DEF p
  <1>7. p.start \notin served /\ RecurringPeriods' /\ OtherPeriods'
    BY <1>1, <1>5, <1>6 DEF RecurringPeriods, OtherPeriods
  <1>8. IsFiniteSet(served \cup {p.start})
        /\ Cardinality(served \cup {p.start}) = Cardinality(served) + 1
    BY <1>1, <1>7, FS_AddElement
  <1>9. ServedCounted' /\ RunningBegan'
    BY <1>1, <1>2, <1>3, <1>8 DEF ServedCounted, RunningBegan
  <1>10. Types'
    <2>1. now \in 0..MaxNow /\ asks \in Nat /\ Question # None
      BY ClockAssumption DEF Types, Periods
    <2>2. served' \in SUBSET Int
      BY <1>1, <1>2, <1>4
    <2>3. QED
      BY <2>1, <2>2, <1>1, <1>2, <1>3 DEF Types
  <1>11. QED
    BY <1>2, <1>3, <1>7, <1>9, <1>10 DEF Periods

(* A running period that goes on keeps its bounds.                         *)
LEMMA ContinuesPeriods ==
  ASSUME Periods, Continues
  PROVE  Periods'
  <1>1. /\ missed' = 0 /\ now' = now /\ schedule' = schedule /\ ~done /\ done' = TRUE
        /\ exec.active /\ (exec.end # None => now < exec.end)
        /\ exec' \in Execution({Question}) /\ exec'.resends \subseteq Nat
        /\ exec'.start = exec.start /\ exec'.end = exec.end
        /\ exec'.active = TRUE /\ exec'.state = exec.state
        /\ served' = served /\ asks' = asks /\ resent' \in {resent, resent + 1}
    BY DEF Continues, JobDone, Lasts
  <1>2. MaxMissed[schedule] \in Nat
    BY ClockAssumption DEF Periods, Types
  <1>3. Types'
    BY <1>1, <1>2 DEF Periods, Types
  <1>4. RunningBegan' /\ ServedCounted'
    BY <1>1 DEF Periods, RunningBegan, ServedCounted
  <1>5. RecurringPeriods' /\ OtherPeriods'
    BY <1>1 DEF Periods, RecurringPeriods, OtherPeriods
  <1>6. QED
    BY <1>3, <1>4, <1>5 DEF Periods

(* An idle execution is refreshed: it stays idle, in a period not yet over.*)
LEMMA RefreshesPeriods ==
  ASSUME Periods, Refreshes
  PROVE  /\ Periods'
         /\ exec'.end # None => now < exec'.end
         /\ ~exec'.active
  <1> DEFINE p == NewPeriod(exec, schedule, now, FALSE)
  <1>1. /\ now \in Nat /\ schedule \in Calendars /\ missed' = 0 /\ now' = now
        /\ schedule \in Calendar
        /\ schedule' = schedule /\ ~done /\ done' = TRUE
        /\ schedule.subtype \in {"one_time", "recurring", "on_user_creation"}
        /\ exec \in Execution({Question}) /\ MaxMissed[schedule] \in Nat
        /\ exec.active \in BOOLEAN /\ ~exec.active /\ exec.state = None
        /\ exec' = p /\ served' = served /\ asks' = asks /\ resent' = resent
        /\ exec.end # None => now < exec.end
    BY ClockAssumption, Subtype DEF Periods, Types, Refreshes, JobDone, Lasts, Execution
  <1>2. CASE schedule.subtype = "one_time" /\ now < Due(schedule)
    <2>1. exec.end = Due(schedule) /\ served = {} /\ Due(schedule) \in Nat
      BY <1>1, <1>2, DueType, TimeAssumption DEF Periods, OtherPeriods
    <2>2. exec = [start |-> exec.start, end |-> exec.end, resends |-> exec.resends,
                  active |-> exec.active, state |-> exec.state]
      BY <1>1 DEF Execution
    <2>3. p = [start |-> exec.start, end |-> Due(schedule), resends |-> {},
               active |-> exec.active, state |-> exec.state]
      <3>1. now \in Nat /\ schedule \in Calendar
        BY <1>1
      <3>2. QED
        BY <1>2, <2>2, <3>1, OneTimeNotDue, Zenon
    <2>4. p \in Execution({Question})
      BY <1>1, NewPeriodType
    <2> HIDE DEF p
    <2>5. /\ exec' \in Execution({Question}) /\ exec'.end = Due(schedule) /\ exec'.resends = {}
          /\ ~exec'.active /\ exec'.state = None
      BY <1>1, <2>3, <2>4
    <2>6. Types'
      BY <1>1, <2>1, <2>5 DEF Periods, Types
    <2>7. RunningBegan' /\ ServedCounted' /\ RecurringPeriods' /\ OtherPeriods'
      BY <1>1, <1>2, <2>1, <2>5
         DEF Periods, RunningBegan, ServedCounted, RecurringPeriods, OtherPeriods
    <2>8. QED
      BY <1>2, <2>1, <2>5, <2>6, <2>7 DEF Periods
  <1>3. CASE ~(schedule.subtype = "one_time" /\ now < Due(schedule))
    <2>1. schedule.subtype = "one_time" => now >= Due(schedule)
      BY <1>1, <1>3, DueType
    <2>2. /\ p \in Execution({Question}) /\ p.end \in Nat \cup {None}
          /\ (p.end # None => p.end > now)
          /\ p.resends \subseteq Nat /\ p.state = None /\ ~p.active
          /\ schedule.subtype # "recurring" => p.end = None
      BY <1>1, <2>1, NewPeriodLasts
    <2>3. RecurringPeriods' /\ OtherPeriods'
      <3>1. CASE schedule.subtype = "recurring"
        <4>1. /\ p.end \in Int /\ HourOf(p.start) = schedule.sendHour
              /\ HourOf(p.end) = schedule.sendHour /\ now < p.end /\ p.start < p.end
              /\ exec.start <= p.start /\ p.start <= now /\ p.start \in Int
          BY <1>1, <3>1, RecurringAdvances DEF Periods
        <4>2. /\ exec.start \in Int /\ served \in SUBSET Int
              /\ \A t \in served : t <= exec.start
          BY <1>1, <3>1 DEF Periods, RecurringPeriods, Types, Execution
        <4> HIDE DEF p
        <4>3. \A t \in served : t <= p.start
          BY <4>1, <4>2
        <4>4. QED
          BY <1>1, <3>1, <4>1, <4>3, TimeAssumption DEF RecurringPeriods, OtherPeriods
      <3>2. CASE schedule.subtype = "one_time"
        <4>1. Due(schedule) <= now
          BY <1>1, <2>1, <3>2, DueType
        <4> HIDE DEF p
        <4>2. QED
          BY <1>1, <2>2, <3>2, <4>1 DEF RecurringPeriods, OtherPeriods
      <3>3. CASE schedule.subtype = "on_user_creation"
        <4> HIDE DEF p
        <4>1. QED
          BY <1>1, <2>2, <3>3 DEF RecurringPeriods, OtherPeriods
      <3>4. QED
        BY <1>1, <3>1, <3>2, <3>3
    <2> HIDE DEF p
    <2>4. Types'
      BY <1>1, <2>2 DEF Periods, Types
    <2>5. RunningBegan' /\ ServedCounted'
      BY <1>1, <2>2 DEF Periods, RunningBegan, ServedCounted
    <2>6. QED
      BY <1>1, <2>2, <2>3, <2>4, <2>5 DEF Periods
  <1>4. QED
    BY <1>2, <1>3

(* An answer leaves an idle execution in its period.                       *)
LEMMA AnswerPeriods ==
  ASSUME Periods, Answer
  PROVE  /\ Periods'
         /\ exec'.start = exec.start /\ exec'.end = exec.end /\ ~exec'.active
  <1>1. /\ exec.state # None /\ exec \in Execution({Question}) /\ exec.active
        /\ exec' = [exec EXCEPT !.state = None, !.active = FALSE]
        /\ now' = now /\ done' = done /\ missed' = missed /\ schedule' = schedule
        /\ served' = served /\ asks' = asks /\ resent' = resent
    BY DEF Answer, Periods, Types
  <1>2. exec' \in Execution({Question})
    BY <1>1 DEF Execution
  <1>3. /\ exec'.start = exec.start /\ exec'.end = exec.end /\ exec'.resends = exec.resends
        /\ exec'.active = FALSE /\ exec'.state = None
    BY <1>1 DEF Execution
  <1>4. Types' /\ RunningBegan' /\ ServedCounted' /\ RecurringPeriods'
    BY <1>1, <1>2, <1>3 DEF Periods, Types, RunningBegan, ServedCounted, RecurringPeriods
  <1>5. OtherPeriods'
    BY <1>1, <1>3 DEF Periods, OtherPeriods
  <1>6. QED
    BY <1>3, <1>4, <1>5 DEF Periods

(* The clock goes on when the hour's job is over, so no period ended       *)
(* unnoticed unless an hour was missed.                                    *)
LEMMA NextHourPeriods ==
  ASSUME Periods, NextHour
  PROVE  Periods'
  <1>1. /\ now' = now + 1 /\ now < MaxNow /\ done = TRUE /\ done' = FALSE
        /\ missed' = missed /\ schedule' = schedule /\ exec' = exec
        /\ served' = served /\ asks' = asks /\ resent' = resent
        /\ now \in 0..MaxNow /\ MaxNow \in Nat /\ exec.start \in Int
        /\ exec.end \in Nat \cup {None} /\ schedule \in Calendar
    BY ClockAssumption, Subtype DEF NextHour, Periods, Types, Execution
  <1>2. Types'
    <2>1. now' \in 0..MaxNow
      BY <1>1
    <2>2. QED
      BY <2>1, <1>1 DEF Periods, Types
  <1>3. RunningBegan' /\ ServedCounted'
    BY <1>1 DEF Periods, RunningBegan, ServedCounted
  <1>4. RecurringPeriods'
    BY <1>1 DEF Periods, RecurringPeriods
  <1>5. OtherPeriods'
    BY <1>1, DueType DEF Periods, OtherPeriods
  <1>6. QED
    BY <1>2, <1>3, <1>4, <1>5 DEF Periods

(* A missed hour changes nothing but the count of missed hours.            *)
LEMMA MissHourPeriods ==
  ASSUME Periods, MissHour
  PROVE  Periods'
  <1>1. /\ ~done /\ done' = TRUE /\ missed < MaxMissed[schedule] /\ missed' = missed + 1
        /\ now' = now /\ schedule' = schedule /\ exec' = exec
        /\ served' = served /\ asks' = asks /\ resent' = resent
        /\ missed \in Nat /\ MaxMissed[schedule] \in Nat
    BY ClockAssumption DEF MissHour, Periods, Types
  <1>2. Types'
    BY <1>1 DEF Periods, Types
  <1>3. RunningBegan' /\ ServedCounted' /\ RecurringPeriods' /\ OtherPeriods'
    BY <1>1 DEF Periods, RunningBegan, ServedCounted, RecurringPeriods, OtherPeriods
  <1>4. QED
    BY <1>2, <1>3 DEF Periods

(* Every step keeps the periods in order.                                  *)
LEMMA NextPeriods == Periods /\ [Next]_vars => Periods'
  <1> SUFFICES ASSUME Periods, [Next]_vars PROVE Periods'
    OBVIOUS
  <1>1. CASE EveryHour
    BY <1>1, EveryHourCases, BeginsPeriods, ContinuesPeriods, RefreshesPeriods DEF Periods
  <1>2. CASE Answer
    BY <1>2, AnswerPeriods
  <1>3. CASE NextHour
    BY <1>3, NextHourPeriods
  <1>4. CASE MissHour
    BY <1>4, MissHourPeriods
  <1>5. CASE UNCHANGED vars
    BY <1>5 DEF vars, Periods, Types, RunningBegan, ServedCounted, RecurringPeriods, OtherPeriods
  <1>6. QED
    BY <1>1, <1>2, <1>3, <1>4, <1>5 DEF Next

(* The periods of the execution are in order in every behaviour.           *)
THEOREM PeriodsInvariant == Spec => []Periods
  <1>1. QED
    BY InitPeriods, NextPeriods, PTL DEF Spec

(* No period's question is sent afresh twice: the questions sent afresh    *)
(* are as many as the periods they began.                                  *)
THEOREM QuestionOncePerPeriod == Spec => []OncePerPeriod
  <1>1. Periods => OncePerPeriod
    BY DEF Periods, Types, ServedCounted, OncePerPeriod, TypeOK, Execution
  <1>2. QED
    BY <1>1, PeriodsInvariant, PTL

(* A resend repeats the question of the period that is running.            *)
THEOREM ResendsStayInPeriod == Spec => ResendWithinPeriod
  <1> DEFINE Stays == resent' > resent =>
        /\ exec.state # None /\ exec'.start = exec.start /\ exec.start < now
        /\ exec.end # None => now < exec.end
  <1>1. ASSUME Periods, [Next]_vars PROVE [Stays]_vars
    <2>1. resent \in Nat
      BY <1>1 DEF Periods, Types
    <2>2. CASE EveryHour
      <3>1. Begins \/ Continues \/ Refreshes
        BY <1>1, <2>2, EveryHourCases DEF Periods
      <3>2. CASE Begins
        <4>1. resent' = 0
          BY <3>2 DEF Begins
        <4>2. ~(resent' > resent)
          BY <4>1, <2>1
        <4>3. QED
          BY <4>2
      <3>3. CASE Continues
        BY <1>1, <3>3 DEF Continues, JobDone, Lasts, Periods, RunningBegan, Types
      <3>4. CASE Refreshes
        <4>1. resent' = resent
          BY <3>4 DEF Refreshes
        <4>2. ~(resent' > resent)
          BY <4>1, <2>1
        <4>3. QED
          BY <4>2
      <3>5. QED
        BY <3>1, <3>2, <3>3, <3>4
    <2>3. CASE Answer
      BY <2>1, <2>3 DEF Answer
    <2>4. CASE NextHour
      BY <2>1, <2>4 DEF NextHour
    <2>5. CASE MissHour
      BY <2>1, <2>5 DEF MissHour
    <2>6. CASE UNCHANGED vars
      BY <2>6
    <2>7. QED
      BY <1>1, <2>2, <2>3, <2>4, <2>5, <2>6 DEF Next
  <1>2. QED
    BY <1>1, PeriodsInvariant, PTL DEF Spec, ResendWithinPeriod
-----------------------------------------------------------------------------
(* From one send hour to the end of the period there is no other moment of *)
(* the survey, and the end is one of its days.                             *)
LEMMA NoMomentBetween ==
  ASSUME NEW s \in Calendar, s.subtype = "recurring",
         NEW start \in Int, HourOf(start) = s.sendHour
  PROVE  LET end == start + Days(RecurringDays(start, s))
         IN  /\ \A t \in Int : start < t /\ t < end => ~SurveyMoment(s, t)
             /\ s.daysOfWeek # {} => WeekdayOf(end) \in s.daysOfWeek
  <1> DEFINE n == RecurringDays(start, s)
             end == start + Days(n)
  <1>1. s.daysOfWeek \in SUBSET DaysOfWeek /\ s.questionPeriod \in Nat \ {0}
    BY DEF Calendar
  <1>2. s.daysOfWeek # {} =>
          /\ n \in 1 .. 7
          /\ WeekdayOf(end) \in s.daysOfWeek
          /\ \A m \in 1 .. n - 1 : WeekdayOf(start + Days(m)) \notin s.daysOfWeek
    BY <1>1, NextSurveyDay DEF RecurringDays
  <1>3. s.daysOfWeek = {} => n = s.questionPeriod
    BY DEF RecurringDays
  <1>4. n \in Nat
    BY <1>1, <1>2, <1>3
  <1> HIDE DEF n
  <1>5. ASSUME NEW t \in Int, start < t, t < end, SurveyMoment(s, t) PROVE FALSE
    <2> DEFINE k == t \div DayHours - start \div DayHours
    <2>1. t = start + Days(k)
      BY <1>5, DaysApart DEF SurveyMoment, HasSurveyDays, Moment
    <2>2. k \in Int
      BY DayAndHour
    <2> HIDE DEF k
    <2>3. 0 < DayHours * k /\ DayHours * k < DayHours * n /\ DayHours * k \in Int
      BY <2>1, <2>2, <1>4, <1>5, TimeAssumption DEF Days
    <2>4. 0 < k /\ k < n
      <3>1. k <= 0 => DayHours * k <= 0
        BY <2>2, TimeAssumption
      <3>2. k >= n => DayHours * k >= DayHours * n
        <4>1. k >= n => DayHours * (k - n) >= 0
          BY <2>2, <1>4, TimeAssumption
        <4>2. DayHours * (k - n) = DayHours * k - DayHours * n
          BY <2>2, <1>4, TimeAssumption
        <4>3. DayHours * n \in Int
          BY <1>4, TimeAssumption
        <4>4. QED
          BY <4>1, <4>2, <4>3, <2>3
      <3>3. DayHours * n \in Int
        BY <1>4, TimeAssumption
      <3>4. QED
        BY <3>1, <3>2, <3>3, <2>2, <2>3, <1>4
    <2>5. CASE s.daysOfWeek = {}
      <3>1. n = 1
        BY <2>5, <1>3, <1>5 DEF SurveyMoment, HasSurveyDays, Moment
      <3>2. QED
        BY <3>1, <2>2, <2>4
    <2>6. CASE s.daysOfWeek # {}
      <3>1. k \in 1 .. n - 1
        BY <2>2, <2>4, <1>4
      <3>2. WeekdayOf(start + Days(k)) \notin s.daysOfWeek
        BY <3>1, <2>6, <1>2
      <3>3. QED
        BY <3>2, <2>1, <2>6, <1>5 DEF SurveyMoment, HasSurveyDays, Moment
    <2>7. QED
      BY <2>5, <2>6
  <1>6. QED
    BY <1>2, <1>5 DEF n

(* A period set at t, seen from the moments of the survey.                 *)
LEMMA PeriodMoments ==
  ASSUME NEW t \in Int, NEW s \in Calendar, s.subtype = "recurring", NEW e, NEW active,
         NEW p, p = NewPeriod(e, s, t, active)
  PROVE  /\ \A m \in Int : p.start < m /\ m < p.end => ~SurveyMoment(s, m)
         /\ s.daysOfWeek # {} => WeekdayOf(p.end) \in s.daysOfWeek
  <1> DEFINE start == LastSendHour(t, s)
             n == RecurringDays(start, s)
  <1>1. /\ start \in Int /\ HourOf(start) = s.sendHour
    BY LastSendHourIsLast
  <1>2. /\ p = [start |-> start, end |-> p.end, resends |-> ResendTimes(t, start, s),
                active |-> active, state |-> None]
        /\ p.end = start + Days(n)
    BY RecurringPeriod
  <1>3. /\ \A m \in Int : start < m /\ m < start + Days(n) => ~SurveyMoment(s, m)
        /\ s.daysOfWeek # {} => WeekdayOf(start + Days(n)) \in s.daysOfWeek
    BY <1>1, NoMomentBetween
  <1> HIDE DEF start, n
  <1>4. p.start = start
    BY <1>2
  <1>5. QED
    BY <1>2, <1>3, <1>4

(* The period of a survey of every second day, or rarer, set at t lasts    *)
(* beyond the next hour.                                                   *)
LEMMA RarePeriod ==
  ASSUME NEW t \in Int, NEW s \in Calendar, s.subtype = "recurring", NEW e, NEW active,
         NEW p, p = NewPeriod(e, s, t, active),
         s.daysOfWeek = {}, s.questionPeriod > 1
  PROVE  p.end \in Int /\ p.end > t + 1
  <1> DEFINE start == LastSendHour(t, s)
             n == RecurringDays(start, s)
  <1>1. start \in Int /\ t < start + DayHours
    BY LastSendHourIsLast
  <1>2. p.end = start + Days(n) /\ p.end \in Int
    BY RecurringPeriod
  <1>3. n = s.questionPeriod /\ s.questionPeriod \in Nat
    BY DEF RecurringDays, Calendar
  <1>4. Days(s.questionPeriod) >= DayHours + DayHours /\ Days(s.questionPeriod) \in Int
    <2>1. (s.questionPeriod - 2) * DayHours >= 0
      BY <1>3, TimeAssumption
    <2>2. (s.questionPeriod - 2) * DayHours
            = s.questionPeriod * DayHours - (DayHours + DayHours)
      BY <1>3, TimeAssumption
    <2>3. s.questionPeriod * DayHours \in Int
      BY <1>3, TimeAssumption
    <2>4. QED
      BY <2>1, <2>2, <2>3, TimeAssumption DEF Days
  <1> HIDE DEF n, start
  <1>5. start + Days(n) > t + 1
    BY <1>1, <1>3, <1>4, TimeAssumption
  <1>6. QED
    BY <1>2, <1>5

(* The first period is set in the first week, before any moment counts.    *)
LEMMA InitMoments == Init => Moments
  <1> SUFFICES ASSUME Init, schedule.subtype = "recurring" PROVE Moments
    BY DEF Moments, NoMomentInside, MomentsServed, ServedAreMoments, RareNeverBegins
  <1> DEFINE p == NewPeriod(Blank, schedule, now, TRUE)
  <1>1. /\ now \in Nat /\ now \in Int /\ now < Days(7) /\ Days(7) \in Int
        /\ schedule \in Calendar /\ done = TRUE /\ served = {}
    <2>1. Days(7) \in Int
      BY TimeAssumption DEF Days
    <2>2. QED
      BY <2>1, Subtype DEF Init
  <1>2. Periods
    BY InitPeriods
  <1>3. exec = [p EXCEPT !.active = FALSE]
    BY <1>1, MakeExecutionType DEF Init
  <1>4. p \in Execution({Question})
    <2>1. Blank \in Execution({Question})
      BY DEF Blank, Execution
    <2>2. QED
      BY <1>1, <2>1, NewPeriodType
  <1>5. /\ \A m \in Int : p.start < m /\ m < p.end => ~SurveyMoment(schedule, m)
        /\ schedule.daysOfWeek # {} => WeekdayOf(p.end) \in schedule.daysOfWeek
    <2>1. p = NewPeriod(Blank, schedule, now, TRUE)
      OBVIOUS
    <2> HIDE DEF p
    <2>2. QED
      BY <2>1, <1>1, PeriodMoments
  <1> HIDE DEF p
  <1>6. exec.start = p.start /\ exec.end = p.end /\ exec.active = FALSE
    <2>1. p = [start |-> p.start, end |-> p.end, resends |-> p.resends,
               active |-> p.active, state |-> p.state]
      BY <1>4 DEF Execution
    <2>2. exec = [start |-> p.start, end |-> p.end, resends |-> p.resends,
                  active |-> FALSE, state |-> p.state]
      BY <2>1, <1>3
    <2>3. QED
      BY <2>2
  <1>7. exec.start \in Int /\ exec.start <= now
    BY <1>2 DEF Periods, RecurringPeriods, Types, Execution
  <1>8. Days(7) .. exec.start = {}
    BY <1>1, <1>7
  <1>9. NoMomentInside
    BY <1>5, <1>6 DEF NoMomentInside
  <1>10. MomentsServed /\ ServedAreMoments
    BY <1>1, <1>8 DEF MomentsServed, ServedAreMoments
  <1>11. RareNeverBegins
    <2>1. p = NewPeriod(Blank, schedule, now, TRUE)
      BY DEF p
    <2>2. schedule.daysOfWeek = {} /\ schedule.questionPeriod > 1 => p.end > now + 1
      BY <2>1, <1>1, RarePeriod
    <2>3. QED
      BY <2>2, <1>1, <1>6 DEF RareNeverBegins
  <1>12. QED
    BY <1>9, <1>10, <1>11 DEF Moments

(* The next period begins on a moment if the job missed no hour, and its   *)
(* question makes up for every moment since the last period.               *)
LEMMA BeginsMoments ==
  ASSUME Periods, Moments, Begins
  PROVE  Moments'
  <1> SUFFICES ASSUME schedule.subtype = "recurring" PROVE Moments'
    BY DEF Begins, JobDone, Moments, NoMomentInside, MomentsServed, ServedAreMoments, RareNeverBegins
  <1> DEFINE p == NewPeriod(exec, schedule, now, TRUE)
  <1>1. /\ now \in Nat /\ now \in Int /\ schedule \in Calendar /\ schedule \in Calendars
        /\ now' = now /\ schedule' = schedule /\ ~done /\ done' = TRUE
        /\ served' = served \cup {p.start} /\ exec'.start = p.start /\ exec'.end = p.end
        /\ now >= exec.end /\ exec.start \in Int /\ served \in SUBSET Int
        /\ Days(7) \in Int
    <2>1. Days(7) \in Int
      BY TimeAssumption DEF Days
    <2>2. QED
      BY <2>1, Subtype, ClockAssumption DEF Begins, JobDone, Periods, Types, Execution
  <1>2. /\ p.start \in Int /\ p.end \in Int /\ exec.end <= p.start /\ p.start <= now
        /\ HourOf(p.start) = schedule.sendHour /\ exec.start <= p.start
    BY <1>1, RecurringAdvances DEF Periods
  <1>3. /\ \A m \in Int : p.start < m /\ m < p.end => ~SurveyMoment(schedule, m)
        /\ schedule.daysOfWeek # {} => WeekdayOf(p.end) \in schedule.daysOfWeek
    <2>1. p = NewPeriod(exec, schedule, now, TRUE)
      OBVIOUS
    <2> HIDE DEF p
    <2>2. QED
      BY <2>1, <1>1, PeriodMoments
  <1> HIDE DEF p
  <1>4. exec.end \in Int /\ exec.start < exec.end /\ HourOf(exec.end) = schedule.sendHour
    BY TimeAssumption DEF Periods, RecurringPeriods, Types
  <1>5. MaxMissed[schedule] = 0 => exec.end = now /\ p.start = now
    <2>1. MaxMissed[schedule] = 0 => missed = 0
      BY ClockAssumption DEF Periods, Types
    <2>2. missed = 0 => now <= exec.end
      BY <1>1 DEF Periods, RecurringPeriods
    <2>3. QED
      BY <2>1, <2>2, <1>1, <1>2, <1>4
  <1>6. NoMomentInside'
    BY <1>1, <1>3 DEF NoMomentInside
  <1>7. RareNeverBegins'
    BY <1>1, <1>4 DEF Moments, RareNeverBegins
  <1>8. MaxMissed[schedule] = 0 => SurveyMoment(schedule, p.start)
    <2> SUFFICES ASSUME MaxMissed[schedule] = 0 PROVE SurveyMoment(schedule, p.start)
      OBVIOUS
    <2>1. p.start = exec.end
      BY <1>5
    <2>2. schedule.daysOfWeek # {} => WeekdayOf(p.start) \in schedule.daysOfWeek
      BY <2>1 DEF Moments, NoMomentInside
    <2>3. schedule.daysOfWeek = {} => ~(schedule.questionPeriod > 1)
      BY <1>1, <1>4 DEF Moments, RareNeverBegins
    <2>4. schedule.questionPeriod \in Nat \ {0}
      BY <1>1 DEF Calendar
    <2>5. QED
      BY <2>2, <2>3, <2>4, <1>2 DEF SurveyMoment, HasSurveyDays, Moment
  <1>9. ServedAreMoments'
    BY <1>1, <1>8 DEF Moments, ServedAreMoments
  <1>10. ASSUME NEW m \in Days(7) .. p.start, SurveyMoment(schedule, m)
         PROVE  /\ \E t \in served' : t >= m
                /\ MaxMissed[schedule] = 0 => m \in served'
    <2>1. m \in Int /\ m <= p.start /\ p.start \in served'
      BY <1>1, <1>2
    <2>2. ASSUME MaxMissed[schedule] = 0 PROVE m \in served'
      <3>1. CASE m <= exec.start
        <4>1. m \in Days(7) .. exec.start
          BY <3>1, <1>1, <2>1
        <4>2. QED
          BY <4>1, <2>2, <1>1, <1>10 DEF Moments, MomentsServed
      <3>2. CASE ~(m <= exec.start)
        <4>1. ~(m < exec.end)
          BY <3>2, <2>1, <1>1, <1>4, <1>10 DEF Moments, NoMomentInside
        <4>2. m = p.start
          BY <4>1, <2>1, <2>2, <1>4, <1>5, <1>1, <1>2
        <4>3. QED
          BY <4>2, <2>1
      <3>3. QED
        BY <3>1, <3>2
    <2>3. QED
      BY <2>1, <2>2, <1>2
  <1>11. MomentsServed'
    BY <1>1, <1>10 DEF MomentsServed, Days
  <1>12. QED
    BY <1>6, <1>7, <1>9, <1>11 DEF Moments

(* A refresh moves the period over hours that are no moments.              *)
LEMMA RefreshesMoments ==
  ASSUME Periods, Moments, Refreshes
  PROVE  Moments'
  <1> SUFFICES ASSUME schedule.subtype = "recurring" PROVE Moments'
    BY DEF Refreshes, JobDone, Moments, NoMomentInside, MomentsServed, ServedAreMoments, RareNeverBegins
  <1> DEFINE p == NewPeriod(exec, schedule, now, FALSE)
  <1>1. /\ now \in Int /\ schedule \in Calendar
        /\ now' = now /\ schedule' = schedule /\ done' = TRUE
        /\ served' = served /\ exec' = p
        /\ exec.start \in Int /\ Days(7) \in Int
    <2>1. Days(7) \in Int
      BY TimeAssumption DEF Days
    <2>2. QED
      BY <2>1, Subtype, ClockAssumption DEF Refreshes, JobDone, Periods, Types, Execution
  <1>2. /\ p.start \in Int /\ p.end \in Int /\ p.start <= now
    BY <1>1, RecurringAdvances DEF Periods
  <1>3. /\ \A m \in Int : p.start < m /\ m < p.end => ~SurveyMoment(schedule, m)
        /\ schedule.daysOfWeek # {} => WeekdayOf(p.end) \in schedule.daysOfWeek
        /\ ~p.active
        /\ schedule.daysOfWeek = {} /\ schedule.questionPeriod > 1 => p.end > now + 1
    <2>1. p = NewPeriod(exec, schedule, now, FALSE)
      OBVIOUS
    <2> HIDE DEF p
    <2>2. /\ \A m \in Int : p.start < m /\ m < p.end => ~SurveyMoment(schedule, m)
          /\ schedule.daysOfWeek # {} => WeekdayOf(p.end) \in schedule.daysOfWeek
      BY <2>1, <1>1, PeriodMoments
    <2>3. schedule.daysOfWeek = {} /\ schedule.questionPeriod > 1 => p.end > now + 1
      BY <2>1, <1>1, RarePeriod
    <2>4. ~p.active
      BY <1>1, RefreshesPeriods
    <2>5. QED
      BY <2>2, <2>3, <2>4
  <1> HIDE DEF p
  <1>4. exec.end \in Int /\ now < exec.end
    BY TimeAssumption DEF Refreshes, Lasts, Periods, RecurringPeriods, Types
  <1>5. NoMomentInside'
    BY <1>1, <1>3 DEF NoMomentInside
  <1>6. ServedAreMoments'
    BY <1>1 DEF Moments, ServedAreMoments, SurveyMoment, HasSurveyDays, Moment
  <1>7. RareNeverBegins'
    BY <1>1, <1>3 DEF Moments, RareNeverBegins
  <1>8. ASSUME NEW m \in Days(7) .. p.start, SurveyMoment(schedule, m)
        PROVE  m \in Days(7) .. exec.start
    <2>1. m \in Int /\ m <= p.start /\ m >= Days(7)
      BY <1>1, <1>2
    <2>2. m < exec.end
      BY <2>1, <1>1, <1>2, <1>4
    <2>3. ~(exec.start < m)
      BY <2>1, <2>2, <1>8 DEF Moments, NoMomentInside
    <2>4. QED
      BY <2>1, <2>3, <1>1
  <1>9. MomentsServed'
    BY <1>1, <1>8 DEF Moments, MomentsServed, Days, SurveyMoment, HasSurveyDays, Moment
  <1>10. QED
    BY <1>5, <1>6, <1>7, <1>9 DEF Moments

(* Every step keeps the moments served.                                    *)
LEMMA NextMoments == Periods /\ Moments /\ [Next]_vars => Moments'
  <1> SUFFICES ASSUME Periods, Moments, [Next]_vars PROVE Moments'
    OBVIOUS
  <1> USE DEF Moments, NoMomentInside, MomentsServed, ServedAreMoments, SurveyMoment, HasSurveyDays, Moment, Days
  <1>1. ASSUME exec'.start = exec.start, exec'.end = exec.end, ~exec'.active,
               UNCHANGED <<now, done, schedule, served>>
        PROVE  Moments'
    BY <1>1 DEF RareNeverBegins
  <1>2. CASE EveryHour
    <2>1. Begins \/ Continues \/ Refreshes
      BY <1>2, EveryHourCases DEF Periods
    <2>2. CASE Continues
      <3>1. /\ exec'.start = exec.start /\ exec'.end = exec.end /\ exec.active
            /\ schedule' = schedule /\ served' = served
        BY <2>2 DEF Continues, JobDone
      <3>2. RareNeverBegins'
        BY <3>1 DEF RareNeverBegins
      <3>3. QED
        BY <3>1, <3>2
    <2>3. QED
      BY <2>1, <2>2, BeginsMoments, RefreshesMoments
  <1>3. CASE Answer
    BY <1>1, <1>3, AnswerPeriods DEF Answer
  <1>4. CASE NextHour
    <2>1. RareNeverBegins'
      BY <1>4, TimeAssumption DEF NextHour, RareNeverBegins
    <2>2. QED
      BY <2>1, <1>4 DEF NextHour
  <1>5. CASE MissHour
    <2>1. MaxMissed[schedule] # 0
      BY <1>5, ClockAssumption DEF MissHour, Periods, Types
    <2>2. RareNeverBegins'
      BY <2>1, <1>5 DEF MissHour, RareNeverBegins
    <2>3. QED
      BY <2>2, <1>5 DEF MissHour
  <1>6. CASE UNCHANGED vars
    BY <1>6 DEF vars, RareNeverBegins
  <1>7. QED
    BY <1>2, <1>3, <1>4, <1>5, <1>6 DEF Next

(* Periods follow the survey's days in every behaviour.                    *)
THEOREM MomentsInvariant == Spec => [](Periods /\ Moments)
  <1>1. Init => Periods /\ Moments
    BY InitPeriods, InitMoments
  <1>2. Periods /\ Moments /\ [Next]_vars => (Periods /\ Moments)'
    BY NextPeriods, NextMoments
  <1>3. QED
    BY <1>1, <1>2, PTL DEF Spec

(* When this hour's job is over, no moment lies between the period's start *)
(* and now.                                                                *)
LEMMA NoMomentSinceStart ==
  ASSUME Periods, Moments, HasSurveyDays(schedule), done, missed = 0,
         NEW m \in SurveyMoments(schedule, Days(7), now)
  PROVE  m \in Days(7) .. exec.start /\ SurveyMoment(schedule, m)
  <1> schedule.subtype = "recurring"
    BY DEF HasSurveyDays
  <1>1. now \in Int /\ exec.start \in Int /\ exec.end \in Int /\ now < exec.end
        /\ Days(7) \in Int
    <2>1. Days(7) \in Int
      BY TimeAssumption DEF Days
    <2>2. QED
      BY <2>1, ClockAssumption, TimeAssumption DEF Periods, RecurringPeriods, Types, Execution
  <1>2. m \in Days(7) .. now /\ SurveyMoment(schedule, m)
    BY DEF SurveyMoments, SurveyMoment
  <1>3. m \in Int /\ m < exec.end /\ m >= Days(7)
    BY <1>1, <1>2
  <1>4. ~(exec.start < m)
    BY <1>2, <1>3 DEF Moments, NoMomentInside
  <1>5. QED
    BY <1>1, <1>2, <1>3, <1>4

(* While the hourly job misses no hour, a survey with survey days is sent  *)
(* at its send hour on each of them, and at no other time.                 *)
THEOREM SentOnSurveyDays == Spec => []SentExactlyOnSurveyDays
  <1>1. ASSUME Periods, Moments PROVE SentExactlyOnSurveyDays
    <2> SUFFICES ASSUME HasSurveyDays(schedule), done, now >= Days(7),
                        MaxMissed[schedule] = 0
                 PROVE  {t \in served : t >= Days(7)} = SurveyMoments(schedule, Days(7), now)
      BY DEF SentExactlyOnSurveyDays
    <2> schedule.subtype = "recurring"
      BY DEF HasSurveyDays
    <2>1. /\ missed = 0 /\ now \in Int /\ Days(7) \in Int
          /\ served \in SUBSET Int /\ exec.start \in Int
          /\ exec.start <= now /\ \A t \in served : t <= exec.start
      <3>1. Days(7) \in Int
        BY TimeAssumption DEF Days
      <3>2. QED
        BY <1>1, <3>1, ClockAssumption DEF Periods, RecurringPeriods, Types, Execution
    <2>2. ASSUME NEW t \in served, t >= Days(7)
          PROVE  t \in SurveyMoments(schedule, Days(7), now)
      <3>1. t \in Days(7) .. now
        <4>1. t \in Int /\ t <= exec.start
          BY <2>1
        <4>2. QED
          BY <4>1, <2>1, <2>2
      <3>2. SurveyMoment(schedule, t)
        BY <1>1, <2>2 DEF Moments, ServedAreMoments
      <3>3. QED
        BY <3>1, <3>2 DEF SurveyMoments, SurveyMoment, HasSurveyDays, Moment
    <2>3. ASSUME NEW m \in SurveyMoments(schedule, Days(7), now)
          PROVE  m \in served /\ m >= Days(7)
      <3>1. m \in Days(7) .. exec.start /\ SurveyMoment(schedule, m)
        BY <1>1, <2>1, NoMomentSinceStart
      <3>2. m \in served
        BY <1>1, <3>1 DEF Moments, MomentsServed
      <3>3. QED
        BY <3>1, <3>2, <2>1
    <2>4. QED
      BY <2>2, <2>3
  <1>2. QED
    BY <1>1, MomentsInvariant, PTL

(* A non-empty set of integers with a bound has a greatest element.        *)
LEMMA GreatestElement ==
  ASSUME NEW S \in SUBSET Int, NEW bound \in Int, S # {}, \A x \in S : x <= bound
  PROVE  Max(S) \in S /\ \A y \in S : Max(S) >= y
  <1> DEFINE below == {n \in Nat : bound - n \in S}
             less  == OpToRel(<, Nat)
  <1>1. below # {}
    <2>1. PICK x \in S : x <= bound
      OBVIOUS
    <2>2. bound - x \in Nat /\ bound - (bound - x) = x
      BY <2>1
    <2>3. QED
      BY <2>1, <2>2
  <1>2. IsWellFoundedOn(less, Nat)
    BY NatLessThanWellFounded
  <1>3. \A k, n \in Nat : k < n => <<k, n>> \in less
    BY DEF OpToRel
  <1> HIDE DEF less
  <1>4. PICK n \in below : \A k \in below : ~(<<k, n>> \in less)
    BY <1>1, <1>2, WFMin
  <1>5. ASSUME NEW k \in below PROVE k >= n
    <2>1. k \in Nat /\ n \in Nat
      OBVIOUS
    <2>2. <<k, n>> \notin less
      BY <1>4
    <2>3. ~(k < n)
      BY <2>1, <2>2, <1>3
    <2>4. QED
      BY <2>1, <2>3
  <1>6. ASSUME NEW y \in S PROVE bound - n >= y
    <2>1. bound - y \in Nat /\ bound - (bound - y) = y
      OBVIOUS
    <2>2. bound - y >= n
      BY <2>1, <1>5
    <2>3. QED
      BY <2>1, <2>2
  <1>7. \E x \in S : \A y \in S : x >= y
    BY <1>6
  <1>8. QED
    BY <1>7 DEF Max

(* After an outage the first hourly job makes up for the last survey day   *)
(* that passed.                                                            *)
THEOREM OutageMadeUpFor == Spec => []CatchesUp
  <1>1. ASSUME Periods, Moments PROVE CatchesUp
    <2> DEFINE moments == SurveyMoments(schedule, Days(7), now)
    <2> SUFFICES ASSUME HasSurveyDays(schedule), done, missed = 0, moments # {}
                 PROVE  served # {} /\ Max(served) >= Max(moments)
      BY DEF CatchesUp
    <2> schedule.subtype = "recurring"
      BY DEF HasSurveyDays
    <2>1. /\ now \in Int /\ Days(7) \in Int /\ exec.start \in Int
          /\ served \in SUBSET Int /\ \A t \in served : t <= exec.start
      <3>1. Days(7) \in Int
        BY TimeAssumption DEF Days
      <3>2. QED
        BY <1>1, <3>1, ClockAssumption DEF Periods, RecurringPeriods, Types, Execution
    <2>2. moments \in SUBSET Int /\ \A m \in moments : m <= now
      BY <2>1 DEF SurveyMoments
    <2>3. Max(moments) \in moments
      BY <2>1, <2>2, GreatestElement
    <2>4. PICK t \in served : t >= Max(moments)
      <3>1. Max(moments) \in Days(7) .. exec.start /\ SurveyMoment(schedule, Max(moments))
        BY <1>1, <2>3, NoMomentSinceStart
      <3>2. QED
        BY <1>1, <3>1 DEF Moments, MomentsServed
    <2>5. Max(served) \in served /\ Max(served) >= t
      BY <2>1, GreatestElement
    <2>6. Max(moments) \in Int /\ Max(served) \in Int /\ t \in Int
      BY <2>1, <2>2, <2>3, <2>4, <2>5
    <2>7. Max(served) >= Max(moments)
      BY <2>4, <2>5, <2>6
    <2>8. QED
      BY <2>4, <2>7
  <1>2. QED
    BY <1>1, MomentsInvariant, PTL
===============================================================================
