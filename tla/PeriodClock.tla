---------------------------- MODULE PeriodClock ----------------------------
(***************************************************************************)
(* One user, one schedule whose tree is a single question, and the clock:  *)
(* what the hourly job makes of the schedule's calendar, with answers and  *)
(* missed hours at any time.  The steps of every_hour_core for the one     *)
(* execution (run_schedules, ScheduleExecution.run) make one action here;  *)
(* SurveyEngine has the traversal and several schedules.                   *)
(***************************************************************************)
EXTENDS SurveyTime

CONSTANTS Calendars,   \* the schedules considered, records of schedule fields
          MaxNow,      \* bound on the clock
          MaxMissed,   \* of each calendar: bound on consecutive hours without the job
          Question     \* the only question of the tree

(* No page of the survey builder makes a daily_limit schedule.              *)
ASSUME ClockAssumption ==
    /\ Calendars \subseteq {s \in Calendar : s.subtype # "daily_limit"}
    /\ MaxNow \in Nat /\ MaxNow >= Days(7)
    /\ MaxMissed \in [Calendars -> Nat] /\ Question # None

VARIABLES
    now,        \* the hour
    done,       \* whether the hourly job of this hour is over
    missed,     \* consecutive hours the job missed
    schedule,   \* the Schedule document
    exec,       \* its ScheduleExecution
    served,     \* history: period starts whose question was sent
    asks,       \* history: questions sent afresh
    resent      \* history: resends since then

vars == <<now, done, missed, schedule, exec, served, asks, resent>>

(* The execution is created at any hour of the first week.                 *)
Init ==
    /\ now \in 0..(Days(7) - 1)
    /\ done = TRUE
    /\ missed = 0
    /\ schedule \in Calendars
    /\ exec = MakeExecution(schedule, now)
    /\ served = {}
    /\ asks = 0
    /\ resent = 0

(* run(): an expired execution does nothing, one at the root sends its     *)
(* question, one that waits for an answer sends it again.                  *)
Asked(e) == [e EXCEPT !.state = Question, !.active = TRUE]

SendFresh(e) ==
    /\ exec' = SetPeriod(Asked(e), schedule, now, TRUE)
    /\ served' = served \cup {e.start}
    /\ asks' = asks + 1
    /\ resent' = 0

SendAgain(e) ==
    /\ exec' = SetPeriod(Asked(e), schedule, now, TRUE)
    /\ resent' = resent + 1
    /\ UNCHANGED <<served, asks>>

SendNothing(e) ==
    /\ exec' = SetPeriod(e, schedule, now, TRUE)
    /\ UNCHANGED <<served, asks, resent>>

(* Slip: the resend check comes before the period check.                   *)
EveryHourResendFirst ==
    LET due     == exec.active /\ \E t \in exec.resends : t <= now
        dropped == IF due THEN DropResends(exec, now) ELSE exec
        checked == SetPeriod(dropped, schedule, now, FALSE)
        again   == due /\ exec.state # None
    IN  /\ ~done
        /\ done' = TRUE
        /\ missed' = 0
        /\ \/ again /\ SendAgain([checked EXCEPT !.state = Question])
           \/ ~again /\ StartsPeriod(dropped, schedule, now) /\ SendFresh(checked)
           \/ ~again /\ ~StartsPeriod(dropped, schedule, now) /\ SendNothing(checked)
        /\ UNCHANGED <<now, schedule>>

(* run_schedules: the period check, the resend check, the run of a period  *)
(* that has just started unless the resend already sent something, and the *)
(* refresh of an idle execution.                                           *)
EveryHour ==
    LET checked == SetPeriod(exec, schedule, now, FALSE)
        due     == ResendDue(checked, now)
        kept    == IF due THEN DropResends(checked, now) ELSE checked
        runs    == due \/ StartsPeriod(exec, schedule, now)
    IN  /\ ~done
        /\ done' = TRUE
        /\ missed' = 0
        /\ \/ runs /\ ~Expired(kept, now) /\ kept.state = None /\ SendFresh(kept)
           \/ runs /\ ~Expired(kept, now) /\ kept.state # None /\ SendAgain(kept)
           \/ ~(runs /\ ~Expired(kept, now)) /\ SendNothing(kept)
        /\ UNCHANGED <<now, schedule>>

(* handle_message: the answer ends the one-question survey, unless the     *)
(* period is over and run() refuses to go on.                              *)
Answer ==
    /\ exec.state # None
    /\ ~Expired(exec, now)
    /\ exec' = [exec EXCEPT !.state = None, !.active = FALSE]
    /\ UNCHANGED <<now, done, missed, schedule, served, asks, resent>>

NextHour ==
    /\ done
    /\ now < MaxNow
    /\ now' = now + 1
    /\ done' = FALSE
    /\ UNCHANGED <<missed, schedule, exec, served, asks, resent>>

(* The server is down at this hour, or skips the user.                     *)
MissHour ==
    /\ ~done
    /\ missed < MaxMissed[schedule]
    /\ missed' = missed + 1
    /\ done' = TRUE
    /\ UNCHANGED <<now, schedule, exec, served, asks, resent>>

Next == EveryHour \/ Answer \/ NextHour \/ MissHour

Spec == Init /\ [][Next]_vars
-----------------------------------------------------------------------------
TypeOK ==
    /\ now \in 0..MaxNow
    /\ done \in BOOLEAN
    /\ schedule \in Calendars
    /\ missed \in 0..MaxMissed[schedule]
    /\ exec.start \in Int
    /\ exec.end \in {None} \cup Nat
    /\ exec.resends \subseteq Nat
    /\ exec.active \in BOOLEAN
    /\ exec.state \in {None, Question}
    /\ served \subseteq Int
    /\ asks \in Nat
    /\ resent \in Nat

(* A recurring schedule with days of the week, or with none and a period   *)
(* of one day, has fixed hours at which its question is to be sent, as the *)
(* survey builder words them.  "Every n days" has none: the code never     *)
(* starts its periods (RareNeverBegins of the proofs, and README).         *)
HasSurveyDays(s) == s.subtype = "recurring" /\ (s.daysOfWeek # {} \/ s.questionPeriod = 1)

Moment(s, t) ==
    /\ HourOf(t) = s.sendHour
    /\ s.daysOfWeek # {} => WeekdayOf(t) \in s.daysOfWeek

SurveyMoments(s, from, to) == {t \in from..to : Moment(s, t)}

(* While the hourly job misses no hour, a survey with survey days is sent  *)
(* at its send hour on each of them, and at no other time, whether the     *)
(* user answers or not (set_recurring_period recomputes the period at      *)
(* every idle hour).  It is said from the second week of the clock on.     *)
SentExactlyOnSurveyDays ==
    HasSurveyDays(schedule) /\ done /\ now >= Days(7) /\ MaxMissed[schedule] = 0 =>
        {t \in served : t >= Days(7)} = SurveyMoments(schedule, Days(7), now)

(* No period's question is sent afresh twice, in spite of the hourly       *)
(* refresh, resends and hours made up for (in a state of the right types). *)
OncePerPeriod == TypeOK /\ asks = Cardinality(served)

(* A resend repeats the question of the period that is running: it never   *)
(* takes the place of the next period's question, and never comes first.   *)
ResendWithinPeriod ==
    [][resent' > resent =>
        /\ exec.state # None /\ exec'.start = exec.start /\ exec.start < now
        /\ exec.end # None => now < exec.end]_vars

(* After an outage the first hourly job makes up for the last survey day   *)
(* that passed; the ones before it are lost, and sent only once.           *)
CatchesUp ==
    LET due == SurveyMoments(schedule, Days(7), now)
    IN  HasSurveyDays(schedule) /\ done /\ missed = 0 /\ due # {} =>
            served # {} /\ Max(served) >= Max(due)
=============================================================================
