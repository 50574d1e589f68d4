---------------------------- MODULE SurveyEngine ----------------------------
(***************************************************************************)
(* The conversation with one user: the traversal of survey trees, the      *)
(* hourly job, and what an incoming text does                              *)
(* (backend/features/schedule_features.py, backend/actions/actions.py,     *)
(* backend/incoming/processing.py and what they call).                     *)
(*                                                                         *)
(* The texts of a user and the hourly job take turns, since each holds the *)
(* UserLock (module UserLock) of the phone number.  A handler is a         *)
(* sequence of steps, one per text that may be sent: a send is preceded by *)
(* five seconds of sleep and by the call of Twilio.  The pages of the      *)
(* administrators and the thread that onboards a user take no lock: with   *)
(* Overlap they come between the steps of a handler.  What a page or a     *)
(* handler does before its survey runs is one step; that two of these      *)
(* save copies of the user across one another is in UserDocument.          *)
(***************************************************************************)
EXTENDS SurveyTime, Sequences, SequencesExt

CONSTANTS
    Schedules, Questions, Conditionals,   \* the action nodes of the trees
    Setters, Messages,                    \* the other actions: set_attribute, send_message
    Actions,         \* the actions of each action node, in order
    Config,          \* the fields of each schedule (see SurveyTime)
    Test,            \* of a conditional: [on, values]: what it compares, what it holds for
    Assign,          \* of a setter: [attribute, value]
    Answers,         \* values a parser returns, and values of the custom attribute
    Skip,            \* SKIP_VALUE
    LimitReached,    \* BAD_RESPONSE_LIMIT_REACHED_VALUE
    Repeatable,      \* the questions whose field "resend" is set
    Outcomes,        \* what may come of an attempt to send a text, see below
    Overlap,         \* whether pages and onboarding come between a handler's steps
    ReactivateAllowed, \* the cohort's reactivate_allowed
    InactiveLimit,   \* the cohort's inactive_limit, 0 for none
    ResendLimit,     \* BAD_RESPONSE_RESEND_LIMIT
    StopInterrupted, \* STOP_INTERRUPTED_SCHEDULE_RESENDS
    InitialStatuses, \* statuses the user may be created with
    MaxNow           \* bound on the clock

Nodes == Schedules \cup Questions \cup Conditionals
Statuses == {"active", "paused", "completed", "inactive", "disabled", "pending"}
Kinds == {"hour", "onboard", "reply", "outstanding"}   \* the handlers that run surveys

ASSUME EngineAssumption ==
    /\ None \notin Nodes \cup Answers \cup Statuses \cup Kinds \cup {Skip, LimitReached}
    /\ Skip \notin Answers /\ LimitReached \notin Answers
    /\ Questions \cap (Conditionals \cup Setters \cup Messages) = {}
    /\ Actions \in [Nodes -> Seq(Questions \cup Conditionals \cup Setters \cup Messages)]
    /\ \A c \in Conditionals : Test[c].on \in {"answer", "attribute"} /\ Test[c].values \subseteq Answers
    /\ \A s \in Setters :
           \/ Assign[s].attribute = "status" /\ Assign[s].value \in {"active", "paused", "completed"}
           \/ Assign[s].attribute = "custom" /\ Assign[s].value \in Answers \cup {"answer"}
    /\ Repeatable \subseteq Questions
    /\ Outcomes \subseteq {"sent", "unsent", "blacklisted", "error"}
    /\ InactiveLimit \in Nat /\ ResendLimit \in Nat /\ MaxNow \in Nat
    /\ StopInterrupted \in BOOLEAN /\ Overlap \in BOOLEAN /\ ReactivateAllowed \in BOOLEAN
    /\ Config \in [Schedules -> Calendar]
    /\ InitialStatuses \subseteq {"active", "pending"}

VARIABLES
    now,         \* the hour, in the user's time zone
    polled,      \* whether the hourly job of this hour has come to this user
    user,        \* the User document
    cohortActive,\* whether the cohort's status is active
    execs,       \* the ScheduleExecution document of each schedule
    responses,   \* the Response documents, in the order of original_send_time
    unanswered,  \* texts sent since the last incoming one or status change
    retries,     \* texts sent since the last that is_question
    pc,          \* the step the running handler is at, "idle" when none runs
    job,         \* the local variables of the running handler; its copies are the
                 \* executions as it has them in memory
    agenda,      \* the actions left to do by the do_actions calls under way
    loaded,      \* the copy of the user that run() loaded, None outside it
    other,       \* the same four of a second thread, when one onboards the user
    pages,       \* what pages have begun for this user: "welcome", an onboarding
                 \* thread that sends its welcome messages; "clear", a change of the
                 \* cohort's status that has not yet come to this user; "tell", a
                 \* change of the user's status of which the user is yet to be told
    missed       \* a history: the question of each execution that was reached last,
                 \* if it was not sent and stored

documents == <<user, cohortActive, execs, responses, unanswered, retries, missed>>
aside == <<other, pages>>
vars == <<now, polled, user, cohortActive, execs, responses, unanswered, retries,
          pc, job, agenda, loaded, other, pages, missed>>

NoJob == [kind |-> None, at |-> None, todo |-> {}, started |-> FALSE,
          sent |-> FALSE, resend |-> FALSE, answer |-> None,
          copies |-> [e \in Schedules |-> None]]

NoThread == [pc |-> "idle", job |-> NoJob, agenda |-> <<>>, loaded |-> None]

Init ==
    /\ now = 0
    /\ polled = FALSE
    /\ \E s \in InitialStatuses :
           user = [status |-> s, restore |-> IF s = "pending" THEN None ELSE s,
                   current |-> None, attribute |-> None, onboarded |-> FALSE, midRun |-> FALSE]
    /\ cohortActive = TRUE
    /\ execs = [e \in Schedules |-> MakeExecution(Config[e], 0)]
    /\ responses = <<>>
    /\ unanswered = 0
    /\ retries = ResendLimit
    /\ pc = "idle"
    /\ job = NoJob
    /\ agenda = <<>>
    /\ loaded = None
    /\ other = NoThread
    /\ pages = {}
    /\ missed = [e \in Schedules |-> None]
-----------------------------------------------------------------------------
(***************************************************************************)
(* The tree.  An execution_state is the path to a question: the question   *)
(* stands for it.                                                          *)
(***************************************************************************)
Parent == [n \in Questions \cup Conditionals |->
              CHOOSE p \in Nodes : Contains(Actions[p], n)]

(* Slip: after a resume the skipped actions are done again.                *)
LaterAndEarlier(n) == SelectSeq(Actions[Parent[n]], LAMBDA a : a # n)

Later(n) ==
    LET siblings == Actions[Parent[n]]
        place    == CHOOSE i \in DOMAIN siblings : siblings[i] = n
    IN  SubSeq(siblings, place + 1, Len(siblings))

Items(actions, answer) ==
    [i \in DOMAIN actions |-> [node |-> actions[i], answer |-> answer]]

(* What do_actions still does after node n of a resumed path: the later    *)
(* actions of each node above, without the parser_return.                  *)
After[n \in Nodes] ==
    IF n \in Schedules THEN <<>> ELSE Items(Later(n), None) \o After[Parent[n]]
-----------------------------------------------------------------------------
(***************************************************************************)
(* The user document.                                                      *)
(***************************************************************************)
IsActive == user.status = "active" /\ cohortActive

(* Some handler, or thread of a page, is under way.                        *)
Busy == pc # "idle" \/ other.pc # "idle" \/ "welcome" \in pages

Cleared == [e \in Schedules |-> [execs[e] EXCEPT !.active = FALSE, !.state = None]]

(* User.set_status on a copy of the document: nothing to do for the status *)
(* the copy has.  restore is the latest status of status_log that START    *)
(* goes back to from disabled; midRun, a history, says that a handler was  *)
(* under way when the status was set last.                                 *)
WithStatus(copy, s) ==
    IF s = copy.status THEN copy
    ELSE [copy EXCEPT !.status  = s,
                      !.restore = IF s \in {"disabled", "inactive", "pending"} THEN @ ELSE s,
                      !.current = IF s = "active" THEN @ ELSE None,
                      !.midRun  = Busy]

(* Slip: set_status leaves the executions.                                 *)
ClearedByNothing(copy, s) == execs

ClearedBy(copy, s) == IF s \in {copy.status, "active"} THEN execs ELSE Cleared

CountAfter(copy, s) == IF s = copy.status THEN unanswered ELSE 0

(* ... on a copy just loaded.                                              *)
SetStatus(s) ==
    /\ user' = WithStatus(user, s)
    /\ execs' = ClearedBy(user, s)
    /\ unanswered' = CountAfter(user, s)

(* ... on the copy of the run, all of which is saved.                      *)
Saved(s) == IF s = loaded.status THEN user ELSE WithStatus(loaded, s)

SaveStatus(s) ==
    /\ user' = Saved(s)
    /\ loaded' = WithStatus(loaded, s)
    /\ execs' = ClearedBy(loaded, s)
    /\ unanswered' = CountAfter(loaded, s)

(* Response.retrieve: the position of the response, 0 for none.            *)
Retrieve(q, start) ==
    LET found == {i \in DOMAIN responses : responses[i].question = q /\ responses[i].start = start}
    IN  IF found = {} THEN 0 ELSE Min(found)

CountText == IF unanswered < InactiveLimit THEN unanswered + 1 ELSE unanswered
-----------------------------------------------------------------------------
(***************************************************************************)
(* The calls of ScheduleExecution.run and what follows their return.       *)
(***************************************************************************)
Stop ==
    /\ pc' = "idle"
    /\ job' = NoJob
    /\ agenda' = <<>>
    /\ loaded' = None

(* run() has returned: paused says whether the schedule waits for input,   *)
(* c are the executions in memory.  run_schedules then runs a period that  *)
(* has just started, unless something was sent; handle_message goes on to  *)
(* the outstanding executions; run_outstanding_schedules stops at the      *)
(* first that pauses.                                                      *)
Return(paused, c) ==
    LET sent  == job.sent \/ paused
        later == [job EXCEPT !.sent = sent, !.resend = FALSE, !.copies = c]
    IN  /\ agenda' = <<>>
        /\ loaded' = None
        /\ CASE job.kind = "hour" ->
                    /\ job' = later
                    /\ pc' = IF job.resend /\ job.started /\ ~sent THEN "run" ELSE "refresh"
             [] job.kind = "onboard" -> job' = later /\ pc' = "loop"
             [] job.kind = "reply" ->
                    IF paused \/ StopInterrupted
                    THEN pc' = "idle" /\ job' = NoJob
                    ELSE pc' = "outstanding" /\ job' = NoJob
             [] job.kind = "outstanding" ->
                    IF paused THEN pc' = "idle" /\ job' = NoJob
                              ELSE pc' = "loop" /\ job' = later

(* Slip: a survey that is done stays active.                               *)
EndedStillActive(e, q) == [e EXCEPT !.state = q, !.active = TRUE]

(* The end of run(): the execution is at q, or at the root when q is None. *)
Ended(e, q) == [e EXCEPT !.state = q, !.active = (q # None)]

(* An exception leaves the handler as it is; only                          *)
(* run_on_user_creation_schedules catches it, and goes on.                 *)
Fail ==
    IF job.kind = "onboard"
    THEN pc' = "loop" /\ agenda' = <<>> /\ loaded' = None /\ UNCHANGED job
    ELSE Stop

(* The start of run(): an expired execution, or one of a user who gets no  *)
(* surveys, is left as it is.  Otherwise the survey goes on with the copy  *)
(* of the user it has loaded.                                              *)
BeginRun ==
    /\ pc = "run"
    /\ LET e == job.at
           q == job.copies[e].state
       IN  \/ /\ Expired(job.copies[e], now) \/ ~IsActive
              /\ Return(FALSE, job.copies)
              /\ UNCHANGED user
           \/ /\ ~Expired(job.copies[e], now) /\ IsActive
              /\ user' = [user EXCEPT !.current = e]
              /\ loaded' = user'
              /\ pc' = IF q # None /\ job.resend THEN "resend" ELSE "act"
              /\ agenda' = IF q = None THEN Items(Actions[e], job.answer)
                           ELSE IF job.resend THEN <<>>
                           ELSE Items(Actions[q], job.answer) \o After[q]
              /\ UNCHANGED job
    /\ UNCHANGED <<now, polled, cohortActive, execs, responses, unanswered, retries, aside,
                   missed>>

(* Slip: a survey that is done remains the current one.                    *)
EndRunStillCurrent ==
    /\ pc = "act"
    /\ agenda = <<>>
    /\ execs' = [execs EXCEPT ![job.at] = Ended(@, None)]
    /\ Return(FALSE, [job.copies EXCEPT ![job.at] = Ended(@, None)])
    /\ UNCHANGED <<now, polled, user, cohortActive, responses, unanswered, retries, aside,
                   missed>>

(* The tree is done.                                                       *)
EndRun ==
    /\ pc = "act"
    /\ agenda = <<>>
    /\ execs' = [execs EXCEPT ![job.at] = Ended(@, None)]
    /\ user' = [user EXCEPT !.current = None]
    /\ Return(FALSE, [job.copies EXCEPT ![job.at] = Ended(@, None)])
    /\ UNCHANGED <<now, polled, cohortActive, responses, unanswered, retries, aside, missed>>

(* A question was sent, or should have been: run() pauses at it.           *)
Pause(q, db) ==
    /\ execs' = [db EXCEPT ![job.at] = Ended(@, q)]
    /\ Return(TRUE, [job.copies EXCEPT ![job.at] = Ended(@, q)])
-----------------------------------------------------------------------------
(***************************************************************************)
(* The actions.  An attempt to send a text has one of the outcomes         *)
(*   "sent"         it is sent and stored,                                 *)
(*   "unsent"       nothing is sent or stored: the usage limit is reached, *)
(*                  Twilio rejects the number it comes from, or the        *)
(*                  documents of the text cannot be stored,                *)
(*   "blacklisted"  Twilio says that the user has opted out, or that no    *)
(*                  text reaches the number: twilio_send disables the user *)
(*                  (and saves the copy once more in the second case),     *)
(*   "error"        any other exception of Twilio, which nothing catches.  *)
(***************************************************************************)
Doing(kinds) == pc = "act" /\ agenda # <<>> /\ Head(agenda).node \in kinds

(* set_attribute; another attribute than the status saves the whole copy.  *)
SetAttribute ==
    /\ Doing(Setters)
    /\ LET set    == Assign[Head(agenda).node]
           answer == Head(agenda).answer
       IN  \/ /\ set.value = "answer" /\ answer \in {None, Skip}
              /\ UNCHANGED <<user, loaded, execs, unanswered>>
           \/ /\ set.attribute = "status" /\ set.value # "answer"
              /\ SaveStatus(set.value)
           \/ /\ set.attribute # "status" /\ ~(set.value = "answer" /\ answer \in {None, Skip})
              /\ user' = [loaded EXCEPT !.attribute =
                              IF set.value = "answer" THEN answer ELSE set.value]
              /\ loaded' = user'
              /\ UNCHANGED <<execs, unanswered>>
    /\ agenda' = Tail(agenda)
    /\ UNCHANGED <<now, polled, cohortActive, responses, retries, pc, job, aside, missed>>

(* send_message: a control message, which is not counted among the texts.  *)
SendMessage ==
    /\ Doing(Messages)
    /\ \E outcome \in Outcomes :
           \/ /\ outcome \in {"sent", "unsent"}
              /\ agenda' = Tail(agenda)
              /\ UNCHANGED <<user, loaded, execs, unanswered, pc, job>>
           \/ /\ outcome = "blacklisted"
              /\ SaveStatus("disabled")
              /\ agenda' = Tail(agenda)
              /\ UNCHANGED <<pc, job>>
           \/ /\ outcome = "error"
              /\ Fail
              /\ UNCHANGED <<user, execs, unanswered>>
    /\ UNCHANGED <<now, polled, cohortActive, responses, retries, aside, missed>>

(* conditional: its actions get the parser_return it was given.            *)
TestConditional ==
    /\ Doing(Conditionals)
    /\ LET c      == Head(agenda).node
           answer == Head(agenda).answer
           value  == IF Test[c].on = "answer" THEN answer ELSE loaded.attribute
       IN  agenda' = (IF value \in Test[c].values THEN Items(Actions[c], answer) ELSE <<>>)
                         \o Tail(agenda)
    /\ UNCHANGED <<now, polled, documents, pc, job, loaded, aside>>

(* send_question; the Response is stored for the period of the execution   *)
(* that is the current one of the copy, unless there is one already.       *)
PeriodStart == IF loaded.current = None THEN None ELSE execs[loaded.current].start

Stored(q) == IF Retrieve(q, PeriodStart) # 0 THEN responses
             ELSE Append(responses, [question |-> q, start |-> PeriodStart, answer |-> None])

SendQuestion ==
    /\ Doing(Questions)
    /\ LET q == Head(agenda).node
       IN  \E outcome \in Outcomes :
           \/ /\ outcome = "sent"
              /\ responses' = Stored(q)
              /\ unanswered' = CountText
              /\ retries' = 0
              /\ Pause(q, execs)
              /\ missed' = [missed EXCEPT ![job.at] = None]
              /\ UNCHANGED user
           \/ /\ outcome = "unsent"
              /\ Pause(q, execs)
              /\ missed' = [missed EXCEPT ![job.at] = q]
              /\ UNCHANGED <<user, responses, unanswered, retries>>
           \/ /\ outcome = "blacklisted"
              /\ user' = Saved("disabled")
              /\ unanswered' = CountAfter(loaded, "disabled")
              /\ Pause(q, ClearedBy(loaded, "disabled"))
              /\ missed' = [missed EXCEPT ![job.at] = q]
              /\ UNCHANGED <<responses, retries>>
           \/ /\ outcome = "error"
              /\ Fail
              /\ UNCHANGED <<user, execs, responses, unanswered, retries, missed>>
    /\ UNCHANGED <<now, polled, cohortActive, aside>>

(* send_question at the end of the path with resend set:                   *)
(* non_response_resend_question                                            *)
ResendQuestion ==
    /\ pc = "resend"
    /\ LET q == job.copies[job.at].state
       IN  \E outcome \in Outcomes :
           \/ /\ outcome = "sent"
              /\ unanswered' = CountText
              /\ retries' = 0
              /\ Pause(q, execs)
              /\ UNCHANGED user
           \/ /\ outcome = "unsent"
              /\ Pause(q, execs)
              /\ UNCHANGED <<user, unanswered, retries>>
           \/ /\ outcome = "blacklisted"
              /\ user' = Saved("disabled")
              /\ unanswered' = CountAfter(loaded, "disabled")
              /\ Pause(q, ClearedBy(loaded, "disabled"))
              /\ UNCHANGED <<retries>>
           \/ /\ outcome = "error"
              /\ Fail
              /\ UNCHANGED <<user, execs, unanswered, retries>>
    /\ UNCHANGED <<now, polled, cohortActive, responses, aside, missed>>
-----------------------------------------------------------------------------
(***************************************************************************)
(* The handlers.                                                           *)
(***************************************************************************)
(* No other handler holds the lock.                                        *)
LockFree == other.pc = "idle" \/ other.job.kind = "onboard"

(* A handler starts, with a fresh copy of every execution.                 *)
Job(kind, todo) == [NoJob EXCEPT !.kind = kind, !.todo = todo, !.copies = execs]

(* every_hour_core, for a user Users.active() found: inactive_user, then   *)
(* run_schedules.                                                          *)
EveryHour ==
    /\ pc = "idle" /\ LockFree
    /\ ~polled
    /\ polled' = TRUE
    /\ IsActive
    /\ \/ /\ InactiveLimit > 0 /\ unanswered = InactiveLimit
          /\ SetStatus("inactive")
          /\ UNCHANGED <<pc, job>>
       \/ /\ ~(InactiveLimit > 0 /\ unanswered = InactiveLimit)
          /\ pc' = "loop"
          /\ job' = Job("hour", Schedules)
          /\ UNCHANGED <<user, execs, unanswered>>
    /\ UNCHANGED <<now, cohortActive, responses, retries, agenda, loaded, aside, missed>>

(* run_schedules, the start of one pass of its loop: set_period, and       *)
(* check_resend unless something was sent.                                 *)
VisitPeriod(e) ==
    /\ pc = "loop" /\ job.kind = "hour"
    /\ e \in job.todo
    /\ LET copy     == job.copies[e]
           set      == SetPeriod(copy, Config[e], now, FALSE)
           due      == ~job.sent /\ ResendDue(set, now)
           started  == StartsPeriod(copy, Config[e], now)
           kept(x)  == IF due THEN [x EXCEPT !.resends = DropResends(set, now).resends] ELSE x
           saved    == IF Resets(copy, now, FALSE)
                       THEN NewPeriod(execs[e], Config[e], now, TRUE) ELSE execs[e]
       IN  /\ execs' = [execs EXCEPT ![e] = kept(saved)]
           /\ job' = [job EXCEPT !.at = e, !.todo = @ \ {e}, !.started = started,
                                 !.resend = due, !.copies[e] = kept(set)]
           /\ pc' = IF due \/ (started /\ ~job.sent) THEN "run" ELSE "refresh"
    /\ UNCHANGED <<now, polled, user, cohortActive, responses, unanswered, retries,
                   agenda, loaded, aside, missed>>

(* The end of the pass: set_period(update=True).                           *)
Refresh ==
    /\ pc = "refresh"
    /\ LET e == job.at
       IN  /\ job' = [job EXCEPT !.copies[e] = SetPeriod(@, Config[e], now, TRUE)]
           /\ execs' = [execs EXCEPT ![e] =
                  IF Resets(job.copies[e], now, TRUE) THEN NewPeriod(@, Config[e], now, FALSE) ELSE @]
    /\ pc' = "loop"
    /\ UNCHANGED <<now, polled, user, cohortActive, responses, unanswered, retries,
                   agenda, loaded, aside, missed>>

(* onboard_user: a thread that takes no lock, started from a page or from  *)
(* the text of a user who enables themselves; one at a time here.          *)
OnboardingDue == ~user.onboarded /\ IsActive

StartOnboarding ==
    /\ Overlap
    /\ OnboardingDue /\ "welcome" \notin pages
    /\ job.kind # "onboard" /\ other.job.kind # "onboard"
    /\ pages' = pages \cup {"welcome"}
    /\ UNCHANGED <<now, polled, documents, pc, job, agenda, loaded, other>>

(* _onboard_user_core when the welcome messages are sent, whatever became  *)
(* of the user meanwhile, and run_on_user_creation_schedules.              *)
Onboard ==
    /\ pc = "idle"
    /\ IF Overlap THEN "welcome" \in pages ELSE OnboardingDue
    /\ user' = [user EXCEPT !.onboarded = TRUE]
    /\ pages' = pages \ {"welcome"}
    /\ pc' = "loop"
    /\ job' = Job("onboard", {e \in Schedules : Config[e].subtype = "on_user_creation"})
    /\ UNCHANGED <<now, polled, cohortActive, execs, responses, unanswered, retries,
                   agenda, loaded, other, missed>>

VisitOnCreation(e) ==
    /\ pc = "loop" /\ job.kind = "onboard"
    /\ e \in job.todo
    /\ execs' = [execs EXCEPT ![e].active = TRUE]
    /\ job' = [job EXCEPT !.at = e, !.todo = @ \ {e}, !.copies[e].active = TRUE]
    /\ pc' = IF job.sent THEN "loop" ELSE "run"
    /\ UNCHANGED <<now, polled, user, cohortActive, responses, unanswered, retries,
                   agenda, loaded, aside, missed>>

(* Slip: only executions that wait for an answer are outstanding.          *)
RunOutstandingWaiting ==
    /\ pc = "outstanding"
    /\ pc' = "loop"
    /\ job' = Job("outstanding", {e \in Schedules : execs[e].active /\ execs[e].state # None})
    /\ UNCHANGED <<now, polled, documents, agenda, loaded, aside>>

(* run_outstanding_schedules                                               *)
RunOutstanding ==
    /\ pc = "outstanding"
    /\ pc' = "loop"
    /\ job' = Job("outstanding", {e \in Schedules : execs[e].active})
    /\ UNCHANGED <<now, polled, documents, agenda, loaded, aside>>

VisitOutstanding(e) ==
    /\ pc = "loop" /\ job.kind = "outstanding"
    /\ e \in job.todo
    /\ job' = [job EXCEPT !.at = e, !.todo = @ \ {e}, !.resend = TRUE]
    /\ pc' = "run"
    /\ UNCHANGED <<now, polled, documents, agenda, loaded, aside>>

EndLoop ==
    /\ pc = "loop"
    /\ job.todo = {}
    /\ Stop
    /\ UNCHANGED <<now, polled, documents, aside>>

(* The scheduler goes on with the other thread, or has room for it.        *)
Switch ==
    /\ Overlap
    /\ \/ other.pc # "idle"
       \/ pc # "idle" /\ ("welcome" \in pages \/ job.kind = "onboard")
    /\ other' = [pc |-> pc, job |-> job, agenda |-> agenda, loaded |-> loaded]
    /\ pc' = other.pc /\ job' = other.job /\ agenda' = other.agenda /\ loaded' = other.loaded
    /\ UNCHANGED <<now, polled, documents, pages>>
-----------------------------------------------------------------------------
(***************************************************************************)
(* Incoming texts (on_receive_core).                                       *)
(***************************************************************************)
(* A stop word: control_message_handler disables the user.                 *)
TextStop ==
    /\ pc = "idle" /\ LockFree
    /\ SetStatus("disabled")
    /\ UNCHANGED <<now, polled, cohortActive, responses, retries, pc, job, agenda,
                   loaded, aside, missed>>

(* Slip: START makes everyone active.                                      *)
TextStartActivates ==
    /\ pc = "idle" /\ LockFree
    /\ user.status \in {"inactive", "pending", "disabled"}
    /\ SetStatus("active")
    /\ UNCHANGED <<now, polled, cohortActive, responses, retries, pc, job, agenda,
                   loaded, aside, missed>>

(* A start word, where control_message_handler acts on it (the cohort is   *)
(* enableable_from_sms).  A user disabled while pending has no status to   *)
(* go back to, and the handler raises.                                     *)
TextStart ==
    /\ pc = "idle" /\ LockFree
    /\ \/ user.status \in {"inactive", "pending"} /\ SetStatus("active")
       \/ user.status = "disabled" /\ user.restore # None /\ SetStatus(user.restore)
       \/ /\ user.status = "disabled" /\ user.restore = None
          /\ UNCHANGED <<user, execs, unanswered>>
    /\ UNCHANGED <<now, polled, cohortActive, responses, retries, pc, job, agenda,
                   loaded, aside, missed>>

(* Any other text that no execution waits for; the text of an inactive     *)
(* user reactivates it, where the cohort allows that (reactivate_user),    *)
(* and is unsolicited all the same.                                        *)
TextUnsolicited ==
    /\ pc = "idle" /\ LockFree
    /\ user.current = None \/ ~IsActive
    /\ IF user.status = "inactive" /\ ReactivateAllowed THEN SetStatus("active")
       ELSE unanswered' = 0 /\ UNCHANGED <<user, execs>>
    /\ UNCHANGED <<now, polled, cohortActive, responses, retries, pc, job, agenda,
                   loaded, aside, missed>>

(* handle_message, for a text that answers the question of the current     *)
(* execution.  a is what parse_text made of it: None for what the parser   *)
(* does not understand.                                                    *)
Asked == execs[user.current].state
AskedResponse == Retrieve(Asked, execs[user.current].start)
Solicited == IsActive /\ user.current # None
Answerable == Asked # None /\ AskedResponse # 0

CanResend == retries < ResendLimit

(* Slip: handle_message runs the execution as for a resend.                *)
GoOnResending(a) ==
    /\ pc' = "run"
    /\ job' = [Job("reply", {}) EXCEPT !.at = user.current, !.answer = a, !.resend = TRUE]

GoOn(a) ==
    /\ pc' = "run"
    /\ job' = [Job("reply", {}) EXCEPT !.at = user.current, !.answer = a]

TextAnswer(a) ==
    /\ pc = "idle" /\ LockFree
    /\ Solicited /\ Answerable
    /\ a # None
    /\ responses' = [responses EXCEPT ![AskedResponse].answer = a]
    /\ unanswered' = 0
    /\ GoOn(a)
    /\ UNCHANGED <<now, polled, user, cohortActive, execs, retries, agenda, loaded, aside,
                   missed>>

(* invalid_response_handler: the question is sent again, or given up.      *)
TextInvalid ==
    /\ pc = "idle" /\ LockFree
    /\ Solicited /\ Answerable
    /\ \/ /\ Asked \in Repeatable /\ CanResend
          /\ \E outcome \in Outcomes :
                 \/ /\ outcome = "sent"
                    /\ retries' = retries + 1
                    /\ unanswered' = IF InactiveLimit = 0 THEN 0 ELSE 1
                    /\ UNCHANGED <<user, execs>>
                 \/ /\ outcome \in {"unsent", "error"}
                    /\ unanswered' = 0
                    /\ UNCHANGED <<user, execs, retries>>
                 \/ /\ outcome = "blacklisted"
                    /\ SetStatus("disabled")
                    /\ UNCHANGED retries
          /\ UNCHANGED <<responses, pc, job>>
       \/ /\ Asked \in Repeatable /\ ~CanResend
          /\ responses' = [responses EXCEPT ![AskedResponse].answer = LimitReached]
          /\ unanswered' = 0
          /\ GoOn(None)
          /\ UNCHANGED <<user, execs, retries>>
       \/ /\ Asked \notin Repeatable
          /\ unanswered' = 0
          /\ GoOn(None)
          /\ UNCHANGED <<user, execs, responses, retries>>
    /\ UNCHANGED <<now, polled, cohortActive, agenda, loaded, aside, missed>>

(* The two "Unexpected" exceptions of handle_message: the current          *)
(* execution has no question, or the question no response.                 *)
TextUnexpected ==
    /\ pc = "idle" /\ LockFree
    /\ Solicited /\ ~Answerable
    /\ unanswered' = 0
    /\ UNCHANGED <<now, polled, user, cohortActive, execs, responses, retries, pc, job,
                   agenda, loaded, aside, missed>>
-----------------------------------------------------------------------------
(* change_cohort_status: the cohort, and at its turn in the loop this user *)
(* (clear_executions).                                                     *)
ChangeCohortStatus ==
    /\ Overlap \/ pc = "idle"
    /\ cohortActive' = ~cohortActive
    /\ IF Overlap
       THEN pages' = pages \cup {"clear"} /\ UNCHANGED <<user, execs>>
       ELSE execs' = Cleared /\ user' = [user EXCEPT !.current = None] /\ UNCHANGED pages
    /\ UNCHANGED <<now, polled, responses, unanswered, retries, pc, job, agenda, loaded,
                   other, missed>>

ClearExecutions ==
    /\ "clear" \in pages
    /\ pages' = pages \ {"clear"}
    /\ execs' = Cleared
    /\ user' = [user EXCEPT !.current = None]
    /\ UNCHANGED <<now, polled, cohortActive, responses, unanswered, retries, pc, job,
                   agenda, loaded, other, missed>>

(* set_user_attribute with the attribute "status", whatever the status is  *)
(* (that it is deleted is in UserDocument); one at a time here.            *)
SetUserStatus(s) ==
    /\ IF Overlap THEN "tell" \notin pages /\ pages' = pages \cup {"tell"}
       ELSE pc = "idle" /\ UNCHANGED pages
    /\ SetStatus(s)
    /\ UNCHANGED <<now, polled, cohortActive, responses, retries, pc, job, agenda,
                   loaded, other, missed>>

(* ... and send_status_message, unless it comes back blacklisted.          *)
SendStatusMessage ==
    /\ "tell" \in pages
    /\ pages' = pages \ {"tell"}
    /\ UNCHANGED <<now, polled, documents, pc, job, agenda, loaded, other>>

(* A text of the administrator, or a notice of the system, comes back      *)
(* blacklisted at any time (send_control_message).                         *)
NoticeBlacklisted ==
    /\ Overlap \/ pc = "idle"
    /\ "blacklisted" \in Outcomes
    /\ SetStatus("disabled")
    /\ UNCHANGED <<now, polled, cohortActive, responses, retries, pc, job, agenda,
                   loaded, aside, missed>>

(* Handlers and pages take less than an hour; the hourly job may have      *)
(* missed one.                                                             *)
NextHour ==
    /\ pc = "idle" /\ ~Busy /\ pages = {}
    /\ now < MaxNow
    /\ now' = now + 1
    /\ polled' = FALSE
    /\ UNCHANGED <<documents, pc, job, agenda, loaded, aside>>

Run == BeginRun \/ EndRun \/ SetAttribute \/ SendMessage \/ TestConditional
           \/ SendQuestion \/ ResendQuestion

Hourly == EveryHour \/ Refresh \/ \E e \in Schedules : VisitPeriod(e)

Onboarding == StartOnboarding \/ Onboard \/ \E e \in Schedules : VisitOnCreation(e)

Outstanding == RunOutstanding \/ \E e \in Schedules : VisitOutstanding(e)

Text == \/ TextStop \/ TextStart \/ TextUnsolicited \/ TextInvalid \/ TextUnexpected
        \/ \E a \in Answers \cup {Skip} : TextAnswer(a)

Admin == \/ ChangeCohortStatus \/ ClearExecutions \/ SendStatusMessage
         \/ \E s \in {"active", "paused", "completed"} : SetUserStatus(s)

Next == Run \/ Hourly \/ Onboarding \/ Outstanding \/ EndLoop \/ Switch \/ Text \/ Admin
            \/ NoticeBlacklisted \/ NextHour

Spec == Init /\ [][Next]_vars
-----------------------------------------------------------------------------
Values == Answers \cup {None}
Parsed == Answers \cup {Skip, None}

UserType ==
    [status : Statuses, restore : {"active", "paused", "completed", None},
     current : Schedules \cup {None}, attribute : Values, onboarded : BOOLEAN,
     midRun : BOOLEAN]

JobType ==
    [kind : Kinds \cup {None}, at : Schedules \cup {None},
     todo : SUBSET Schedules, started : BOOLEAN, sent : BOOLEAN, resend : BOOLEAN,
     answer : Parsed,
     copies : [Schedules -> Execution(Questions)] \cup {NoJob.copies}]

ThreadTypes(t) ==
    /\ t.pc \in {"idle", "loop", "run", "act", "resend", "refresh", "outstanding"}
    /\ t.job \in JobType
    /\ (t.pc \in {"idle", "outstanding"}) <=> (t.job.kind = None)
    /\ t.agenda # <<>> => t.pc = "act"
    /\ IF t.pc \in {"act", "resend"} THEN t.loaded \in UserType ELSE t.loaded = None

TypeOK ==
    /\ now \in 0..MaxNow
    /\ polled \in BOOLEAN
    /\ user \in UserType
    /\ cohortActive \in BOOLEAN
    /\ \A e \in Schedules :
           /\ execs[e].start \in Int /\ execs[e].end \in Int \cup {None}
           /\ execs[e].active \in BOOLEAN /\ execs[e].state \in Questions \cup {None}
    /\ \A i \in DOMAIN responses :
           /\ responses[i].question \in Questions
           /\ responses[i].start \in Int \cup {None}
           /\ responses[i].answer \in Parsed \cup {LimitReached}
    /\ unanswered \in 0..InactiveLimit
    /\ retries \in 0..ResendLimit
    /\ ThreadTypes([pc |-> pc, job |-> job, agenda |-> agenda, loaded |-> loaded])
    /\ ThreadTypes(other)
    /\ pages \subseteq {"welcome", "clear", "tell"}
    /\ \A e \in Schedules : missed[e] \in Questions \cup {None}

Idle == ~Busy
Live(e) == execs[e].active /\ ~Expired(execs[e], now)

(* handle_message raises "Unexpected" on a user whose current execution    *)
(* has no question, or whose question has no Response, and the text of the *)
(* user is dropped (processing.py:49,74).  Where no exception ends a run   *)
(* and no page comes between its steps, that happens only to a user whose  *)
(* survey was stored as waiting for a question that was not sent and       *)
(* stored: from then on each text is dropped, resends included.            *)
EveryReplyIsExpected ==
    Idle /\ Solicited => Asked # None /\ (Answerable \/ Asked = missed[user.current])

(* A question is never sent afresh twice for one period of one execution,  *)
(* over interrupts, pauses, opt-outs and resends: Response.store warns of  *)
(* "Response object was found when none should exist" (responses.py:33).   *)
(* (The state has its types.)                                              *)
NoQuestionAskedTwice ==
    TypeOK /\ (Doing(Questions) => Retrieve(Head(agenda).node, PeriodStart) = 0)

(* "remove executions if user is not active" (users.py:156): no text of a  *)
(* user who is not active answers a survey, whatever took the status away  *)
(* and in the middle of whatever run; and between handlers no execution    *)
(* may resume, unless a handler or an onboarding thread was under way when *)
(* the status was set (a run then stores what it came to, and onboarding   *)
(* makes its surveys active all the same).                                 *)
NonActiveHasNoExecutions ==
    user.status # "active" =>
        /\ user.current = None
        /\ Idle /\ ~user.midRun => \A e \in Schedules : ~execs[e].active

(* A survey that was interrupted, or never got its turn, is never left     *)
(* over: when nothing is asked of an active user, no running execution     *)
(* waits (run_schedules leaves them to run_outstanding_schedules).         *)
NothingOutstandingWhenFree ==
    Idle /\ IsActive /\ user.current = None => \A e \in Schedules : ~Live(e)

(* An answer stands: a later text overwrites the answer of a question only *)
(* when its execution has expired, in the hours the hourly job missed.     *)
AnswersStand ==
    [][\A i \in DOMAIN responses :
           responses[i].answer # None /\ responses'[i].answer # responses[i].answer
               => Expired(execs[user.current], now)]_vars

(* The nodes of the subtree of n in the order in which they are reached.   *)
Preorder[n \in Nodes] ==
    FoldLeft(LAMBDA order, a : order \o (IF a \in Nodes THEN Preorder[a] ELSE <<a>>),
             <<n>>, Actions[n])

Precedes(e, p, q) ==
    \E i, j \in DOMAIN Preorder[e] : i < j /\ Preorder[e][i] = p /\ Preorder[e][j] = q

(* The trees are trees, which Preorder and After go through in order: an   *)
(* action comes after its node and after what its earlier siblings hold,   *)
(* has one place in one tree, and a resume goes on with what follows it.   *)
Below(a) == IF a \in Nodes THEN Range(Preorder[a]) ELSE {a}

TreesInOrder ==
    /\ \A n \in Nodes :
           /\ Preorder[n] \in Seq(Nodes \cup Setters \cup Messages) /\ IsInjective(Preorder[n])
           /\ n \in Range(Preorder[n])
           /\ \A i \in DOMAIN Actions[n] : Below(Actions[n][i]) \subseteq Range(Preorder[n])
    /\ \A e, f \in Schedules : Range(Preorder[e]) \cap Range(Preorder[f]) # {} => e = f
    /\ \A e \in Schedules :
           /\ After[e] = <<>>
           /\ \A n \in Range(Preorder[e]) \cap Nodes :
                  /\ \A i, j \in DOMAIN Actions[n] : \A p \in Below(Actions[n][i]), q \in Below(Actions[n][j]) :
                         Precedes(e, n, p) /\ (i < j => Precedes(e, p, q))
                  /\ n \notin Schedules =>
                         /\ Parent[n] \in Range(Preorder[e]) \cap Nodes /\ Contains(Actions[Parent[n]], n)
                         /\ After[n] = Items(Later(n), None) \o After[Parent[n]]

(* Within a period a survey moves forward through its tree: no resume,     *)
(* resend or interrupt takes it back to a question already passed.         *)
SurveyMovesForward ==
    [][\A e \in Schedules :
           LET p == execs[e].state
               q == execs'[e].state
           IN  p # q /\ p # None /\ q # None /\ execs[e].start = execs'[e].start
                   => Precedes(e, p, q)]_vars

(* Opting out and in again does not lift a pause: START takes a disabled   *)
(* user back to the status before (response_handlers.py:41-51), so that a  *)
(* user who was paused last becomes active by the page of an administrator *)
(* alone ("can only be reactivated by an administrator", docs.html:531) or *)
(* by a survey under way.  The docs say of START itself that the status of *)
(* who is disabled "will change to Active" (docs.html:1812): not of this   *)
(* user.                                                                   *)
OptOutKeepsPause ==
    [][user.restore = "paused" /\ user'.status = "active"
           => SetUserStatus("active") \/ Doing(Setters)]_vars

(* An interrupted or postponed survey that does not expire is taken up in  *)
(* the end, or given up by a change of status, as long as the user goes on *)
(* answering (run_outstanding_schedules).                                  *)
InterruptedSurveyResumes ==
    \A e \in Schedules :
        (Idle /\ IsActive /\ execs[e].active /\ execs[e].end = None)
            ~> (~execs[e].active \/ user.current = e)

(* A running handler goes on (its thread is scheduled, its sleeps end, and *)
(* Twilio's calls return); nothing else is fair, but for a user assumed to *)
(* answer every question.  (Of two threads, one that goes on is enough for *)
(* FairSpec: liveness is asked without Overlap.)                           *)
FairSpec == Spec /\ WF_vars(Run \/ Hourly \/ Onboarding \/ Outstanding \/ EndLoop)
AnsweringSpec == FairSpec /\ WF_vars(\E a \in Answers : TextAnswer(a))
=============================================================================
