-------------------------- MODULE SurveyEngineProofs --------------------------
(***************************************************************************)
(* Proofs about SurveyEngine, for every set of survey trees and calendars, *)
(* every bound on the clock and on answers, and any outcomes of a send.    *)
(*                                                                         *)
(* StatusInvariant holds whatever pages and onboarding threads come        *)
(* between the steps of a handler.  The rest is of a handler that has the  *)
(* user to itself (~Overlap), where the copy of the user it works on is    *)
(* the document (OneThread) and each step is one of TurnNext, the same     *)
(* steps read from the document (OneThreadStep).  Types hold of all of     *)
(* them.  That every reply is expected (Replies) and nothing is left over  *)
(* (Freedom) holds where no exception ends a run and no run changes the    *)
(* status (RunsComplete; texts may go unsent), the latter of surveys that  *)
(* ask (EverySurveyAsks).  That surveys move forward (Forward) holds of    *)
(* all users, once the functions over the trees are what they are of trees *)
(* (TreesInOrder).  With it, and if no run changes the user's status       *)
(* (RunsKeepStatus), no question is asked twice (Once), and answers stand  *)
(* unless an exception ends a run (Pending).                               *)
(***************************************************************************)
EXTENDS SurveyEngine, SurveyTimeProofs, WellFoundedInduction

(* The copies of the executions, and what START may go back to.            *)
Copies == [Schedules -> Execution(Questions)]
Restorable == {"active", "paused", "completed", None}

(* A User document; of its attribute any value.                            *)
Document ==
    [status : Statuses, restore : Restorable, current : Schedules \cup {None},
     attribute : {user.attribute}, onboarded : BOOLEAN, midRun : BOOLEAN]

(* The local variables of a handler.                                       *)
Local ==
    [kind : Kinds \cup {None}, at : Schedules \cup {None}, todo : SUBSET Schedules,
     started : BOOLEAN, sent : BOOLEAN, resend : BOOLEAN, answer : Parsed,
     copies : Copies \cup {NoJob.copies}]

(* A handler at one execution, and a handler in its loop or at one.        *)
Running == pc \in {"run", "act", "resend", "refresh"}
Working == pc = "loop" \/ Running

(* A Response document, the types of the documents, and those of the       *)
(* running handler.                                                        *)
Response == [question : Questions, start : Int \cup {None}, answer : Parsed \cup {LimitReached}]

DocumentTypes ==
    /\ now \in Nat
    /\ user \in Document
    /\ cohortActive \in BOOLEAN
    /\ execs \in Copies
    /\ responses \in Seq(Response)

JobTypes ==
    /\ pc \in {"idle", "outstanding", "loop", "run", "act", "resend", "refresh"}
    /\ job \in Local
    /\ Working => job.kind \in Kinds /\ job.copies \in Copies
    /\ Running => job.at \in Schedules /\ job.at \notin job.todo
    /\ pc = "refresh" => job.kind = "hour"
    /\ pc = "resend" => job.copies[job.at].state \in Questions

(* The types; that the agenda holds actions is not among them, since what  *)
(* After does at a resume is recursion over the trees.                     *)
Types == DocumentTypes /\ JobTypes
-----------------------------------------------------------------------------
(***************************************************************************)
(* Without Overlap one handler, page or thread goes on at a time, and the  *)
(* copy a run works on is the user as stored.  These are the steps that    *)
(* read or save the copy, or that wait, in that case; the others are those *)
(* of SurveyEngine.  TurnNext is what Next then comes to (OneThreadStep).  *)
(***************************************************************************)
TurnSetAttribute ==
    /\ Doing(Setters)
    /\ LET set    == Assign[Head(agenda).node]
           answer == Head(agenda).answer
       IN  \/ /\ set.value = "answer" /\ answer \in {None, Skip}
              /\ UNCHANGED <<user, execs, unanswered>>
           \/ /\ set.attribute = "status" /\ set.value # "answer"
              /\ SetStatus(set.value)
           \/ /\ set.attribute # "status" /\ ~(set.value = "answer" /\ answer \in {None, Skip})
              /\ user' = [user EXCEPT !.attribute =
                              IF set.value = "answer" THEN answer ELSE set.value]
              /\ UNCHANGED <<execs, unanswered>>
    /\ agenda' = Tail(agenda)
    /\ UNCHANGED <<now, polled, cohortActive, responses, retries, pc, job, missed>>

TurnSendMessage ==
    /\ Doing(Messages)
    /\ \E outcome \in Outcomes :
           \/ /\ outcome \in {"sent", "unsent"}
              /\ agenda' = Tail(agenda)
              /\ UNCHANGED <<user, execs, unanswered, pc, job>>
           \/ /\ outcome = "blacklisted"
              /\ SetStatus("disabled")
              /\ agenda' = Tail(agenda)
              /\ UNCHANGED <<pc, job>>
           \/ /\ outcome = "error"
              /\ Fail
              /\ UNCHANGED <<user, execs, unanswered>>
    /\ UNCHANGED <<now, polled, cohortActive, responses, retries, missed>>

TurnPeriodStart == IF user.current = None THEN None ELSE execs[user.current].start

TurnStored(q) ==
    IF Retrieve(q, TurnPeriodStart) # 0 THEN responses
    ELSE Append(responses, [question |-> q, start |-> TurnPeriodStart, answer |-> None])

TurnSendQuestion ==
    /\ Doing(Questions)
    /\ LET q == Head(agenda).node
       IN  \E outcome \in Outcomes :
           \/ /\ outcome = "sent"
              /\ responses' = TurnStored(q)
              /\ unanswered' = CountText
              /\ retries' = 0
              /\ Pause(q, execs)
              /\ missed' = [missed EXCEPT ![job.at] = None]
              /\ UNCHANGED user
           \/ /\ outcome = "unsent"
              /\ Pause(q, execs)
              /\ missed' = [missed EXCEPT ![job.at] = q]
              /\ UNCHANGED <<user, responses, unanswered, retries>>
           \/ /\ outcome = "blacklisted"
              /\ user' = WithStatus(user, "disabled")
              /\ unanswered' = CountAfter(user, "disabled")
              /\ Pause(q, ClearedBy(user, "disabled"))
              /\ missed' = [missed EXCEPT ![job.at] = q]
              /\ UNCHANGED <<responses, retries>>
           \/ /\ outcome = "error"
              /\ Fail
              /\ UNCHANGED <<user, execs, responses, unanswered, retries, missed>>
    /\ UNCHANGED <<now, polled, cohortActive>>

TurnResendQuestion ==
    /\ pc = "resend"
    /\ LET q == job.copies[job.at].state
       IN  \E outcome \in Outcomes :
           \/ /\ outcome = "sent"
              /\ unanswered' = CountText
              /\ retries' = 0
              /\ Pause(q, execs)
              /\ UNCHANGED user
           \/ /\ outcome = "unsent"
              /\ Pause(q, execs)
              /\ UNCHANGED <<user, unanswered, retries>>
           \/ /\ outcome = "blacklisted"
              /\ user' = WithStatus(user, "disabled")
              /\ unanswered' = CountAfter(user, "disabled")
              /\ Pause(q, ClearedBy(user, "disabled"))
              /\ UNCHANGED <<retries>>
           \/ /\ outcome = "error"
              /\ Fail
              /\ UNCHANGED <<user, execs, unanswered, retries>>
    /\ UNCHANGED <<now, polled, cohortActive, responses, missed>>

TurnOnboard ==
    /\ pc = "idle"
    /\ ~user.onboarded /\ IsActive
    /\ user' = [user EXCEPT !.onboarded = TRUE]
    /\ pc' = "loop"
    /\ job' = Job("onboard", {e \in Schedules : Config[e].subtype = "on_user_creation"})
    /\ UNCHANGED <<now, polled, cohortActive, execs, responses, unanswered, retries,
                   agenda, missed>>

TurnChangeCohortStatus ==
    /\ pc = "idle"
    /\ cohortActive' = ~cohortActive
    /\ execs' = Cleared
    /\ user' = [user EXCEPT !.current = None]
    /\ UNCHANGED <<now, polled, responses, unanswered, retries, pc, job, agenda, missed>>

TurnSetUserStatus(s) ==
    /\ pc = "idle"
    /\ SetStatus(s)
    /\ UNCHANGED <<now, polled, cohortActive, responses, retries, pc, job, agenda, missed>>

TurnNoticeBlacklisted ==
    /\ pc = "idle"
    /\ "blacklisted" \in Outcomes
    /\ SetStatus("disabled")
    /\ UNCHANGED <<now, polled, cohortActive, responses, retries, pc, job, agenda, missed>>

TurnRun == BeginRun \/ EndRun \/ TurnSetAttribute \/ TurnSendMessage \/ TestConditional
               \/ TurnSendQuestion \/ TurnResendQuestion

TurnOnboarding == TurnOnboard \/ \E e \in Schedules : VisitOnCreation(e)

TurnAdmin ==
    TurnChangeCohortStatus \/ \E s \in {"active", "paused", "completed"} : TurnSetUserStatus(s)

TurnNext == TurnRun \/ Hourly \/ TurnOnboarding \/ Outstanding \/ EndLoop \/ Text \/ TurnAdmin
                \/ TurnNoticeBlacklisted \/ NextHour
-----------------------------------------------------------------------------
(* The least of a set of naturals is in it (by well-founded induction).    *)
LEMMA LeastIsMember ==
    ASSUME NEW T, T \subseteq Nat, T # {}
    PROVE  Min(T) \in T /\ \A y \in T : Min(T) <= y
<1>. DEFINE L == OpToRel(<, Nat)
<1>1. IsWellFoundedOn(L, Nat)
  BY NatLessThanWellFounded, Zenon
<1>2. \A x, y \in Nat : x < y => <<x, y>> \in L
  BY DEF OpToRel
<1>. HIDE DEF L
<1>3. PICK x \in T : \A y \in T : <<y, x>> \notin L
  BY <1>1, WFMin
<1>4. \A y \in T : x <= y
  <2>1. \A y \in T : y \in Nat /\ x \in Nat
    OBVIOUS
  <2>2. \A y \in T : ~(y < x)
    BY <1>2, <1>3, <2>1
  <2>. QED
    BY <2>1, <2>2
<1>. QED
  BY <1>4 DEF Min
-----------------------------------------------------------------------------
(* None is no schedule, question or hour.                                  *)
LEMMA NoneApart == None \notin Schedules /\ None \notin Questions /\ None \notin Int
  BY EngineAssumption, TimeAssumption DEF Nodes

(* set_period keeps an execution an execution.                             *)
LEMMA SetPeriodType ==
    ASSUME now \in Nat, NEW e \in Schedules, NEW x \in Execution(Questions), NEW update \in BOOLEAN
    PROVE  SetPeriod(x, Config[e], now, update) \in Execution(Questions)
<1>1. Config[e] \in Calendar
  BY EngineAssumption
<1>2. NewPeriod(x, Config[e], now, ~update) \in Execution(Questions)
  BY <1>1, NewPeriodType
<1>. QED
  BY <1>2 DEF SetPeriod

(* A new period is one of an execution.                                    *)
LEMMA NewPeriodOf ==
    ASSUME now \in Nat, NEW e \in Schedules, NEW x \in Execution(Questions), NEW active \in BOOLEAN
    PROVE  NewPeriod(x, Config[e], now, active) \in Execution(Questions)
  BY NewPeriodType, EngineAssumption

(* What the end of run() changes of an execution.                          *)
LEMMA EndedType ==
    ASSUME NEW x \in Execution(Questions), NEW q \in Questions \cup {None}
    PROVE  Ended(x, q) \in Execution(Questions) /\ Ended(x, q).state = q /\ Ended(x, q).start = x.start
             /\ Ended(x, q).end = x.end /\ (Ended(x, q).active <=> q # None)
  BY DEF Ended, Execution

(* What a change of status or cohort leaves of the executions.             *)
LEMMA ClearedType ==
    ASSUME execs \in Copies
    PROVE  /\ Cleared \in Copies
           /\ \A e \in Schedules : ~Cleared[e].active /\ Cleared[e].state = None
                                   /\ Cleared[e].end = execs[e].end
  BY Zenon DEF Copies, Execution, Cleared

(* The user after set_status.                                              *)
LEMMA StatusSetType ==
    ASSUME user \in Document, NEW s \in Statuses
    PROVE  LET u == WithStatus(user, s)
           IN  /\ u \in Document /\ u.attribute = user.attribute
               /\ u.status = s
               /\ s = user.status => u = user
               /\ s # user.status =>
                      /\ u.restore = IF s \in {"disabled", "inactive", "pending"} THEN user.restore ELSE s
                      /\ u.current = IF s = "active" THEN user.current ELSE None
                      /\ u.midRun = Busy
<1>1. CASE s = user.status
  BY <1>1 DEF WithStatus, Document
<1>2. CASE s # user.status
  <2>. DEFINE u == [user EXCEPT !.status  = s,
                      !.restore = IF s \in {"disabled", "inactive", "pending"} THEN @ ELSE s,
                      !.current = IF s = "active" THEN @ ELSE None,
                      !.midRun  = Busy]
  <2>1. WithStatus(user, s) = u
    BY <1>2 DEF WithStatus
  <2>2. s \notin {"disabled", "inactive", "pending"} => s \in Restorable
    BY DEF Statuses, Restorable
  <2>3. Busy \in BOOLEAN
    BY DEF Busy
  <2>4. u \in Document /\ u.attribute = user.attribute /\ u.status = s
    BY <2>2, <2>3 DEF Document
  <2>5. /\ u.restore = IF s \in {"disabled", "inactive", "pending"} THEN user.restore ELSE s
        /\ u.current = IF s = "active" THEN user.current ELSE None
        /\ u.midRun = Busy
    BY DEF Document
  <2>. QED
    BY <1>2, <2>1, <2>4, <2>5
<1>. QED
  BY <1>1, <1>2

(* What a change of status does to user and executions.                    *)
LEMMA SetStatusStep ==
    ASSUME Types, NEW s \in Statuses, SetStatus(s)
    PROVE  /\ user' = WithStatus(user, s) /\ user' \in Document' /\ user'.status = s
           /\ execs' \in Copies
           /\ s # "active" /\ s # user.status => execs' = Cleared
           /\ s = "active" \/ s = user.status => execs' = execs
<1>1. WithStatus(user, s) \in Document /\ WithStatus(user, s).attribute = user.attribute /\ WithStatus(user, s).status = s
  BY StatusSetType DEF Types, DocumentTypes, JobTypes
<1>2. user' = WithStatus(user, s) /\ execs' = ClearedBy(user, s)
  BY DEF SetStatus
<1>3. user' \in Document'
  BY <1>1, <1>2 DEF Document
<1>. QED
  BY <1>1, <1>2, <1>3, ClearedType DEF ClearedBy, Types, DocumentTypes, JobTypes

(* Where a handler goes on when run() has returned, and with what.         *)
LEMMA ReturnTypes ==
    ASSUME job \in Local, job.kind \in Kinds, job.at \in Schedules, job.at \notin job.todo,
           NEW c \in Copies, NEW paused \in BOOLEAN, Return(paused, c)
    PROVE  /\ job' \in Local
           /\ pc' \in {"idle", "outstanding", "loop", "run", "refresh"}
           /\ pc' \in {"loop", "run", "refresh"} =>
                  job' = [job EXCEPT !.sent = job.sent \/ paused, !.resend = FALSE, !.copies = c]
           /\ pc' = "refresh" => job.kind = "hour"
           /\ pc' = "run" => job.kind = "hour" /\ job.started /\ ~(job.sent \/ paused)
           /\ pc' \in {"idle", "outstanding"} => job' = NoJob
           /\ pc' = "outstanding" => ~paused
<1>. DEFINE later == [job EXCEPT !.sent = job.sent \/ paused, !.resend = FALSE, !.copies = c]
<1>1. later \in Local
  BY DEF Local
<1>2. NoJob \in Local
  BY DEF NoJob, Local, Parsed
<1>. HIDE DEF later
<1>3. \/ job.kind = "hour" /\ job' = later
         /\ pc' = IF job.resend /\ job.started /\ ~(job.sent \/ paused) THEN "run" ELSE "refresh"
      \/ job.kind = "onboard" /\ job' = later /\ pc' = "loop"
      \/ job.kind \in {"reply", "outstanding"} /\ paused /\ pc' = "idle" /\ job' = NoJob
      \/ job.kind = "reply" /\ ~paused /\ pc' \in {"idle", "outstanding"} /\ job' = NoJob
      \/ job.kind = "outstanding" /\ ~paused /\ job' = later /\ pc' = "loop"
  BY DEF Return, Kinds, later
<1>. QED
  BY <1>1, <1>2, <1>3 DEF later

(* ... and its types.                                                      *)
LEMMA ReturnedTypes ==
    ASSUME job \in Local, job.kind \in Kinds, job.at \in Schedules, job.at \notin job.todo,
           NEW c \in Copies, NEW paused \in BOOLEAN, Return(paused, c)
    PROVE  JobTypes'
<1>0. pc' \in {"loop", "run", "refresh"} =>
          job' = [job EXCEPT !.sent = job.sent \/ paused, !.resend = FALSE, !.copies = c]
  BY ReturnTypes, Zenon
<1>1. pc' \in {"loop", "run", "refresh"} =>
          /\ job'.kind = job.kind /\ job'.at = job.at /\ job'.todo = job.todo /\ job'.copies = c
  BY <1>0 DEF Local
<1>2. pc' \in {"idle", "outstanding", "loop", "run", "refresh"} /\ job' \in Local
      /\ (pc' = "refresh" => job.kind = "hour")
  BY ReturnTypes, Zenon
<1>. QED
  BY <1>1, <1>2 DEF JobTypes, Running, Working

(* When nothing runs, or nothing any more, the local variables are void.   *)
LEMMA StopTypes == Stop => pc' = "idle" /\ job' \in Local
<1>1. NoJob \in Local
  BY DEF NoJob, Local, Parsed
<1>. QED
  BY <1>1 DEF Stop

(* The local variables of a handler that starts.                           *)
LEMMA NewJob ==
    ASSUME execs \in Copies, NEW kind \in Kinds, NEW todo \in SUBSET Schedules
    PROVE  LET j == Job(kind, todo)
           IN  /\ j \in Local
               /\ j.kind = kind /\ j.at = None /\ j.todo = todo /\ ~j.sent /\ ~j.started /\ ~j.resend
               /\ j.answer = None /\ j.copies = execs
<1>1. NoJob \in Local
  BY DEF NoJob, Local, Parsed
<1>2. NoJob.at = None /\ ~NoJob.sent /\ ~NoJob.started /\ ~NoJob.resend /\ NoJob.answer = None
  BY DEF NoJob
<1>. QED
  BY <1>1, <1>2, Zenon DEF Job, Local

(* The types over the steps of a run.                                      *)
LEMMA BeginRunTypes == ASSUME Types, BeginRun PROVE Types'
<1>1. job \in Local /\ job.kind \in Kinds /\ job.at \in Schedules /\ job.at \notin job.todo
      /\ job.copies \in Copies
  BY Zenon DEF Types, DocumentTypes, JobTypes, BeginRun, Running, Working
<1>2. CASE Return(FALSE, job.copies) /\ UNCHANGED user
  <2>1. UNCHANGED <<now, user, cohortActive, execs, responses>>
    BY <1>2, Zenon DEF BeginRun
  <2>2. DocumentTypes'
    BY <2>1 DEF Types, DocumentTypes, Document
  <2>3. JobTypes'
    BY <1>1, <1>2, ReturnedTypes
  <2>. QED
    BY <2>2, <2>3 DEF Types
<1>3. CASE /\ user' = [user EXCEPT !.current = job.at]
           /\ pc' = IF job.copies[job.at].state # None /\ job.resend THEN "resend" ELSE "act"
           /\ UNCHANGED job
  <2>1. UNCHANGED <<now, cohortActive, execs, responses>>
    BY Zenon DEF BeginRun
  <2>2. user' \in Document'
    BY <1>1, <1>3 DEF Types, DocumentTypes, JobTypes, Document
  <2>3. pc' = "resend" => job.copies[job.at].state \in Questions
    BY <1>1, <1>3 DEF Copies, Execution
  <2>. QED
    BY <1>1, <1>3, <2>1, <2>2, <2>3 DEF Types, DocumentTypes, JobTypes, Running, Working
<1>. QED
  BY <1>2, <1>3, Zenon DEF BeginRun

(* The tree is done.                                                       *)
LEMMA EndRunTypes == ASSUME Types, EndRun PROVE Types'
<1>1. job \in Local /\ job.kind \in Kinds /\ job.at \in Schedules /\ job.at \notin job.todo
      /\ job.copies \in Copies
  BY DEF Types, DocumentTypes, JobTypes, EndRun, Running, Working
<1>2. [job.copies EXCEPT ![job.at] = Ended(@, None)] \in Copies /\ execs' \in Copies
  BY <1>1, EndedType DEF EndRun, Copies, Types, DocumentTypes, JobTypes
<1>3. UNCHANGED <<now, cohortActive, responses>>
      /\ Return(FALSE, [job.copies EXCEPT ![job.at] = Ended(@, None)])
  BY DEF EndRun
<1>4. user' \in Document'
  BY DEF EndRun, Types, DocumentTypes, JobTypes, Document
<1>5. DocumentTypes'
  BY <1>2, <1>3, <1>4 DEF Types, DocumentTypes
<1>6. JobTypes'
  BY <1>1, <1>2, <1>3, ReturnedTypes
<1>. QED
  BY <1>5, <1>6 DEF Types

(* A run that pauses.                                                      *)
LEMMA PauseTypes ==
    ASSUME Types, Running, NEW q \in Questions, NEW db \in Copies, Pause(q, db)
    PROVE  /\ execs' = [db EXCEPT ![job.at] = Ended(@, q)] /\ execs' \in Copies
           /\ JobTypes' /\ pc' \in {"idle", "loop", "refresh"}
           /\ pc' \in {"loop", "refresh"} =>
                  /\ job'.kind = job.kind /\ job'.at = job.at /\ job'.todo = job.todo /\ job'.sent
                  /\ job'.copies = [job.copies EXCEPT ![job.at] = Ended(@, q)]
           /\ pc' = "idle" => job' = NoJob
<1>1. job \in Local /\ job.kind \in Kinds /\ job.at \in Schedules /\ job.at \notin job.todo
      /\ job.copies \in Copies
  BY DEF Types, JobTypes, Working
<1>. DEFINE c == [job.copies EXCEPT ![job.at] = Ended(@, q)]
<1>2. c \in Copies /\ [db EXCEPT ![job.at] = Ended(@, q)] \in Copies
  BY <1>1, EndedType DEF Copies
<1>3. Return(TRUE, c) /\ execs' = [db EXCEPT ![job.at] = Ended(@, q)]
  BY DEF Pause
<1>. HIDE DEF c
<1>4. JobTypes'
  BY <1>1, <1>2, <1>3, ReturnedTypes
<1>5. /\ pc' \in {"idle", "outstanding", "loop", "run", "refresh"}
      /\ pc' \in {"loop", "run", "refresh"} =>
                  job' = [job EXCEPT !.sent = job.sent \/ TRUE, !.resend = FALSE, !.copies = c]
      /\ pc' = "run" => ~(job.sent \/ TRUE)
      /\ pc' \in {"idle", "outstanding"} => job' = NoJob
      /\ pc' = "outstanding" => ~TRUE
  BY <1>1, <1>2, <1>3, ReturnTypes, Zenon
<1>6. pc' \in {"loop", "refresh"} =>
          /\ job'.kind = job.kind /\ job'.at = job.at /\ job'.todo = job.todo /\ job'.sent
          /\ job'.copies = c
  BY <1>1, <1>5 DEF Local
<1>. QED
  BY <1>2, <1>3, <1>4, <1>5, <1>6 DEF c

(* An exception ends the handler, or the run in the onboarding.            *)
LEMMA FailTypes ==
    ASSUME Types, Running, Fail
    PROVE  /\ JobTypes'
           /\ pc' = "idle" \/ (pc' = "loop" /\ job' = job)
<1>1. pc' = "idle" \/ (pc' = "loop" /\ job' = job)
  BY StopTypes DEF Fail
<1>2. job \in Local /\ job' \in Local /\ job.kind \in Kinds /\ job.copies \in Copies
  BY <1>1, StopTypes DEF Types, JobTypes, Working, Fail
<1>. QED
  BY <1>1, <1>2 DEF JobTypes, Running, Working

(* set_attribute, of a status or of the custom attribute.                  *)
LEMMA SetAttributeTypes == ASSUME Types, TurnSetAttribute PROVE Types'
<1>1. UNCHANGED <<now, cohortActive, responses, pc, job>>
  BY DEF TurnSetAttribute
<1>2. user' \in Document' /\ execs' \in Copies
  <2>. DEFINE set    == Assign[Head(agenda).node]
              answer == Head(agenda).answer
  <2>1. CASE UNCHANGED <<user, execs>>
    BY <2>1 DEF Types, DocumentTypes, JobTypes, Document
  <2>2. CASE set.attribute = "status" /\ set.value # "answer" /\ SetStatus(set.value)
    <3>1. Head(agenda).node \in Setters
      BY DEF TurnSetAttribute, Doing
    <3>2. set.value \in Statuses
      BY <2>2, <3>1, EngineAssumption DEF Statuses
    <3>. QED
      BY <2>2, <3>2, SetStatusStep
  <2>3. CASE \E v : user' = [user EXCEPT !.attribute = v] /\ UNCHANGED execs
    BY <2>3 DEF Types, DocumentTypes, JobTypes, Document
  <2>. QED
    BY <2>1, <2>2, <2>3 DEF TurnSetAttribute
<1>. QED
  BY <1>1, <1>2 DEF Types, DocumentTypes, JobTypes, Running, Working

(* send_message, whatever comes of it.                                     *)
LEMMA SendMessageTypes == ASSUME Types, TurnSendMessage PROVE Types'
<1>1. UNCHANGED <<now, cohortActive, responses>> /\ Running
  BY DEF TurnSendMessage, Doing, Running
<1>2. user' \in Document' /\ execs' \in Copies
  BY SetStatusStep DEF TurnSendMessage, Types, DocumentTypes, JobTypes, Document, Statuses
<1>3. JobTypes'
  <2>1. CASE UNCHANGED <<pc, job>>
    BY <2>1 DEF Types, JobTypes, Running, Working
  <2>2. CASE Fail
    BY <1>1, <2>2, FailTypes
  <2>. QED
    BY <2>1, <2>2 DEF TurnSendMessage
<1>. QED
  BY <1>1, <1>2, <1>3 DEF Types, DocumentTypes

(* conditional changes the agenda only.                                    *)
LEMMA TestConditionalTypes == ASSUME Types, TestConditional PROVE Types'
  BY DEF TestConditional, Types, DocumentTypes, JobTypes, Running, Working, Document, documents

(* The period a Response is stored for.                                    *)
LEMMA PeriodStartType == Types => TurnPeriodStart \in Int \cup {None}
  BY DEF Types, DocumentTypes, JobTypes, TurnPeriodStart, Copies, Execution, Document

(* The responses after a question was sent.                                *)
LEMMA StoredType == ASSUME Types, NEW q \in Questions PROVE TurnStored(q) \in Seq(Response)
<1>1. [question |-> q, start |-> TurnPeriodStart, answer |-> None] \in Response
  BY PeriodStartType DEF Response, Parsed
<1>. QED
  BY <1>1 DEF TurnStored, Types, DocumentTypes, JobTypes

(* send_question, whatever comes of it.                                    *)
LEMMA SendQuestionTypes == ASSUME Types, TurnSendQuestion PROVE Types'
<1>1. UNCHANGED <<now, cohortActive>> /\ Running /\ Head(agenda).node \in Questions
  BY DEF TurnSendQuestion, Doing, Running
<1>2. user' \in Document' /\ responses' \in Seq(Response)
  BY <1>1, StatusSetType, StoredType DEF TurnSendQuestion, Types, DocumentTypes, JobTypes, Document, Statuses
<1>3. \/ Pause(Head(agenda).node, execs)
      \/ Pause(Head(agenda).node, ClearedBy(user, "disabled"))
      \/ Fail /\ UNCHANGED execs
  BY DEF TurnSendQuestion
<1>4. execs \in Copies /\ ClearedBy(user, "disabled") \in Copies
  BY ClearedType DEF ClearedBy, Types, DocumentTypes, JobTypes
<1>5. execs' \in Copies /\ JobTypes'
  BY <1>1, <1>3, <1>4, PauseTypes, FailTypes DEF Types, DocumentTypes
<1>6. DocumentTypes'
  BY <1>1, <1>2, <1>5 DEF Types, DocumentTypes
<1>. QED
  BY <1>5, <1>6 DEF Types

(* ... and its resend.                                                     *)
LEMMA ResendQuestionTypes == ASSUME Types, TurnResendQuestion PROVE Types'
<1>1. UNCHANGED <<now, cohortActive, responses>> /\ Running /\ job.copies[job.at].state \in Questions
  BY DEF TurnResendQuestion, Running, Types, DocumentTypes, JobTypes
<1>2. user' \in Document'
  BY <1>1, StatusSetType DEF TurnResendQuestion, Types, DocumentTypes, JobTypes, Document, Statuses
<1>3. \/ Pause(job.copies[job.at].state, execs)
      \/ Pause(job.copies[job.at].state, ClearedBy(user, "disabled"))
      \/ Fail /\ UNCHANGED execs
  BY DEF TurnResendQuestion
<1>4. execs \in Copies /\ ClearedBy(user, "disabled") \in Copies
  BY ClearedType DEF ClearedBy, Types, DocumentTypes, JobTypes
<1>5. execs' \in Copies /\ JobTypes'
  BY <1>1, <1>3, <1>4, PauseTypes, FailTypes DEF Types, DocumentTypes
<1>6. DocumentTypes'
  BY <1>1, <1>2, <1>5 DEF Types, DocumentTypes
<1>. QED
  BY <1>5, <1>6 DEF Types

(* The types over the steps of the hourly job.                             *)
LEMMA EveryHourTypes == ASSUME Types, EveryHour PROVE Types'
<1>1. UNCHANGED <<now, cohortActive, responses>>
  BY DEF EveryHour
<1>2. CASE SetStatus("inactive") /\ UNCHANGED <<pc, job>>
  BY <1>1, <1>2, SetStatusStep DEF Types, DocumentTypes, JobTypes, Running, Working, Statuses
<1>3. CASE pc' = "loop" /\ job' = Job("hour", Schedules) /\ UNCHANGED <<user, execs>>
  <2>1. /\ job' \in Local /\ job'.kind \in Kinds /\ job'.copies \in Copies
    BY <1>3, NewJob DEF Types, DocumentTypes, Kinds
  <2>. QED
    BY <1>1, <1>3, <2>1 DEF Types, DocumentTypes, JobTypes, Running, Working, Document
<1>. QED
  BY <1>2, <1>3 DEF EveryHour

(* What run_schedules finds for execution e, in its copy.                  *)
PeriodSet(e) == SetPeriod(job.copies[e], Config[e], now, FALSE)
IsDue(e)     == ~job.sent /\ ResendDue(PeriodSet(e), now)
Starts(e)    == StartsPeriod(job.copies[e], Config[e], now)

(* The start of a pass, field by field: what the database gets is what the *)
(* copy gets, if they agreed.                                              *)
LEMMA VisitPeriodStep ==
    ASSUME Types, NEW e \in Schedules, VisitPeriod(e)
    PROVE  /\ UNCHANGED <<now, user, cohortActive, responses>>
           /\ pc = "loop" /\ job.kind = "hour" /\ e \in job.todo
           /\ pc' = IF IsDue(e) \/ (Starts(e) /\ ~job.sent) THEN "run" ELSE "refresh"
           /\ job' \in Local
           /\ job'.kind = "hour" /\ job'.at = e /\ job'.todo = job.todo \ {e} /\ job'.sent = job.sent
           /\ job'.resend = IsDue(e) /\ job'.started = Starts(e)
           /\ PeriodSet(e) \in Execution(Questions)
           /\ \E kept \in Execution(Questions), saved \in Execution(Questions) :
                  /\ kept.start = PeriodSet(e).start /\ kept.end = PeriodSet(e).end
                  /\ kept.active = PeriodSet(e).active /\ kept.state = PeriodSet(e).state
                  /\ job'.copies = [job.copies EXCEPT ![e] = kept]
                  /\ execs' = [execs EXCEPT ![e] = saved]
                  /\ job.copies[e] = execs[e] => saved = kept
<1>. DEFINE copy     == job.copies[e]
            set      == SetPeriod(copy, Config[e], now, FALSE)
            due      == ~job.sent /\ ResendDue(set, now)
            started  == StartsPeriod(copy, Config[e], now)
            kept(x)  == IF due THEN [x EXCEPT !.resends = DropResends(set, now).resends] ELSE x
            saved    == IF Resets(copy, now, FALSE)
                        THEN NewPeriod(execs[e], Config[e], now, TRUE) ELSE execs[e]
<1>1. /\ execs' = [execs EXCEPT ![e] = kept(saved)]
      /\ job' = [job EXCEPT !.at = e, !.todo = @ \ {e}, !.started = started,
                                 !.resend = due, !.copies[e] = kept(set)]
      /\ pc' = IF due \/ (started /\ ~job.sent) THEN "run" ELSE "refresh"
      /\ UNCHANGED <<now, user, cohortActive, responses>>
      /\ pc = "loop" /\ job.kind = "hour" /\ e \in job.todo
  BY DEF VisitPeriod
<1>2. /\ now \in Nat /\ job \in Local /\ job.copies \in Copies /\ execs \in Copies
  BY <1>1 DEF Types, DocumentTypes, JobTypes, Working
<1>3. copy \in Execution(Questions) /\ execs[e] \in Execution(Questions)
  BY <1>2 DEF Copies
<1>4. set \in Execution(Questions)
  BY <1>2, <1>3, SetPeriodType
<1>5. saved \in Execution(Questions)
  BY <1>2, <1>3, NewPeriodOf
<1>6. copy = execs[e] => saved = set
  BY DEF SetPeriod
<1>7. due \in BOOLEAN /\ started \in BOOLEAN
  BY DEF StartsPeriod, ResendDue
<1>. HIDE DEF copy, set, due, started, saved
<1>8. ASSUME NEW x \in Execution(Questions)
      PROVE  /\ kept(x) \in Execution(Questions)
             /\ kept(x).start = x.start /\ kept(x).end = x.end
             /\ kept(x).active = x.active /\ kept(x).state = x.state
  <2>1. DropResends(set, now).resends \in SUBSET Int
    BY <1>4 DEF DropResends, Execution
  <2>. QED
    BY <2>1 DEF Execution
<1>9. /\ job' \in Local
      /\ job'.kind = "hour" /\ job'.at = e /\ job'.todo = job.todo \ {e} /\ job'.sent = job.sent
      /\ job'.resend = due /\ job'.started = started
      /\ job'.copies = [job.copies EXCEPT ![e] = kept(set)]
  <2>1. kept(set) \in Execution(Questions)
    BY <1>4, <1>8
  <2>. HIDE DEF kept
  <2>2. [job.copies EXCEPT ![e] = kept(set)] \in Copies
    BY <1>2, <2>1 DEF Copies
  <2>. QED
    BY <1>1, <1>2, <1>7, <2>2 DEF Local
<1>10. kept(set) \in Execution(Questions) /\ kept(saved) \in Execution(Questions)
  BY <1>4, <1>5, <1>8
<1>11. copy = execs[e] => kept(saved) = kept(set)
  BY <1>6
<1>12. /\ kept(set).start = set.start /\ kept(set).end = set.end
       /\ kept(set).active = set.active /\ kept(set).state = set.state
  BY <1>4, <1>8
<1>. HIDE DEF kept
<1>. QED
  BY <1>1, <1>4, <1>9, <1>10, <1>11, <1>12 DEF copy, set, due, started, PeriodSet, IsDue, Starts

(* ... and its types.                                                      *)
LEMMA VisitPeriodTypes == ASSUME Types, NEW e \in Schedules, VisitPeriod(e) PROVE Types'
<1>1. /\ UNCHANGED <<now, user, cohortActive, responses>>
      /\ pc' \in {"run", "refresh"} /\ job' \in Local
      /\ job'.kind = "hour" /\ job'.at = e /\ job'.todo = job.todo \ {e}
  BY VisitPeriodStep, Zenon
<1>0. \E kept \in Execution(Questions), saved \in Execution(Questions) :
          /\ job'.copies = [job.copies EXCEPT ![e] = kept]
          /\ execs' = [execs EXCEPT ![e] = saved]
  <2>1. PICK kept \in Execution(Questions), saved \in Execution(Questions) :
            /\ kept.start = PeriodSet(e).start /\ kept.end = PeriodSet(e).end
            /\ kept.active = PeriodSet(e).active /\ kept.state = PeriodSet(e).state
            /\ job'.copies = [job.copies EXCEPT ![e] = kept]
            /\ execs' = [execs EXCEPT ![e] = saved]
            /\ job.copies[e] = execs[e] => saved = kept
    BY VisitPeriodStep, Zenon
  <2>. QED
    BY <2>1, Zenon
<1>2. job.copies \in Copies /\ execs \in Copies
  <2>1. pc = "loop"
    BY DEF VisitPeriod
  <2>. QED
    BY <2>1 DEF Types, DocumentTypes, JobTypes, Working
<1>3. job'.copies \in Copies /\ execs' \in Copies
  BY <1>0, <1>2 DEF Copies
<1>4. DocumentTypes'
  BY <1>1, <1>3 DEF Types, DocumentTypes, Document
<1>5. JobTypes'
  BY <1>1, <1>3 DEF JobTypes, Running, Working, Kinds
<1>. QED
  BY <1>4, <1>5 DEF Types

(* The end of a pass, in the same way.                                     *)
LEMMA RefreshStep ==
    ASSUME Types, Refresh
    PROVE  /\ UNCHANGED <<now, user, cohortActive, responses>>
           /\ pc = "refresh" /\ pc' = "loop" /\ job' \in Local
           /\ job.at \in Schedules /\ job.kind = "hour"
           /\ job'.kind = job.kind /\ job'.at = job.at /\ job'.todo = job.todo /\ job'.sent = job.sent
           /\ \E kept \in Execution(Questions), saved \in Execution(Questions) :
                  /\ job'.copies = [job.copies EXCEPT ![job.at] = kept]
                  /\ execs' = [execs EXCEPT ![job.at] = saved]
                  /\ job.copies[job.at] = execs[job.at] => saved = kept
                  /\ saved = execs[job.at] \/ saved = NewPeriod(execs[job.at], Config[job.at], now, FALSE)
                  /\ job.copies[job.at].active => saved = execs[job.at]
<1>. DEFINE e == job.at
            kept == SetPeriod(job.copies[e], Config[e], now, TRUE)
            saved == IF Resets(job.copies[e], now, TRUE) THEN NewPeriod(execs[e], Config[e], now, FALSE)
                        ELSE execs[e]
<1>1. /\ UNCHANGED <<now, user, cohortActive, responses>>
      /\ pc = "refresh" /\ pc' = "loop"
      /\ job' = [job EXCEPT !.copies[e] = kept]
      /\ execs' = [execs EXCEPT ![e] = saved]
  BY DEF Refresh
<1>2. /\ now \in Nat /\ job \in Local /\ job.copies \in Copies /\ execs \in Copies /\ e \in Schedules
      /\ job.kind = "hour"
  BY <1>1 DEF Types, DocumentTypes, JobTypes, Working, Running
<1>3. job.copies[e] \in Execution(Questions) /\ execs[e] \in Execution(Questions)
  BY <1>2 DEF Copies
<1>4. kept \in Execution(Questions)
  BY <1>2, <1>3, SetPeriodType
<1>5. saved \in Execution(Questions)
  BY <1>2, <1>3, NewPeriodOf
<1>6. job.copies[e] = execs[e] => saved = kept
  BY DEF SetPeriod
<1>7. /\ saved = execs[e] \/ saved = NewPeriod(execs[e], Config[e], now, FALSE)
      /\ job.copies[e].active => saved = execs[e]
  BY DEF Resets
<1>. HIDE DEF kept, saved, e
<1>8. job' = [job EXCEPT !.copies = [job.copies EXCEPT ![e] = kept]]
  BY <1>1
<1>9. [job.copies EXCEPT ![e] = kept] \in Copies
  BY <1>2, <1>4 DEF Copies
<1>10. /\ job' \in Local
       /\ job'.kind = job.kind /\ job'.at = job.at /\ job'.todo = job.todo /\ job'.sent = job.sent
       /\ job'.copies = [job.copies EXCEPT ![e] = kept]
  BY <1>2, <1>8, <1>9 DEF Local
<1>. QED
  BY <1>1, <1>2, <1>4, <1>5, <1>6, <1>7, <1>10 DEF e

(* ... and its types.                                                      *)
LEMMA RefreshTypes == ASSUME Types, Refresh PROVE Types'
<1>1. /\ UNCHANGED <<now, user, cohortActive, responses>>
      /\ pc' = "loop" /\ job' \in Local /\ job.at \in Schedules /\ job'.kind = "hour"
      /\ \E kept \in Execution(Questions), saved \in Execution(Questions) :
             /\ job'.copies = [job.copies EXCEPT ![job.at] = kept]
             /\ execs' = [execs EXCEPT ![job.at] = saved]
  BY RefreshStep
<1>2. job.copies \in Copies /\ execs \in Copies
  BY DEF Types, DocumentTypes, JobTypes, Working, Running, Refresh
<1>3. job'.copies \in Copies /\ execs' \in Copies
  BY <1>1, <1>2 DEF Copies
<1>4. DocumentTypes'
  BY <1>1, <1>3 DEF Types, DocumentTypes, Document
<1>5. JobTypes'
  BY <1>1, <1>3 DEF JobTypes, Running, Working, Kinds
<1>. QED
  BY <1>4, <1>5 DEF Types

(* The types over the onboarding.                                          *)
LEMMA OnboardTypes == ASSUME Types, TurnOnboard PROVE Types'
<1>. DEFINE todo == {e \in Schedules : Config[e].subtype = "on_user_creation"}
<1>1. job' = Job("onboard", todo) /\ todo \in SUBSET Schedules /\ pc' = "loop" /\ "onboard" \in Kinds
  BY DEF TurnOnboard, Kinds
<1>2. UNCHANGED <<now, cohortActive, execs, responses>> /\ user' = [user EXCEPT !.onboarded = TRUE]
  BY DEF TurnOnboard
<1>. HIDE DEF todo
<1>3. job' \in Local /\ job'.kind = "onboard" /\ job'.copies = execs
  BY <1>1, NewJob DEF Types, DocumentTypes
<1>4. DocumentTypes'
  BY <1>2 DEF Types, DocumentTypes, Document
<1>5. JobTypes'
  BY <1>1, <1>3 DEF Types, DocumentTypes, JobTypes, Running, Working
<1>. QED
  BY <1>4, <1>5 DEF Types

(* The visit of a schedule for new users, field by field.                  *)
LEMMA VisitOnCreationStep ==
    ASSUME Types, NEW e \in Schedules, VisitOnCreation(e)
    PROVE  /\ UNCHANGED <<now, user, cohortActive, responses>>
           /\ pc = "loop" /\ pc' = (IF job.sent THEN "loop" ELSE "run") /\ job' \in Local
           /\ e \in job.todo /\ job.kind = "onboard"
           /\ job'.kind = job.kind /\ job'.at = e /\ job'.todo = job.todo \ {e} /\ job'.sent = job.sent
           /\ job'.copies = [job.copies EXCEPT ![e] = [job.copies[e] EXCEPT !.active = TRUE]]
           /\ execs' = [execs EXCEPT ![e] = [execs[e] EXCEPT !.active = TRUE]]
           /\ job'.copies \in Copies /\ execs' \in Copies
<1>. DEFINE c == [job.copies EXCEPT ![e] = [job.copies[e] EXCEPT !.active = TRUE]]
<1>1. /\ UNCHANGED <<now, user, cohortActive, responses>>
      /\ pc = "loop" /\ pc' = (IF job.sent THEN "loop" ELSE "run") /\ e \in job.todo /\ job.kind = "onboard"
      /\ job' = [job EXCEPT !.at = e, !.todo = @ \ {e}, !.copies = c]
      /\ execs' = [execs EXCEPT ![e] = [execs[e] EXCEPT !.active = TRUE]]
  BY DEF VisitOnCreation
<1>2. job \in Local /\ job.copies \in Copies /\ execs \in Copies
  BY <1>1 DEF Types, DocumentTypes, JobTypes, Working
<1>3. c \in Copies /\ [execs EXCEPT ![e] = [execs[e] EXCEPT !.active = TRUE]] \in Copies
  BY <1>2, Zenon DEF Copies, Execution
<1>. HIDE DEF c
<1>4. /\ job' \in Local
      /\ job'.kind = job.kind /\ job'.at = e /\ job'.todo = job.todo \ {e} /\ job'.sent = job.sent
      /\ job'.copies = c
  BY <1>1, <1>2, <1>3 DEF Local
<1>. QED
  BY <1>1, <1>3, <1>4 DEF c

(* ... and its types.                                                      *)
LEMMA VisitOnCreationTypes == ASSUME Types, NEW e \in Schedules, VisitOnCreation(e) PROVE Types'
<1>1. /\ UNCHANGED <<now, user, cohortActive, responses>>
      /\ pc' \in {"loop", "run"} /\ job' \in Local
      /\ job'.kind = "onboard" /\ job'.at = e /\ job'.todo = job.todo \ {e}
      /\ job'.copies \in Copies /\ execs' \in Copies
  BY VisitOnCreationStep
<1>2. DocumentTypes'
  BY <1>1 DEF Types, DocumentTypes, Document
<1>3. JobTypes'
  BY <1>1 DEF JobTypes, Running, Working, Kinds
<1>. QED
  BY <1>2, <1>3 DEF Types

(* The types over run_outstanding_schedules.                               *)
LEMMA RunOutstandingTypes == ASSUME Types, RunOutstanding PROVE Types'
<1>. DEFINE todo == {e \in Schedules : execs[e].active}
<1>1. job' = Job("outstanding", todo) /\ todo \in SUBSET Schedules /\ pc' = "loop" /\ "outstanding" \in Kinds
  BY DEF RunOutstanding, Kinds
<1>2. UNCHANGED <<now, user, cohortActive, execs, responses>>
  BY DEF RunOutstanding, documents
<1>. HIDE DEF todo
<1>3. job' \in Local /\ job'.kind = "outstanding" /\ job'.copies = execs
  BY <1>1, NewJob DEF Types, DocumentTypes
<1>4. DocumentTypes'
  BY <1>2 DEF Types, DocumentTypes, Document
<1>5. JobTypes'
  BY <1>1, <1>3 DEF Types, DocumentTypes, JobTypes, Running, Working
<1>. QED
  BY <1>4, <1>5 DEF Types

(* The visit of an outstanding execution, field by field.                  *)
LEMMA VisitOutstandingStep ==
    ASSUME Types, NEW e \in Schedules, VisitOutstanding(e)
    PROVE  /\ UNCHANGED <<now, user, cohortActive, execs, responses>>
           /\ pc = "loop" /\ pc' = "run" /\ job' \in Local /\ e \in job.todo /\ job.kind = "outstanding"
           /\ job'.kind = job.kind /\ job'.at = e /\ job'.todo = job.todo \ {e} /\ job'.sent = job.sent
           /\ job'.copies = job.copies /\ job'.resend
<1>1. /\ UNCHANGED <<now, user, cohortActive, execs, responses>>
      /\ pc = "loop" /\ pc' = "run" /\ e \in job.todo /\ job.kind = "outstanding"
      /\ job' = [job EXCEPT !.at = e, !.todo = @ \ {e}, !.resend = TRUE]
  BY DEF VisitOutstanding, documents
<1>2. job \in Local
  BY DEF Types, JobTypes
<1>3. /\ job' \in Local
      /\ job'.kind = job.kind /\ job'.at = e /\ job'.todo = job.todo \ {e} /\ job'.sent = job.sent
      /\ job'.copies = job.copies /\ job'.resend
  BY <1>1, <1>2 DEF Local
<1>. QED
  BY <1>1, <1>3

(* ... and its types.                                                      *)
LEMMA VisitOutstandingTypes == ASSUME Types, NEW e \in Schedules, VisitOutstanding(e) PROVE Types'
<1>1. /\ UNCHANGED <<now, user, cohortActive, execs, responses>>
      /\ pc = "loop" /\ pc' = "run" /\ job' \in Local
      /\ job'.kind = "outstanding" /\ job'.at = e /\ job'.todo = job.todo \ {e}
      /\ job'.copies = job.copies
  BY VisitOutstandingStep
<1>2. DocumentTypes'
  BY <1>1 DEF Types, DocumentTypes, Document
<1>3. job.copies \in Copies
  BY <1>1 DEF Types, JobTypes, Working
<1>4. JobTypes'
  BY <1>1, <1>3 DEF JobTypes, Running, Working, Kinds
<1>. QED
  BY <1>2, <1>4 DEF Types

(* A handler ends.                                                         *)
LEMMA EndLoopTypes == ASSUME Types, EndLoop PROVE Types'
<1>1. UNCHANGED <<now, user, cohortActive, execs, responses>> /\ pc' = "idle" /\ job' \in Local
  BY StopTypes DEF EndLoop, documents
<1>2. DocumentTypes'
  BY <1>1 DEF Types, DocumentTypes, Document
<1>3. JobTypes'
  BY <1>1 DEF JobTypes, Running, Working
<1>. QED
  BY <1>2, <1>3 DEF Types

(* Steps that leave the handler as it is.                                  *)
LEMMA NothingRuns == ASSUME Types, UNCHANGED <<pc, job>> PROVE JobTypes'
  BY DEF Types, JobTypes, Running, Working

(* Steps of a handler that only sets the status.                           *)
LEMMA StatusTypes ==
    ASSUME Types, NEW s \in Statuses, SetStatus(s), UNCHANGED <<now, cohortActive, responses, pc, job>>
    PROVE  Types'
<1>1. user' \in Document' /\ execs' \in Copies
  BY SetStatusStep
<1>2. DocumentTypes'
  BY <1>1 DEF Types, DocumentTypes
<1>. QED
  BY <1>2, NothingRuns DEF Types

(* Steps that leave all that is typed.                                     *)
LEMMA SameTypes == ASSUME Types, UNCHANGED <<now, user, cohortActive, execs, responses, pc, job>> PROVE Types'
<1>1. DocumentTypes'
  BY DEF Types, DocumentTypes, Document
<1>. QED
  BY <1>1, NothingRuns DEF Types

(* The types over texts and pages that at most set the status.             *)
LEMMA TextTypes ==
    ASSUME Types, TextStop \/ TextStart \/ TextUnsolicited \/ TextUnexpected \/ TurnNoticeBlacklisted
                      \/ \E s \in {"active", "paused", "completed"} : TurnSetUserStatus(s)
    PROVE  Types'
<1>1. user.restore \in Restorable
  BY DEF Types, DocumentTypes, Document
<1>2. CASE TextStop
  BY <1>2, StatusTypes DEF TextStop, Statuses
<1>3. CASE TextStart
  <2>1. UNCHANGED <<now, cohortActive, responses, pc, job>>
    BY <1>3 DEF TextStart
  <2>2. CASE SetStatus("active")
    BY <2>1, <2>2, StatusTypes DEF Statuses
  <2>3. CASE user.restore # None /\ SetStatus(user.restore)
    <3>1. user.restore \in Statuses
      BY <1>1, <2>3 DEF Restorable, Statuses
    <3>. QED
      BY <2>1, <2>3, <3>1, StatusTypes
  <2>4. CASE UNCHANGED <<user, execs>>
    BY <2>1, <2>4, SameTypes
  <2>. QED
    BY <1>3, <2>2, <2>3, <2>4 DEF TextStart
<1>4. CASE TextUnsolicited
  <2>1. UNCHANGED <<now, cohortActive, responses, pc, job>>
        /\ (SetStatus("active") \/ UNCHANGED <<user, execs>>)
    BY <1>4 DEF TextUnsolicited
  <2>. QED
    BY <2>1, SameTypes, StatusTypes DEF Statuses
<1>5. CASE TextUnexpected
  BY <1>5, SameTypes DEF TextUnexpected
<1>6. CASE TurnNoticeBlacklisted
  BY <1>6, StatusTypes DEF TurnNoticeBlacklisted, Statuses
<1>7. ASSUME NEW s \in {"active", "paused", "completed"}, TurnSetUserStatus(s) PROVE Types'
  BY <1>7, StatusTypes DEF TurnSetUserStatus, Statuses
<1>. QED
  BY <1>2, <1>3, <1>4, <1>5, <1>6, <1>7

(* handle_message goes on with the current execution.                      *)
LEMMA GoOnStep ==
    ASSUME Types, user.current \in Schedules, NEW a \in Parsed, GoOn(a)
    PROVE  /\ pc' = "run" /\ JobTypes' /\ job'.at = user.current /\ job'.copies = execs /\ job'.kind = "reply"
           /\ job'.todo = {} /\ ~job'.sent
<1>. DEFINE j == Job("reply", {})
<1>1. pc' = "run" /\ job' = [j EXCEPT !.at = user.current, !.answer = a]
  BY DEF GoOn
<1>2. execs \in Copies /\ "reply" \in Kinds /\ {} \in SUBSET Schedules
  BY DEF Types, DocumentTypes, Kinds
<1>3. j \in Local /\ j.kind = "reply" /\ j.todo = {} /\ ~j.sent /\ j.copies = execs
  BY <1>2, NewJob
<1>. HIDE DEF j
<1>4. /\ job' \in Local /\ job'.at = user.current /\ job'.copies = execs /\ job'.kind = "reply"
      /\ job'.todo = {} /\ ~job'.sent
  BY <1>1, <1>3 DEF Local
<1>5. JobTypes'
  BY <1>1, <1>2, <1>4 DEF JobTypes, Running, Working
<1>. QED
  BY <1>1, <1>4, <1>5

(* The Response that a text answers.                                       *)
LEMMA AskedResponseIs ==
    ASSUME Types, Retrieve(Asked, execs[user.current].start) # 0
    PROVE  AskedResponse \in DOMAIN responses
<1>. DEFINE found == {i \in DOMAIN responses : responses[i].question = Asked
                                               /\ responses[i].start = execs[user.current].start}
<1>1. found # {} /\ AskedResponse = Min(found)
  BY DEF Retrieve, AskedResponse
<1>2. found \subseteq Nat
  BY DEF Types, DocumentTypes
<1>. QED
  BY <1>1, <1>2, LeastIsMember

(* A Response with an answer is a Response.                                *)
LEMMA AnsweredType ==
    ASSUME Types, NEW a \in Parsed \cup {LimitReached}, NEW i \in DOMAIN responses
    PROVE  [responses EXCEPT ![i].answer = a] \in Seq(Response)
<1>1. responses \in Seq(Response)
  BY DEF Types, DocumentTypes
<1>2. responses[i] \in Response
  BY <1>1
<1>3. [responses[i] EXCEPT !.answer = a] \in Response
  BY <1>2 DEF Response
<1>. QED
  BY <1>1, <1>3

(* A text that is understood, field by field.                              *)
LEMMA TextAnswerStep ==
    ASSUME Types, NEW a \in Answers \cup {Skip}, TextAnswer(a)
    PROVE  /\ UNCHANGED <<now, user, cohortActive, execs>> /\ Solicited /\ Answerable /\ pc = "idle"
           /\ responses' = [responses EXCEPT ![AskedResponse].answer = a]
           /\ AskedResponse \in DOMAIN responses /\ responses' \in Seq(Response)
           /\ user.current \in Schedules /\ GoOn(a) /\ JobTypes'
<1>1. /\ UNCHANGED <<now, user, cohortActive, execs>> /\ Solicited /\ Answerable /\ pc = "idle"
      /\ responses' = [responses EXCEPT ![AskedResponse].answer = a]
      /\ GoOn(a)
  BY DEF TextAnswer
<1>2. a \in Parsed
  BY DEF Parsed
<1>3. user.current \in Schedules
  BY <1>1 DEF Types, DocumentTypes, Document, Solicited
<1>4. AskedResponse \in DOMAIN responses
  BY <1>1, AskedResponseIs DEF Answerable, AskedResponse
<1>. QED
  BY <1>1, <1>2, <1>3, <1>4, AnsweredType, GoOnStep

(* ... and its types.                                                      *)
LEMMA TextAnswerTypes == ASSUME Types, NEW a \in Answers \cup {Skip}, TextAnswer(a) PROVE Types'
<1>1. UNCHANGED <<now, user, cohortActive, execs>> /\ responses' \in Seq(Response) /\ JobTypes'
  BY TextAnswerStep
<1>2. DocumentTypes'
  BY <1>1 DEF Types, DocumentTypes, Document
<1>. QED
  BY <1>1, <1>2 DEF Types

(* A text that is not understood: the question is sent again, or the       *)
(* survey goes on.                                                         *)
LEMMA TextInvalidStep ==
    ASSUME Types, TextInvalid
    PROVE  /\ UNCHANGED <<now, cohortActive>> /\ Solicited /\ Answerable /\ pc = "idle" /\ JobTypes'
           /\ \/ SetStatus("disabled") /\ "blacklisted" \in Outcomes
              \/ UNCHANGED <<user, execs>>
           /\ \/ UNCHANGED responses
              \/ /\ AskedResponse \in DOMAIN responses /\ responses' \in Seq(Response)
                 /\ responses' = [responses EXCEPT ![AskedResponse].answer = LimitReached]
           /\ \/ UNCHANGED <<pc, job>>
              \/ user.current \in Schedules /\ GoOn(None) /\ UNCHANGED <<user, execs>>
<1>1. UNCHANGED <<now, cohortActive>> /\ Solicited /\ Answerable /\ pc = "idle"
  BY DEF TextInvalid
<1>2. user.current \in Schedules
  BY <1>1 DEF Types, DocumentTypes, Document, Solicited
<1>3. AskedResponse \in DOMAIN responses
  BY <1>1, AskedResponseIs DEF Answerable, AskedResponse
<1>4. /\ \/ SetStatus("disabled") /\ "blacklisted" \in Outcomes
         \/ UNCHANGED <<user, execs>>
      /\ \/ UNCHANGED responses
         \/ responses' = [responses EXCEPT ![AskedResponse].answer = LimitReached]
      /\ \/ UNCHANGED <<pc, job>>
         \/ GoOn(None) /\ UNCHANGED <<user, execs>>
  BY DEF TextInvalid
<1>5. None \in Parsed /\ LimitReached \in Parsed \cup {LimitReached}
  BY DEF Parsed
<1>6. JobTypes'
  BY <1>2, <1>4, <1>5, GoOnStep, NothingRuns
<1>. QED
  BY <1>1, <1>2, <1>3, <1>4, <1>5, <1>6, AnsweredType

(* ... and its types.                                                      *)
LEMMA TextInvalidTypes == ASSUME Types, TextInvalid PROVE Types'
<1>1. UNCHANGED <<now, cohortActive>> /\ JobTypes' /\ (SetStatus("disabled") \/ UNCHANGED <<user, execs>>)
      /\ (UNCHANGED responses \/ responses' \in Seq(Response))
  BY TextInvalidStep
<1>2. user' \in Document' /\ execs' \in Copies
  BY <1>1, SetStatusStep DEF Types, DocumentTypes, Document, Statuses
<1>3. DocumentTypes'
  BY <1>1, <1>2 DEF Types, DocumentTypes
<1>. QED
  BY <1>1, <1>3 DEF Types

(* The types over a change of the cohort.                                  *)
LEMMA ChangeCohortStatusTypes == ASSUME Types, TurnChangeCohortStatus PROVE Types'
<1>1. UNCHANGED <<now, responses, pc, job>> /\ execs' = Cleared /\ user' = [user EXCEPT !.current = None]
      /\ cohortActive' = ~cohortActive
  BY DEF TurnChangeCohortStatus
<1>2. execs' \in Copies
  BY <1>1, ClearedType DEF Types, DocumentTypes
<1>3. DocumentTypes'
  BY <1>1, <1>2 DEF Types, DocumentTypes, Document
<1>. QED
  BY <1>1, <1>3, NothingRuns DEF Types

(* ... and over the clock.                                                 *)
LEMMA NextHourTypes == ASSUME Types, NextHour PROVE Types'
<1>1. UNCHANGED <<user, cohortActive, execs, responses, pc, job>> /\ now' = now + 1
  BY DEF NextHour, documents
<1>2. DocumentTypes'
  BY <1>1 DEF Types, DocumentTypes, Document
<1>. QED
  BY <1>1, <1>2, NothingRuns DEF Types

(* Every step keeps the types.                                             *)
LEMMA NextTypes == ASSUME Types, [TurnNext]_vars PROVE Types'
<1>1. CASE TurnRun
  BY <1>1, BeginRunTypes, EndRunTypes, SetAttributeTypes, SendMessageTypes, TestConditionalTypes,
     SendQuestionTypes, ResendQuestionTypes, Zenon DEF TurnRun
<1>2. CASE Hourly \/ TurnOnboarding \/ Outstanding \/ EndLoop \/ NextHour
  BY <1>2, EveryHourTypes, RefreshTypes, VisitPeriodTypes, OnboardTypes, VisitOnCreationTypes,
     RunOutstandingTypes,
     VisitOutstandingTypes, EndLoopTypes, NextHourTypes, Zenon DEF Hourly, TurnOnboarding, Outstanding
<1>3. CASE Text \/ TurnAdmin \/ TurnNoticeBlacklisted
  BY <1>3, TextTypes, TextInvalidTypes, TextAnswerTypes, ChangeCohortStatusTypes, Zenon DEF Text, TurnAdmin
<1>4. CASE UNCHANGED vars
  BY <1>4, SameTypes DEF vars
<1>. QED
  BY <1>1, <1>2, <1>3, <1>4 DEF TurnNext

(* The initial states have them.                                           *)
LEMMA InitTypes == Init => Types
<1>. SUFFICES ASSUME Init PROVE Types
  OBVIOUS
<1>1. \A e \in Schedules : MakeExecution(Config[e], 0) \in Execution(Questions)
  BY MakeExecutionType, EngineAssumption
<1>2. execs \in Copies
  BY <1>1 DEF Init, Copies
<1>3. user \in Document
  BY EngineAssumption DEF Init, Document, Statuses, Restorable
<1>4. DocumentTypes
  BY <1>2, <1>3 DEF Init, DocumentTypes
<1>5. JobTypes
  BY StopTypes DEF Init, JobTypes, Running, Working, NoJob, Local, Parsed
<1>. QED
  BY <1>4, <1>5 DEF Types
-----------------------------------------------------------------------------
(* The status, with or without Overlap: what is so of a User document and  *)
(* of the copy that a run works on.                                        *)
Fields == {"status", "restore", "current", "attribute", "onboarded", "midRun"}

(* START goes back to what was.                                            *)
RestoreFits(u) ==
    /\ u.restore \in Restorable
    /\ u.status \in {"active", "paused", "completed"} => u.restore = u.status
    /\ u.status = "inactive" => u.restore = "active"
    /\ u.status = "pending" => u.restore = None

(* The executions are one for each schedule, with their field "active".    *)
Shaped(x) == DOMAIN x = Schedules /\ \A e \in Schedules : "active" \in DOMAIN x[e]

(* A document has no current execution unless it is active.                *)
Rested(u) ==
    /\ DOMAIN u = Fields /\ u.status \in Statuses
    /\ RestoreFits(u)
    /\ u.status # "active" => u.current = None

(* The threads: a run has a copy, and if it is not active any more then by *)
(* what the run did.                                                       *)
ThreadFine(p, kind, copy) ==
    /\ p \notin {"idle", "outstanding"} => kind \in Kinds
    /\ p \in {"act", "resend"} => Rested(copy) /\ (copy.status # "active" => copy.midRun)

JobsFine == "kind" \in DOMAIN job /\ "kind" \in DOMAIN other.job

(* The inductive invariant of the status.  Who is not active, not by a     *)
(* status set in the middle of a handler, rests.                           *)
NoneMayResume == ~Busy /\ \A e \in Schedules : ~execs[e].active

StatusInvariant ==
    /\ Shaped(execs)
    /\ Rested(user)
    /\ user.status # "active" => user.midRun \/ NoneMayResume
    /\ JobsFine
    /\ ThreadFine(pc, job.kind, loaded)
    /\ ThreadFine(other.pc, other.job.kind, other.loaded)

(* What a step must not do to a user who was paused.                       *)
PauseKept ==
    user.restore = "paused" /\ user'.status = "active" => SetUserStatus("active") \/ Doing(Setters)

(* A document after set_status: only someone who was active is made        *)
(* inactive.                                                               *)
LEMMA WithStatusFine ==
    ASSUME NEW u, Rested(u), NEW s \in {"active", "paused", "completed", "disabled", "inactive"},
           s = "inactive" => u.status = "active"
    PROVE  LET w == WithStatus(u, s)
           IN  /\ Rested(w) /\ w.status = s /\ (s = u.status => w = u)
               /\ s # u.status /\ Busy => w.midRun
<1>0. s \in Statuses
  BY DEF Statuses
<1>1. CASE s = u.status
  BY <1>1 DEF WithStatus, Rested
<1>2. CASE s # u.status
  <2>. DEFINE w == [u EXCEPT !.status  = s,
                      !.restore = IF s \in {"disabled", "inactive", "pending"} THEN @ ELSE s,
                      !.current = IF s = "active" THEN @ ELSE None,
                      !.midRun  = Busy]
  <2>1. WithStatus(u, s) = w
    BY <1>2 DEF WithStatus
  <2>2. DOMAIN u = Fields
    BY DEF Rested
  <2>3. /\ DOMAIN w = Fields /\ w.status = s /\ w.midRun = Busy
        /\ w.restore = IF s \in {"disabled", "inactive", "pending"} THEN u.restore ELSE s
        /\ w.current = IF s = "active" THEN u.current ELSE None
    BY <2>2 DEF Fields
  <2>4. u.restore \in Restorable /\ (u.status = "active" => u.restore = "active")
    BY DEF Rested, RestoreFits
  <2>. HIDE DEF w
  <2>5. RestoreFits(w)
    BY <1>2, <2>3, <2>4 DEF RestoreFits, Restorable
  <2>6. w.status # "active" => w.current = None
    BY <2>3
  <2>. QED
    BY <1>0, <1>2, <2>1, <2>3, <2>5, <2>6 DEF Rested
<1>. QED
  BY <1>1, <1>2

(* A document of which one of the other fields is set.                     *)
LEMMA FieldSet ==
    ASSUME NEW u, Rested(u), NEW v
    PROVE  /\ LET w == [u EXCEPT !.attribute = v]
              IN  Rested(w) /\ w.status = u.status /\ w.midRun = u.midRun /\ w.restore = u.restore
           /\ LET w == [u EXCEPT !.onboarded = v]
              IN  Rested(w) /\ w.status = u.status /\ w.midRun = u.midRun /\ w.restore = u.restore
           /\ LET w == [u EXCEPT !.current = v]
              IN  /\ w.status = u.status /\ w.midRun = u.midRun /\ w.restore = u.restore
                  /\ v = None \/ u.status = "active" => Rested(w)
  BY DEF Rested, RestoreFits, Fields

(* What a thread keeps that keeps its place.                               *)
Unmoved == UNCHANGED <<pc, job, loaded, other>>

LEMMA UnmovedFine == ASSUME StatusInvariant, Unmoved PROVE
       /\ JobsFine' /\ ThreadFine(pc, job.kind, loaded)' /\ ThreadFine(other.pc, other.job.kind, other.loaded)'
  BY DEF StatusInvariant, Unmoved, JobsFine, ThreadFine, Rested, RestoreFits

(* Where the thread of a run goes on when the run is over.                 *)
LEMMA ReturnFine ==
    ASSUME JobsFine, job.kind \in Kinds, UNCHANGED other, NEW paused, NEW c,
           Return(paused, c)
    PROVE  JobsFine' /\ ThreadFine(pc, job.kind, loaded)'
<1>. DEFINE later == [job EXCEPT !.sent = job.sent \/ paused, !.resend = FALSE, !.copies = c]
<1>1. "kind" \in DOMAIN later /\ later.kind = job.kind
  BY DEF JobsFine
<1>2. "kind" \in DOMAIN NoJob
  BY DEF NoJob
<1>. HIDE DEF later
<1>3. \/ job' = later /\ pc' \in {"run", "refresh", "loop"}
      \/ job' = NoJob /\ pc' \in {"idle", "outstanding"}
  BY DEF Return, Kinds, later
<1>. QED
  BY <1>1, <1>2, <1>3 DEF JobsFine, ThreadFine

(* ... or has failed, or is the last of its handler.                       *)
LEMMA FailFine ==
    ASSUME JobsFine, job.kind \in Kinds, UNCHANGED other, Fail \/ Stop
    PROVE  JobsFine' /\ ThreadFine(pc, job.kind, loaded)'
<1>1. "kind" \in DOMAIN NoJob
  BY DEF NoJob
<1>2. \/ job' = job /\ pc' = "loop"
      \/ job' = NoJob /\ pc' = "idle"
  BY DEF Fail, Stop
<1>. QED
  BY <1>1, <1>2 DEF JobsFine, ThreadFine

(* set_status and the steps of a run leave the executions their shape.     *)
LEMMA ClearedShape ==
    ASSUME Shaped(execs)
    PROVE  Shaped(Cleared) /\ \A e \in Schedules : ~Cleared[e].active
  BY DEF Shaped, Cleared

LEMMA ClearedByShape == ASSUME Shaped(execs), NEW u, NEW s PROVE Shaped(ClearedBy(u, s))
  BY ClearedShape DEF ClearedBy

LEMMA EndedShape ==
    ASSUME NEW x, Shaped(x), NEW e, NEW q PROVE Shaped([x EXCEPT ![e] = Ended(@, q)])
  BY DEF Shaped, Ended

(* A step of a thread under way that leaves the status; nothing is asked   *)
(* of the executions but their shape.                                      *)
LEMMA BusyKept ==
    ASSUME StatusInvariant, Busy, Rested(user'), user'.status = user.status, user'.midRun = user.midRun,
           UNCHANGED other, JobsFine', ThreadFine(pc, job.kind, loaded)', Shaped(execs')
    PROVE  StatusInvariant'
<1>1. user'.status # "active" => user'.midRun
  BY DEF StatusInvariant, NoneMayResume
<1>2. ThreadFine(other.pc, other.job.kind, other.loaded)'
  BY DEF StatusInvariant, ThreadFine, Rested, RestoreFits
<1>. QED
  BY <1>1, <1>2 DEF StatusInvariant, Rested, RestoreFits

(* ... or saves a copy whole, which is active or known by midRun.          *)
LEMMA CopySaved ==
    ASSUME StatusInvariant, Rested(user'), user'.status # "active" => user'.midRun,
           UNCHANGED other, JobsFine', ThreadFine(pc, job.kind, loaded)', Shaped(execs')
    PROVE  StatusInvariant'
<1>2. ThreadFine(other.pc, other.job.kind, other.loaded)'
  BY DEF StatusInvariant, ThreadFine, Rested, RestoreFits
<1>. QED
  BY <1>2 DEF StatusInvariant, Rested, RestoreFits

(* set_status on a user just loaded, by a page or at the start of a        *)
(* handler.                                                                *)
LEMMA SetStatusFine ==
    ASSUME StatusInvariant, Unmoved, ("welcome" \in pages') = ("welcome" \in pages),
           NEW s \in {"active", "paused", "completed", "disabled", "inactive"},
           s = "inactive" => user.status = "active", SetStatus(s)
    PROVE  StatusInvariant' /\ user'.status = s
<1>. DEFINE w == WithStatus(user, s)
<1>1. Rested(w) /\ w.status = s /\ (s = user.status => w = user) /\ (s # user.status /\ Busy => w.midRun)
  BY WithStatusFine DEF StatusInvariant
<1>. HIDE DEF w
<1>2. user' = w /\ execs' = ClearedBy(user, s)
  BY DEF SetStatus, w
<1>3. Busy' = Busy
  BY DEF Busy, Unmoved
<1>4. user'.status # "active" => user'.midRun \/ NoneMayResume'
  <2>1. CASE s = user.status
    <3>1. user' = user /\ execs' = execs
      BY <1>1, <1>2, <2>1 DEF ClearedBy
    <3>. QED
      BY <1>3, <3>1 DEF StatusInvariant, NoneMayResume
  <2>2. CASE s # user.status /\ s # "active"
    <3>1. execs' = Cleared /\ (Busy => user'.midRun)
      BY <1>1, <1>2, <2>2 DEF ClearedBy
    <3>2. \A e \in Schedules : ~Cleared[e].active
      BY ClearedShape DEF StatusInvariant
    <3>. QED
      BY <1>3, <3>1, <3>2 DEF NoneMayResume
  <2>. QED
    BY <1>1, <1>2, <2>1, <2>2
<1>5. Shaped(execs')
  BY <1>2, ClearedByShape DEF StatusInvariant
<1>. QED
  BY <1>1, <1>2, <1>4, <1>5, UnmovedFine DEF StatusInvariant, Rested, RestoreFits, Shaped


(* A step that leaves the status lifts no pause.                           *)
LEMMA StatusLeft == ASSUME StatusInvariant, user'.status = user.status PROVE PauseKept
  BY DEF StatusInvariant, Rested, RestoreFits, PauseKept

(* A step of the texts and the pages that leaves the status, and the       *)
(* executions or an active user.                                           *)
LEMMA RestKept ==
    ASSUME StatusInvariant, Unmoved, Rested(user'), user'.status = user.status,
           user'.midRun = user.midRun, Shaped(execs'), Busy' = Busy,
           user.status = "active" \/ \A e \in Schedules : execs'[e].active => execs[e].active
    PROVE  StatusInvariant' /\ PauseKept
<1>1. user'.status # "active" => user'.midRun \/ NoneMayResume'
  BY DEF StatusInvariant, NoneMayResume
<1>. QED
  BY <1>1, UnmovedFine, StatusLeft DEF StatusInvariant, Rested, RestoreFits, Shaped

(* An active user goes on with a thread.                                   *)
LEMMA ActiveGoesOn ==
    ASSUME StatusInvariant, Rested(user'), user.status = "active", user'.status = "active",
           Shaped(execs'), UNCHANGED other, JobsFine', ThreadFine(pc, job.kind, loaded)'
    PROVE  StatusInvariant' /\ PauseKept
<1>2. ThreadFine(other.pc, other.job.kind, other.loaded)'
  BY DEF StatusInvariant, ThreadFine, Rested, RestoreFits
<1>. QED
  BY <1>2, StatusLeft DEF StatusInvariant, Rested, RestoreFits, Shaped

(* A run starts.                                                           *)
LEMMA BeginRunStatus == ASSUME StatusInvariant, BeginRun PROVE StatusInvariant' /\ PauseKept
<1>0. /\ pc = "run" /\ job.kind \in Kinds /\ Busy /\ UNCHANGED <<execs, other>>
      /\ JobsFine /\ Rested(user) /\ Shaped(execs)
  BY DEF BeginRun, aside, StatusInvariant, ThreadFine, Busy
<1>1. CASE Return(FALSE, job.copies) /\ UNCHANGED user
  BY <1>0, <1>1, ReturnFine, BusyKept, StatusLeft
<1>2. CASE /\ IsActive /\ user' = [user EXCEPT !.current = job.at] /\ loaded' = user'
           /\ pc' \in {"act", "resend"} /\ UNCHANGED job
  <2>1. Rested(user') /\ user'.status = "active" /\ user.status = "active"
    BY <1>0, <1>2, FieldSet DEF IsActive
  <2>2. JobsFine' /\ ThreadFine(pc, job.kind, loaded)'
    BY <1>0, <1>2, <2>1 DEF JobsFine, ThreadFine, Rested, RestoreFits
  <2>. QED
    BY <1>0, <2>1, <2>2, ActiveGoesOn
<1>. QED
  BY <1>1, <1>2, Zenon DEF BeginRun

(* ... and ends.                                                           *)
LEMMA EndRunStatus == ASSUME StatusInvariant, EndRun PROVE StatusInvariant' /\ PauseKept
<1>0. /\ pc = "act" /\ job.kind \in Kinds /\ Busy /\ UNCHANGED other
      /\ JobsFine /\ Rested(user) /\ Shaped(execs)
  BY DEF EndRun, aside, StatusInvariant, ThreadFine, Busy
<1>1. /\ execs' = [execs EXCEPT ![job.at] = Ended(@, None)]
      /\ user' = [user EXCEPT !.current = None]
      /\ \E c : Return(FALSE, c)
  BY DEF EndRun
<1>2. Rested(user') /\ user'.status = user.status /\ user'.midRun = user.midRun
  BY <1>0, <1>1, FieldSet
<1>3. Shaped(execs')
  BY <1>0, <1>1, EndedShape
<1>4. JobsFine' /\ ThreadFine(pc, job.kind, loaded)'
  BY <1>0, <1>1, ReturnFine
<1>. QED
  BY <1>0, <1>2, <1>3, <1>4, BusyKept, StatusLeft

(* set_status on the copy of the run.                                      *)
LEMMA SavedFine ==
    ASSUME StatusInvariant, Busy, Rested(loaded), loaded.status # "active" => loaded.midRun,
           NEW s \in {"active", "paused", "completed", "disabled"}
    PROVE  /\ Rested(Saved(s)) /\ (Saved(s).status # "active" => Saved(s).midRun)
           /\ s # "active" => Saved(s).status = user.status \/ Saved(s).status # "active"
           /\ Rested(WithStatus(loaded, s))
           /\ WithStatus(loaded, s).status # "active" => WithStatus(loaded, s).midRun
<1>. DEFINE w == WithStatus(loaded, s)
<1>1. /\ Rested(w) /\ w.status = s /\ (s = loaded.status => w = loaded)
      /\ s # loaded.status => w.midRun
  <2>1. s \in {"active", "paused", "completed", "disabled", "inactive"} /\ s # "inactive"
    OBVIOUS
  <2>. QED
    BY <2>1, WithStatusFine
<1>2. w.status # "active" => w.midRun
  BY <1>1
<1>3. Saved(s) = user \/ Saved(s) = w
  BY DEF Saved
<1>4. Rested(user) /\ (user.status # "active" => user.midRun)
  BY DEF StatusInvariant, NoneMayResume
<1>. HIDE DEF w
<1>. QED
  BY <1>1, <1>2, <1>3, <1>4 DEF w

(* The actions of the tree that ask nothing.                               *)
LEMMA ActionStatus ==
    ASSUME StatusInvariant, SetAttribute \/ SendMessage \/ TestConditional
    PROVE  StatusInvariant' /\ PauseKept
<1>0. /\ pc = "act" /\ job.kind \in Kinds /\ Busy /\ UNCHANGED other
      /\ JobsFine /\ Rested(user) /\ Shaped(execs)
      /\ Rested(loaded) /\ (loaded.status # "active" => loaded.midRun)
  BY DEF SetAttribute, SendMessage, TestConditional, Doing, aside, StatusInvariant, ThreadFine, Busy
<1>1. ASSUME UNCHANGED <<user, execs, pc, job, loaded>> PROVE StatusInvariant' /\ PauseKept
  <2>1. Unmoved
    BY <1>0, <1>1 DEF Unmoved
  <2>2. Rested(user') /\ user'.status = user.status /\ user'.midRun = user.midRun /\ Shaped(execs')
    BY <1>0, <1>1
  <2>. QED
    BY <1>0, <2>1, <2>2, UnmovedFine, BusyKept, StatusLeft
<1>2. ASSUME NEW s \in {"active", "paused", "completed", "disabled"}, SaveStatus(s), UNCHANGED <<pc, job>>,
             s = "active" => Doing(Setters)
      PROVE  StatusInvariant' /\ PauseKept
  <2>1. user' = Saved(s) /\ loaded' = WithStatus(loaded, s) /\ Shaped(execs')
    BY <1>0, <1>2, ClearedByShape DEF SaveStatus
  <2>2. /\ Rested(user') /\ (user'.status # "active" => user'.midRun)
        /\ s # "active" => user'.status = user.status \/ user'.status # "active"
        /\ Rested(loaded') /\ (loaded'.status # "active" => loaded'.midRun)
    BY <1>0, <2>1, SavedFine
  <2>3. JobsFine' /\ ThreadFine(pc, job.kind, loaded)'
    BY <1>0, <1>2, <2>2 DEF JobsFine, ThreadFine, Rested, RestoreFits
  <2>4. PauseKept
    BY <1>2, <2>2, StatusLeft DEF PauseKept
  <2>. QED
    BY <1>0, <2>1, <2>2, <2>3, <2>4, CopySaved
<1>3. CASE SetAttribute
  <2>. DEFINE set == Assign[Head(agenda).node]
  <2>1. Doing(Setters) /\ Head(agenda).node \in Setters /\ UNCHANGED <<pc, job>>
    BY <1>3 DEF SetAttribute, Doing
  <2>2. CASE UNCHANGED <<user, loaded, execs>>
    BY <1>1, <2>1, <2>2
  <2>3. CASE set.attribute = "status" /\ set.value # "answer" /\ SaveStatus(set.value)
    <3>1. set.value \in {"active", "paused", "completed"}
      BY <2>1, <2>3, EngineAssumption
    <3>. QED
      BY <1>2, <2>1, <2>3, <3>1
  <2>4. CASE \E v : user' = [loaded EXCEPT !.attribute = v] /\ loaded' = user' /\ UNCHANGED execs
    <3>1. /\ Rested(user') /\ user'.status = loaded.status /\ user'.midRun = loaded.midRun
          /\ loaded' = user'
      <4>1. PICK v : user' = [loaded EXCEPT !.attribute = v]
        BY <2>4
      <4>. QED
        BY <1>0, <2>4, <4>1, FieldSet, Zenon
    <3>2. JobsFine' /\ ThreadFine(pc, job.kind, loaded)'
      BY <1>0, <2>1, <3>1 DEF JobsFine, ThreadFine, Rested, RestoreFits
    <3>. QED
      BY <1>0, <2>1, <2>4, <3>1, <3>2, CopySaved DEF PauseKept
  <2>. QED
    BY <1>3, <2>2, <2>3, <2>4 DEF SetAttribute
<1>4. CASE SendMessage
  <2>1. CASE UNCHANGED <<user, loaded, execs, pc, job>>
    BY <1>1, <2>1
  <2>2. CASE SaveStatus("disabled") /\ UNCHANGED <<pc, job>>
    BY <1>2, <2>2
  <2>3. CASE Fail /\ UNCHANGED <<user, execs>>
    BY <1>0, <2>3, FailFine, BusyKept, StatusLeft
  <2>. QED
    BY <1>4, <2>1, <2>2, <2>3 DEF SendMessage
<1>5. CASE TestConditional
  BY <1>1, <1>5, Zenon DEF TestConditional, documents
<1>. QED
  BY <1>3, <1>4, <1>5

(* A question is sent, or sent again: the run pauses or fails.             *)
LEMMA QuestionStatus ==
    ASSUME StatusInvariant, SendQuestion \/ ResendQuestion
    PROVE  StatusInvariant' /\ PauseKept
<1>0. /\ pc \in {"act", "resend"} /\ job.kind \in Kinds /\ Busy /\ UNCHANGED other
      /\ JobsFine /\ Rested(user) /\ Shaped(execs)
      /\ Rested(loaded) /\ (loaded.status # "active" => loaded.midRun)
  BY DEF SendQuestion, ResendQuestion, Doing, aside, StatusInvariant, ThreadFine, Busy
<1>1. ASSUME NEW q, NEW db, Shaped(db), Pause(q, db)
      PROVE  Shaped(execs') /\ JobsFine' /\ ThreadFine(pc, job.kind, loaded)'
  <2>1. execs' = [db EXCEPT ![job.at] = Ended(@, q)] /\ \E c : Return(TRUE, c)
    BY <1>1 DEF Pause
  <2>2. Shaped(execs')
    BY <1>1, <2>1, EndedShape
  <2>. QED
    BY <1>0, <2>1, <2>2, ReturnFine
<1>2. CASE UNCHANGED user /\ \E q : Pause(q, execs)
  BY <1>0, <1>1, <1>2, BusyKept, StatusLeft
<1>3. CASE user' = Saved("disabled") /\ \E q : Pause(q, ClearedBy(loaded, "disabled"))
  <2>1. /\ Rested(user') /\ (user'.status # "active" => user'.midRun)
        /\ user'.status = user.status \/ user'.status # "active"
    BY <1>0, <1>3, SavedFine
  <2>2. Shaped(execs') /\ JobsFine' /\ ThreadFine(pc, job.kind, loaded)'
    BY <1>0, <1>1, <1>3, ClearedByShape
  <2>. QED
    BY <1>0, <2>1, <2>2, CopySaved, StatusLeft DEF PauseKept
<1>4. CASE UNCHANGED <<user, execs>> /\ Fail
  BY <1>0, <1>4, FailFine, BusyKept, StatusLeft
<1>. QED
  BY <1>2, <1>3, <1>4 DEF SendQuestion, ResendQuestion

(* A new period is a whole execution again, as a document was.             *)
LEMMA PeriodShape ==
    ASSUME NEW x, "active" \in DOMAIN x, NEW c \in Calendar, NEW curr \in Nat, NEW active
    PROVE  "active" \in DOMAIN NewPeriod(x, c, curr, active)
<1>1. ZeroDay(c.date) + c.sendHour \in Int /\ c.subtype \in Subtypes
  <2>1. c.date \in Int /\ c.sendHour \in Int /\ c.subtype \in Subtypes
    BY TimeAssumption DEF Calendar
  <2>. QED
    BY <2>1, DayAndHour
<1>. QED
  BY <1>1 DEF NewPeriod, Period, Subtypes

(* The steps of the handlers between their runs.                           *)
LEMMA LoopStatus ==
    ASSUME StatusInvariant, now \in Nat, NEW e,
           \/ e \in Schedules /\ (VisitPeriod(e) \/ VisitOnCreation(e) \/ VisitOutstanding(e))
           \/ Refresh \/ RunOutstanding \/ EndLoop
    PROVE  StatusInvariant' /\ PauseKept
<1>0. /\ Busy /\ UNCHANGED <<user, other>>
      /\ JobsFine /\ Rested(user) /\ Shaped(execs)
  BY DEF VisitPeriod, Refresh, VisitOnCreation, RunOutstanding, VisitOutstanding, EndLoop, Stop,
         documents, aside, StatusInvariant, Busy
<1>1. ASSUME Shaped(execs'), JobsFine', ThreadFine(pc, job.kind, loaded)'
      PROVE  StatusInvariant' /\ PauseKept
  BY <1>0, <1>1, BusyKept, StatusLeft
<1>2. ASSUME "kind" \in DOMAIN job', job'.kind \in Kinds, pc' \in {"run", "refresh", "loop"}
      PROVE  JobsFine' /\ ThreadFine(pc, job.kind, loaded)'
  BY <1>0, <1>2 DEF JobsFine, ThreadFine
<1>3. CASE e \in Schedules /\ VisitPeriod(e)
  <2>1. "kind" \in DOMAIN job' /\ job'.kind \in Kinds /\ pc' \in {"run", "refresh", "loop"}
    BY <1>0, <1>3 DEF VisitPeriod, JobsFine, Kinds
  <2>2. \E y : execs' = [execs EXCEPT ![e] = y] /\ "active" \in DOMAIN y
    <3>. DEFINE set   == SetPeriod(job.copies[e], Config[e], now, FALSE)
                due   == ~job.sent /\ ResendDue(set, now)
                saved == IF Resets(job.copies[e], now, FALSE)
                         THEN NewPeriod(execs[e], Config[e], now, TRUE) ELSE execs[e]
                y     == IF due THEN [saved EXCEPT !.resends = DropResends(set, now).resends] ELSE saved
    <3>1. execs' = [execs EXCEPT ![e] = y]
      BY <1>3 DEF VisitPeriod
    <3>2. "active" \in DOMAIN saved
      <4>1. "active" \in DOMAIN execs[e] /\ Config[e] \in Calendar
        BY <1>0, <1>3, EngineAssumption DEF Shaped
      <4>2. "active" \in DOMAIN NewPeriod(execs[e], Config[e], now, TRUE)
        BY <4>1, PeriodShape
      <4>. QED
        BY <4>1, <4>2
    <3>. HIDE DEF saved, due, set
    <3>3. "active" \in DOMAIN y
      BY <3>2
    <3>. QED
      BY <3>1, <3>3
  <2>3. Shaped(execs')
    BY <1>0, <2>2 DEF Shaped
  <2>. QED
    BY <1>1, <1>2, <2>1, <2>3
<1>4. CASE Refresh
  <2>1. "kind" \in DOMAIN job' /\ job'.kind \in Kinds /\ pc' \in {"run", "refresh", "loop"}
    <3>1. job.kind \in Kinds /\ pc' = "loop"
      BY <1>4 DEF Refresh, StatusInvariant, ThreadFine
    <3>. QED
      BY <1>0, <1>4, <3>1 DEF Refresh, JobsFine
  <2>2. \E y : execs' = [execs EXCEPT ![job.at] = y] /\ (job.at \in Schedules => "active" \in DOMAIN y)
    <3>. DEFINE y == IF Resets(job.copies[job.at], now, TRUE)
                     THEN NewPeriod(execs[job.at], Config[job.at], now, FALSE) ELSE execs[job.at]
    <3>2. execs' = [execs EXCEPT ![job.at] = y]
      BY <1>4, <1>0 DEF Refresh, Shaped
    <3>3. job.at \in Schedules => "active" \in DOMAIN y
      BY <1>0, PeriodShape, EngineAssumption DEF Shaped
    <3>. HIDE DEF y
    <3>. QED
      BY <3>2, <3>3
  <2>3. Shaped(execs')
    BY <1>0, <2>2 DEF Shaped
  <2>. QED
    BY <1>1, <1>2, <2>1, <2>3
<1>5. CASE e \in Schedules /\ VisitOnCreation(e)
  <2>1. "kind" \in DOMAIN job' /\ job'.kind \in Kinds /\ pc' \in {"run", "refresh", "loop"}
    BY <1>0, <1>5 DEF VisitOnCreation, JobsFine, Kinds
  <2>2. Shaped(execs')
    BY <1>0, <1>5 DEF VisitOnCreation, Shaped
  <2>. QED
    BY <1>1, <1>2, <2>1, <2>2
<1>6. CASE RunOutstanding \/ VisitOutstanding(e)
  <2>1. "kind" \in DOMAIN job' /\ job'.kind \in Kinds /\ pc' \in {"run", "refresh", "loop"}
    BY <1>0, <1>6 DEF RunOutstanding, VisitOutstanding, Job, NoJob, JobsFine, Kinds
  <2>2. UNCHANGED execs
    BY <1>6 DEF RunOutstanding, VisitOutstanding, documents
  <2>3. Shaped(execs')
    BY <1>0, <2>2
  <2>. QED
    BY <1>1, <1>2, <2>1, <2>3
<1>7. CASE EndLoop
  <2>1. Stop /\ UNCHANGED execs /\ job.kind \in Kinds
    BY <1>7 DEF EndLoop, documents, StatusInvariant, ThreadFine
  <2>2. Shaped(execs')
    BY <1>0, <2>1
  <2>. QED
    BY <1>0, <1>1, <2>1, <2>2, FailFine
<1>. QED
  BY <1>3, <1>4, <1>5, <1>6, <1>7

(* The hourly job comes, the user is onboarded, the threads take turns.    *)
LEMMA StartStatus ==
    ASSUME StatusInvariant, EveryHour \/ StartOnboarding \/ Onboard \/ Switch
    PROVE  StatusInvariant' /\ PauseKept
<1>0. JobsFine /\ Rested(user) /\ Shaped(execs)
  BY DEF StatusInvariant
<1>1. ASSUME NEW kind \in Kinds, NEW todo, job' = Job(kind, todo), pc' = "loop", UNCHANGED other
      PROVE  JobsFine' /\ ThreadFine(pc, job.kind, loaded)'
  BY <1>0, <1>1 DEF JobsFine, ThreadFine, Job, NoJob
<1>2. CASE EveryHour
  <2>1. user.status = "active" /\ UNCHANGED <<loaded, other, pages>>
    BY <1>2 DEF EveryHour, IsActive, aside
  <2>2. CASE SetStatus("inactive") /\ UNCHANGED <<pc, job>>
    <3>1. Unmoved
      BY <2>1, <2>2 DEF Unmoved
    <3>. QED
      BY <2>1, <2>2, <3>1, SetStatusFine DEF PauseKept
  <2>3. CASE pc' = "loop" /\ job' = Job("hour", Schedules) /\ UNCHANGED <<user, execs>>
    <3>1. JobsFine' /\ ThreadFine(pc, job.kind, loaded)'
      BY <1>1, <2>1, <2>3 DEF Kinds
    <3>2. Rested(user') /\ Shaped(execs')
      BY <1>0, <2>3
    <3>. QED
      BY <2>1, <2>3, <3>1, <3>2, ActiveGoesOn
  <2>. QED
    BY <1>2, <2>2, <2>3 DEF EveryHour
<1>3. CASE StartOnboarding
  <2>1. /\ UNCHANGED <<user, execs, pc, job, loaded, other>>
        /\ user.status = "active"
    BY <1>3 DEF StartOnboarding, documents, OnboardingDue, IsActive
  <2>2. Unmoved /\ Rested(user') /\ Shaped(execs')
    BY <1>0, <2>1 DEF Unmoved
  <2>. QED
    BY <2>1, <2>2, UnmovedFine, ActiveGoesOn
<1>4. CASE Onboard
  <2>1. /\ user' = [user EXCEPT !.onboarded = TRUE] /\ UNCHANGED <<execs, loaded, other>>
        /\ \E todo : job' = Job("onboard", todo)
        /\ pc' = "loop"
        /\ Busy \/ user.status = "active"
    BY <1>4 DEF Onboard, OnboardingDue, IsActive, Busy
  <2>2. Rested(user') /\ user'.status = user.status /\ user'.midRun = user.midRun
    BY <1>0, <2>1, FieldSet
  <2>3. JobsFine' /\ ThreadFine(pc, job.kind, loaded)'
    BY <1>1, <2>1 DEF Kinds
  <2>4. Shaped(execs')
    BY <1>0, <2>1
  <2>. QED
    BY <2>1, <2>2, <2>3, <2>4, BusyKept, ActiveGoesOn, StatusLeft
<1>5. CASE Switch
  <2>1. /\ other' = [pc |-> pc, job |-> job, agenda |-> agenda, loaded |-> loaded]
        /\ pc' = other.pc /\ job' = other.job /\ loaded' = other.loaded
        /\ UNCHANGED <<user, execs>> /\ Busy
    BY <1>5 DEF Switch, documents, Busy
  <2>2. JobsFine' /\ ThreadFine(pc, job.kind, loaded)'
    BY <2>1 DEF StatusInvariant, JobsFine, ThreadFine, Rested, RestoreFits
  <2>3. ThreadFine(other.pc, other.job.kind, other.loaded)'
    BY <2>1 DEF StatusInvariant, JobsFine, ThreadFine, Rested, RestoreFits
  <2>4. user'.status # "active" => user'.midRun
    BY <2>1 DEF StatusInvariant, NoneMayResume
  <2>5. Rested(user') /\ Shaped(execs') /\ user'.status = user.status
    BY <1>0, <2>1
  <2>. QED
    BY <2>2, <2>3, <2>4, <2>5, StatusLeft DEF StatusInvariant, Rested, RestoreFits, Shaped
<1>. QED
  BY <1>2, <1>3, <1>4, <1>5

(* The texts.                                                              *)
LEMMA TextStatus == ASSUME StatusInvariant, Text PROVE StatusInvariant' /\ PauseKept
<1>0. JobsFine /\ Rested(user) /\ Shaped(execs)
  BY DEF StatusInvariant
<1>1. ASSUME UNCHANGED <<pc, job, loaded, aside>>,
             NEW s \in {"active", "paused", "completed", "disabled", "inactive"},
             s = "inactive" => user.status = "active", SetStatus(s),
             s = "active" => user.restore # "paused"
      PROVE  StatusInvariant' /\ PauseKept
  BY <1>1, SetStatusFine DEF PauseKept, Unmoved, aside
<1>2. ASSUME UNCHANGED <<pc, job, loaded, aside, user, execs>> PROVE StatusInvariant' /\ PauseKept
  <2>1. Unmoved /\ Rested(user') /\ Shaped(execs') /\ UNCHANGED pages
    BY <1>0, <1>2 DEF Unmoved, aside
  <2>2. Busy' = Busy
    BY <1>2 DEF Busy, aside
  <2>. QED
    BY <1>2, <2>1, <2>2, RestKept
<1>3. ASSUME NEW a, GoOn(a), IsActive, UNCHANGED <<user, execs, aside>> PROVE StatusInvariant' /\ PauseKept
  <2>1. JobsFine' /\ ThreadFine(pc, job.kind, loaded)'
    BY <1>0, <1>3 DEF GoOn, Job, NoJob, JobsFine, ThreadFine, Kinds, aside
  <2>2. Rested(user') /\ Shaped(execs') /\ UNCHANGED other
    BY <1>0, <1>3 DEF aside
  <2>. QED
    BY <1>3, <2>1, <2>2, ActiveGoesOn DEF IsActive
<1>4. CASE TextStop
  BY <1>1, <1>4 DEF TextStop
<1>5. CASE TextStart
  <2>1. UNCHANGED <<pc, job, loaded, aside>>
    BY <1>5 DEF TextStart
  <2>2. CASE user.status \in {"inactive", "pending"} /\ SetStatus("active")
    <3>1. user.restore # "paused"
      BY <1>0, <2>2, EngineAssumption DEF Rested, RestoreFits, Statuses
    <3>. QED
      BY <1>1, <2>1, <2>2, <3>1
  <2>3. CASE user.restore # None /\ SetStatus(user.restore)
    <3>1. user.restore \in {"active", "paused", "completed"}
      BY <1>0, <2>3 DEF Rested, RestoreFits, Restorable
    <3>. QED
      BY <1>1, <2>1, <2>3, <3>1
  <2>4. CASE UNCHANGED <<user, execs>>
    BY <1>2, <2>1, <2>4
  <2>. QED
    BY <1>5, <2>2, <2>3, <2>4 DEF TextStart
<1>6. CASE TextUnsolicited
  <2>1. UNCHANGED <<pc, job, loaded, aside>>
    BY <1>6 DEF TextUnsolicited
  <2>2. CASE user.status = "inactive" /\ SetStatus("active")
    <3>1. user.restore # "paused"
      BY <1>0, <2>2 DEF Rested, RestoreFits
    <3>. QED
      BY <1>1, <2>1, <2>2, <3>1
  <2>3. CASE UNCHANGED <<user, execs>>
    BY <1>2, <2>1, <2>3
  <2>. QED
    BY <1>6, <2>2, <2>3 DEF TextUnsolicited
<1>7. CASE TextInvalid
  <2>1. IsActive /\ UNCHANGED <<loaded, aside>>
    BY <1>7 DEF TextInvalid, Solicited
  <2>2. CASE UNCHANGED <<user, execs, pc, job>>
    BY <1>2, <2>1, <2>2
  <2>3. CASE SetStatus("disabled") /\ UNCHANGED <<pc, job>>
    BY <1>1, <2>1, <2>3
  <2>4. CASE GoOn(None) /\ UNCHANGED <<user, execs>>
    BY <1>3, <2>1, <2>4
  <2>. QED
    BY <1>7, <2>2, <2>3, <2>4 DEF TextInvalid
<1>8. CASE TextUnexpected
  BY <1>2, <1>8 DEF TextUnexpected
<1>9. ASSUME NEW a, TextAnswer(a) PROVE StatusInvariant' /\ PauseKept
  BY <1>3, <1>9 DEF TextAnswer, Solicited
<1>. QED
  BY <1>4, <1>5, <1>6, <1>7, <1>8, <1>9 DEF Text

(* The pages, a notice that comes back blacklisted, and the clock.         *)
LEMMA PageStatus ==
    ASSUME StatusInvariant, Admin \/ NoticeBlacklisted \/ NextHour
    PROVE  StatusInvariant' /\ PauseKept
<1>0. JobsFine /\ Rested(user) /\ Shaped(execs)
  BY DEF StatusInvariant
<1>1. ASSUME user' = [user EXCEPT !.current = None], execs' = Cleared, Unmoved,
             ("welcome" \in pages') = ("welcome" \in pages)
      PROVE  StatusInvariant' /\ PauseKept
  <2>1. Rested(user') /\ user'.status = user.status /\ user'.midRun = user.midRun
    BY <1>0, <1>1, FieldSet
  <2>2. Shaped(execs') /\ \A e \in Schedules : ~execs'[e].active
    BY <1>0, <1>1, ClearedShape
  <2>3. Busy' = Busy
    BY <1>1 DEF Busy, Unmoved
  <2>. QED
    BY <1>1, <2>1, <2>2, <2>3, RestKept
<1>2. ASSUME Unmoved, UNCHANGED <<user, execs>>, ("welcome" \in pages') = ("welcome" \in pages)
      PROVE  StatusInvariant' /\ PauseKept
  <2>1. Rested(user') /\ Shaped(execs')
    BY <1>0, <1>2
  <2>2. Busy' = Busy
    BY <1>2 DEF Busy, Unmoved
  <2>. QED
    BY <1>2, <2>1, <2>2, RestKept
<1>3. CASE ChangeCohortStatus
  <2>1. Unmoved /\ (pages' = pages \cup {"clear"} \/ pages' = pages)
    BY <1>3 DEF ChangeCohortStatus, Unmoved
  <2>2. \/ UNCHANGED <<user, execs>>
        \/ execs' = Cleared /\ user' = [user EXCEPT !.current = None]
    BY <1>3 DEF ChangeCohortStatus
  <2>3. ("welcome" \in pages') = ("welcome" \in pages)
    BY <2>1
  <2>. QED
    BY <1>1, <1>2, <2>1, <2>2, <2>3
<1>4. CASE ClearExecutions
  <2>1. /\ Unmoved /\ pages' = pages \ {"clear"}
        /\ execs' = Cleared /\ user' = [user EXCEPT !.current = None]
    BY <1>4 DEF ClearExecutions, Unmoved
  <2>2. ("welcome" \in pages') = ("welcome" \in pages)
    BY <2>1
  <2>. QED
    BY <1>1, <2>1, <2>2
<1>5. ASSUME NEW s \in {"active", "paused", "completed"}, SetUserStatus(s)
      PROVE  StatusInvariant' /\ PauseKept
  <2>1. Unmoved /\ SetStatus(s) /\ (pages' = pages \cup {"tell"} \/ pages' = pages)
    BY <1>5 DEF SetUserStatus, Unmoved
  <2>2. ("welcome" \in pages') = ("welcome" \in pages)
    BY <2>1
  <2>3. StatusInvariant' /\ user'.status = s
    BY <2>1, <2>2, SetStatusFine
  <2>. QED
    BY <1>5, <2>3 DEF PauseKept
<1>6. CASE NoticeBlacklisted
  <2>1. Unmoved /\ UNCHANGED pages /\ SetStatus("disabled")
    BY <1>6 DEF NoticeBlacklisted, Unmoved, aside
  <2>. QED
    BY <2>1, SetStatusFine DEF PauseKept
<1>7. CASE NextHour
  BY <1>2, <1>7 DEF NextHour, Unmoved, documents, aside
<1>8. CASE SendStatusMessage
  <2>1. Unmoved /\ UNCHANGED <<user, execs>> /\ pages' = pages \ {"tell"}
    BY <1>8 DEF SendStatusMessage, Unmoved, documents
  <2>2. ("welcome" \in pages') = ("welcome" \in pages)
    BY <2>1
  <2>. QED
    BY <1>2, <2>1, <2>2
<1>. QED
  BY <1>3, <1>4, <1>5, <1>6, <1>7, <1>8 DEF Admin

(* The clock.                                                              *)
LEMMA ClockRuns == ASSUME now \in Nat, [Next]_vars PROVE now' \in Nat
<1>1. CASE UNCHANGED vars
  BY <1>1 DEF vars
<1>2. CASE Run
  BY <1>2 DEF Run, BeginRun, EndRun, SetAttribute, SendMessage, TestConditional, SendQuestion,
              ResendQuestion
<1>3. CASE Hourly \/ Onboarding \/ Outstanding \/ EndLoop \/ Switch
  BY <1>3 DEF Hourly, EveryHour, Refresh, VisitPeriod, Onboarding, StartOnboarding, Onboard,
              VisitOnCreation, Outstanding, RunOutstanding, VisitOutstanding, EndLoop, Switch
<1>4. CASE Text
  BY <1>4 DEF Text, TextStop, TextStart, TextUnsolicited, TextInvalid, TextUnexpected, TextAnswer
<1>5. CASE Admin \/ NoticeBlacklisted \/ NextHour
  BY <1>5 DEF Admin, ChangeCohortStatus, ClearExecutions, SendStatusMessage, SetUserStatus, NoticeBlacklisted,
              NextHour
<1>. QED
  BY <1>1, <1>2, <1>3, <1>4, <1>5 DEF Next

(* Every step keeps it, and lifts no pause by an opt-out.                  *)
LEMMA StatusStep ==
    ASSUME StatusInvariant, now \in Nat, [Next]_vars
    PROVE  StatusInvariant' /\ PauseKept
<1>1. CASE UNCHANGED vars
  <2>1. /\ Unmoved /\ Rested(user') /\ Shaped(execs') /\ UNCHANGED pages
        /\ UNCHANGED <<user, execs>>
    BY <1>1 DEF vars, Unmoved, StatusInvariant
  <2>2. Busy' = Busy
    BY <2>1 DEF Busy, Unmoved
  <2>. QED
    BY <2>1, <2>2, RestKept
<1>2. CASE Next
  BY <1>2, BeginRunStatus, EndRunStatus, ActionStatus, QuestionStatus, LoopStatus, StartStatus,
     TextStatus, PageStatus DEF Next, Run, Hourly, Onboarding, Outstanding
<1>. QED
  BY <1>1, <1>2

(* The initial states satisfy it.                                          *)
LEMMA StatusInit == Init => StatusInvariant
<1>. SUFFICES ASSUME Init PROVE StatusInvariant
  OBVIOUS
<1>1. Shaped(execs) /\ \A e \in Schedules : ~execs[e].active
  <2>1. \A e \in Schedules : /\ MakeExecution(Config[e], 0) \in Execution(Questions)
                             /\ ~MakeExecution(Config[e], 0).active
    BY MakeExecutionType, EngineAssumption
  <2>. QED
    BY <2>1 DEF Init, Shaped, Execution
<1>2. Rested(user) /\ ~Busy
  BY EngineAssumption DEF Init, Rested, RestoreFits, Fields, Statuses, Restorable, Busy, NoThread
<1>3. /\ JobsFine /\ ThreadFine(pc, job.kind, loaded)
      /\ ThreadFine(other.pc, other.job.kind, other.loaded)
  BY DEF Init, JobsFine, ThreadFine, NoThread, NoJob
<1>. QED
  BY <1>1, <1>2, <1>3 DEF StatusInvariant, NoneMayResume

(* START goes back to the status the user had, a copy that a run works on  *)
(* is active or known not to be, and who is not active rests (users.py:151 *)
(* and schedule_execution.py:48), whatever pages come between the steps.   *)
THEOREM StatusSpec == Spec => [](StatusInvariant /\ now \in Nat)
<1>1. Init => now \in Nat
  BY DEF Init
<1>2. StatusInvariant /\ now \in Nat /\ [Next]_vars => (StatusInvariant /\ now \in Nat)'
  BY StatusStep, ClockRuns
<1>. QED
  BY <1>1, <1>2, StatusInit, PTL DEF Spec

(* A user who is not active has no current execution, and between handlers *)
(* none that may resume, unless a handler or an onboarding thread was      *)
(* under way when the status was set (NonActiveHasNoExecutions,            *)
(* users.py:156).                                                          *)
THEOREM NonActiveUsersRest == Spec => []NonActiveHasNoExecutions
<1>1. StatusInvariant => NonActiveHasNoExecutions
  BY DEF StatusInvariant, NoneMayResume, Rested, NonActiveHasNoExecutions
<1>. QED
  BY <1>1, StatusSpec, PTL

(* STOP and START do not lift a pause: who was paused becomes active by a  *)
(* page of an administrator alone, or because a survey says so             *)
(* (OptOutKeepsPause, response_handlers.py:41).                            *)
THEOREM PausesOutliveOptOuts == Spec => OptOutKeepsPause
<1>1. StatusInvariant /\ now \in Nat /\ [Next]_vars => [user.restore = "paused" /\ user'.status = "active"
           => SetUserStatus("active") \/ Doing(Setters)]_vars
  BY StatusStep DEF PauseKept
<1>. QED
  BY <1>1, StatusSpec, PTL DEF Spec, OptOutKeepsPause

-----------------------------------------------------------------------------
(***************************************************************************)
(* From here on one thread at a time: without Overlap there is no other    *)
(* thread and no page half done, and a run's copy is the user as stored.   *)
(***************************************************************************)
OneThread ==
    /\ other = NoThread /\ pages = {}
    /\ loaded = IF pc \in {"act", "resend"} THEN user ELSE None

Alone == StatusInvariant /\ OneThread

(* Who is not active has no current execution; a status set in the middle  *)
(* of a handler is known by midRun.                                        *)
NonActive ==
    /\ Busy <=> pc # "idle"
    /\ user.status # "active" =>
           /\ user.current = None
           /\ ~user.midRun => pc = "idle" /\ \A e \in Schedules : ~execs[e].active

LEMMA AloneRests == Alone => NonActive
  BY DEF Alone, OneThread, NoThread, Busy, StatusInvariant, NoneMayResume, Rested, NonActive

(* Where a run ends its copy is gone.                                      *)
LEMMA ReturnLeaves ==
    ASSUME job.kind \in Kinds, NEW paused, NEW c, Return(paused, c) \/ Fail \/ Stop
    PROVE  pc' \notin {"act", "resend"} /\ loaded' = None
  BY DEF Return, Fail, Stop, Kinds

(* set_status on the copy is set_status on the user.                       *)
LEMMA SaveIsSet ==
    ASSUME loaded = user, NEW s
    PROVE  /\ Saved(s) = WithStatus(user, s)
           /\ SaveStatus(s) => SetStatus(s) /\ loaded' = user'
  BY DEF Saved, SaveStatus, SetStatus, WithStatus

(* The steps of the handlers.                                              *)
LEMMA RunTurn == ASSUME Alone, Run PROVE TurnRun /\ OneThread'
<1>0. /\ UNCHANGED aside /\ pc \in {"run", "act", "resend"} /\ job.kind \in Kinds
      /\ OneThread
  BY DEF Run, BeginRun, EndRun, SetAttribute, SendMessage, TestConditional, SendQuestion,
         ResendQuestion, Doing, Alone, StatusInvariant, ThreadFine
<1>1. ASSUME loaded' = IF pc' \in {"act", "resend"} THEN user' ELSE None PROVE OneThread'
  BY <1>0, <1>1 DEF OneThread, aside
<1>2. pc \in {"act", "resend"} => loaded = user
  BY <1>0 DEF OneThread
<1>3. CASE BeginRun
  <2>1. \/ Return(FALSE, job.copies)
        \/ loaded' = user' /\ pc' \in {"act", "resend"}
    BY <1>3 DEF BeginRun
  <2>. QED
    BY <1>0, <1>1, <1>3, <2>1, ReturnLeaves DEF TurnRun
<1>4. CASE EndRun
  <2>1. \E c : Return(FALSE, c)
    BY <1>4 DEF EndRun
  <2>. QED
    BY <1>0, <1>1, <1>4, <2>1, ReturnLeaves DEF TurnRun
<1>5. CASE SetAttribute
  <2>. DEFINE set == Assign[Head(agenda).node]
  <2>1. pc = "act" /\ pc' = pc /\ loaded = user
    BY <1>2, <1>5 DEF SetAttribute, Doing
  <2>2. TurnSetAttribute
    BY <1>5, <2>1, SaveIsSet DEF SetAttribute, TurnSetAttribute
  <2>3. loaded' = user'
    BY <1>5, <2>1, SaveIsSet DEF SetAttribute
  <2>. QED
    BY <1>1, <2>1, <2>2, <2>3 DEF TurnRun
<1>6. CASE SendMessage
  <2>1. pc = "act" /\ loaded = user
    BY <1>2, <1>6 DEF SendMessage, Doing
  <2>2. TurnSendMessage
    BY <1>6, <2>1, SaveIsSet DEF SendMessage, TurnSendMessage
  <2>3. (pc' = pc /\ loaded' = user') \/ Fail
    BY <1>6, <2>1, SaveIsSet DEF SendMessage
  <2>. QED
    BY <1>0, <1>1, <2>1, <2>2, <2>3, ReturnLeaves DEF TurnRun
<1>7. CASE TestConditional
  <2>1. UNCHANGED <<pc, user, loaded>>
    BY <1>7 DEF TestConditional, documents
  <2>. QED
    BY <1>0, <1>1, <1>7, <2>1 DEF TurnRun, OneThread
<1>8. CASE SendQuestion
  <2>1. pc = "act" /\ loaded = user
    BY <1>2, <1>8 DEF SendQuestion, Doing
  <2>2. TurnSendQuestion
    BY <1>8, <2>1, SaveIsSet DEF SendQuestion, TurnSendQuestion, Stored, TurnStored, PeriodStart, TurnPeriodStart
  <2>3. Fail \/ \E c : Return(TRUE, c)
    BY <1>8 DEF SendQuestion, Pause
  <2>. QED
    BY <1>0, <1>1, <2>2, <2>3, ReturnLeaves DEF TurnRun
<1>9. CASE ResendQuestion
  <2>1. pc = "resend" /\ loaded = user
    BY <1>2, <1>9 DEF ResendQuestion
  <2>2. TurnResendQuestion
    BY <1>9, <2>1, SaveIsSet DEF ResendQuestion, TurnResendQuestion
  <2>3. Fail \/ \E c : Return(TRUE, c)
    BY <1>9 DEF ResendQuestion, Pause
  <2>. QED
    BY <1>0, <1>1, <2>2, <2>3, ReturnLeaves DEF TurnRun
<1>. QED
  BY <1>3, <1>4, <1>5, <1>6, <1>7, <1>8, <1>9 DEF Run

(* Without Overlap each step is one in turn.                               *)
LEMMA OneThreadStep ==
    ASSUME ~Overlap, Alone, now \in Nat, [Next]_vars
    PROVE  [TurnNext]_vars /\ Alone'
<1>0. OneThread /\ StatusInvariant'
  BY StatusStep DEF Alone
<1>1. ASSUME UNCHANGED <<loaded, aside>>, pc \notin {"act", "resend"}, pc' \notin {"act", "resend"}
      PROVE  OneThread'
  BY <1>0, <1>1 DEF OneThread, aside
<1>2. ASSUME UNCHANGED <<loaded, aside, pc, user>> PROVE OneThread'
  BY <1>0, <1>2 DEF OneThread, aside
<1>3. CASE UNCHANGED vars
  BY <1>0, <1>2, <1>3 DEF vars, aside, Alone
<1>4. CASE Run
  BY <1>0, <1>4, RunTurn DEF TurnNext, Alone
<1>5. CASE Hourly \/ Outstanding
  <2>1. UNCHANGED <<loaded, aside>> /\ pc \notin {"act", "resend"} /\ pc' \notin {"act", "resend"}
    BY <1>5 DEF Hourly, EveryHour, Refresh, VisitPeriod, Outstanding, RunOutstanding, VisitOutstanding
  <2>. QED
    BY <1>0, <1>1, <1>5, <2>1 DEF TurnNext, Alone
<1>6. CASE StartOnboarding \/ Switch
  BY <1>6 DEF StartOnboarding, Switch
<1>7. CASE Onboard
  <2>1. TurnOnboard
    BY <1>7 DEF Onboard, TurnOnboard, OnboardingDue
  <2>2. /\ UNCHANGED <<loaded, other>> /\ pages' = pages \ {"welcome"}
        /\ pc = "idle" /\ pc' = "loop"
    BY <1>7 DEF Onboard
  <2>3. OneThread'
    BY <1>0, <2>2 DEF OneThread
  <2>. QED
    BY <1>0, <2>1, <2>3 DEF TurnNext, TurnOnboarding, Alone
<1>8. ASSUME NEW e \in Schedules, VisitOnCreation(e) PROVE [TurnNext]_vars /\ Alone'
  <2>1. UNCHANGED <<loaded, aside>> /\ pc \notin {"act", "resend"} /\ pc' \notin {"act", "resend"}
    BY <1>8 DEF VisitOnCreation
  <2>. QED
    BY <1>0, <1>1, <1>8, <2>1 DEF TurnNext, TurnOnboarding, Alone
<1>9. CASE EndLoop
  <2>1. UNCHANGED aside /\ Stop
    BY <1>9 DEF EndLoop
  <2>2. OneThread'
    BY <1>0, <2>1 DEF OneThread, aside, Stop
  <2>. QED
    BY <1>0, <1>9, <2>2 DEF TurnNext, Alone
<1>10. CASE Text
  <2>1. UNCHANGED <<loaded, aside>> /\ pc = "idle" /\ pc' \in {"idle", "run"}
    BY <1>10 DEF Text, TextStop, TextStart, TextUnsolicited, TextInvalid, TextUnexpected, TextAnswer, GoOn
  <2>. QED
    BY <1>0, <1>1, <1>10, <2>1 DEF TurnNext, Alone
<1>11. CASE ChangeCohortStatus
  <2>1. TurnChangeCohortStatus /\ UNCHANGED <<loaded, aside>> /\ pc = "idle" /\ pc' = "idle"
    BY <1>11 DEF ChangeCohortStatus, TurnChangeCohortStatus, aside
  <2>. QED
    BY <1>0, <1>1, <2>1 DEF TurnNext, TurnAdmin, Alone
<1>12. CASE ClearExecutions \/ SendStatusMessage
  BY <1>0, <1>12 DEF ClearExecutions, SendStatusMessage, OneThread
<1>13. ASSUME NEW s \in {"active", "paused", "completed"}, SetUserStatus(s)
       PROVE  [TurnNext]_vars /\ Alone'
  <2>1. TurnSetUserStatus(s) /\ UNCHANGED <<loaded, aside>> /\ pc = "idle" /\ pc' = "idle"
    BY <1>13 DEF SetUserStatus, TurnSetUserStatus, aside
  <2>. QED
    BY <1>0, <1>1, <2>1 DEF TurnNext, TurnAdmin, Alone
<1>14. CASE NoticeBlacklisted
  <2>1. TurnNoticeBlacklisted /\ UNCHANGED <<loaded, aside>> /\ pc = "idle" /\ pc' = "idle"
    BY <1>14 DEF NoticeBlacklisted, TurnNoticeBlacklisted
  <2>. QED
    BY <1>0, <1>1, <2>1 DEF TurnNext, Alone
<1>15. CASE NextHour
  <2>1. UNCHANGED <<loaded, aside, pc, user>>
    BY <1>15 DEF NextHour, documents
  <2>. QED
    BY <1>0, <1>2, <1>15, <2>1 DEF TurnNext, Alone
<1>. QED
  BY <1>3, <1>4, <1>5, <1>6, <1>7, <1>8, <1>9, <1>10, <1>11, <1>12, <1>13, <1>14, <1>15
     DEF Next, Onboarding, Admin

(* At first no one waits.                                                  *)
LEMMA InitAlone == Init => Alone
<1>1. Init => OneThread
  BY DEF Init, OneThread
<1>. QED
  BY <1>1, StatusInit DEF Alone
-----------------------------------------------------------------------------
(* What a new period of an execution keeps, and when it is over.           *)
LEMMA NewPeriodKeeps ==
    ASSUME now \in Nat, NEW s \in Calendar, NEW x \in Execution(Questions), NEW active \in BOOLEAN,
           NEW n, n = NewPeriod(x, s, now, active)
    PROVE  /\ n.state # None => n.state = x.state /\ n.start = x.start /\ n.active = x.active
           /\ s.subtype = "on_user_creation" => n.end = None
           /\ s.subtype \in {"recurring", "daily_limit"} \/ (s.subtype = "one_time" /\ now >= Due(s))
                  => ~Expired(n, now)
           /\ s.subtype = "one_time" /\ now < Due(s) => n.state = x.state
<1>1. s.subtype \in Subtypes /\ Due(s) \in Nat
  BY DueType DEF Calendar
<1>2. CASE s.subtype = "one_time" /\ now >= Due(s)
  <2>1. n = Period(now, Due(s), None, s, active)
    BY <1>2, OneTimeDue
  <2>. QED
    BY <1>1, <1>2, <2>1 DEF Period, Expired
<1>3. CASE s.subtype = "one_time" /\ now < Due(s)
  <2>1. x = [start |-> x.start, end |-> x.end, resends |-> x.resends,
             active |-> x.active, state |-> x.state]
    BY DEF Execution
  <2>2. n = [start |-> x.start, end |-> Due(s), resends |-> {}, active |-> x.active, state |-> x.state]
    BY <1>3, <2>1, OneTimeNotDue
  <2>3. n.state = x.state /\ n.start = x.start /\ n.active = x.active
    BY <2>2
  <2>. QED
    BY <1>1, <1>3, <2>3
<1>4. CASE s.subtype = "recurring"
  <2>1. n.state = None /\ n.end \in Int /\ n.end > now
    BY <1>4, RecurringPeriod
  <2>. QED
    BY <1>4, <2>1 DEF Expired
<1>5. CASE s.subtype = "daily_limit"
  <2>. DEFINE start == ZeroDay(now) + s.sendHour
  <2>1. n = Period(now, start, start + Days(35000), s, active)
    BY <1>5 DEF NewPeriod
  <2>2. n.end = start + Days(35000) /\ n.state = None
    BY <2>1 DEF Period
  <2>3. /\ ZeroDay(now) \in Int /\ HourOf(now) \in 0 .. DayHours - 1 /\ now = ZeroDay(now) + HourOf(now)
        /\ s.sendHour \in 0 .. DayHours - 1
    BY DayAndHour DEF Calendar
  <2>4. start + Days(35000) > now /\ start + Days(35000) \in Int
    BY <2>3, TimeAssumption DEF Days
  <2>. QED
    BY <1>5, <2>2, <2>4 DEF Expired
<1>6. CASE s.subtype = "on_user_creation"
  <2>1. n = Period(now, now, None, s, FALSE)
    BY <1>6 DEF NewPeriod
  <2>. QED
    BY <1>6, <2>1 DEF Period
<1>. QED
  BY <1>1, <1>2, <1>3, <1>4, <1>5, <1>6 DEF Subtypes

(* A Response is found exactly when there is one.                          *)
Has(all, q, start) == \E i \in DOMAIN all : all[i].question = q /\ all[i].start = start

(* Response.retrieve finds one if there is one.                            *)
LEMMA RetrieveFinds ==
    ASSUME Types, NEW q, NEW start
    PROVE  Retrieve(q, start) # 0 <=> Has(responses, q, start)
<1>. DEFINE found == {i \in DOMAIN responses : responses[i].question = q /\ responses[i].start = start}
<1>1. found # {} <=> Has(responses, q, start)
  BY DEF Has
<1>2. found \subseteq Nat \ {0}
  BY DEF Types, DocumentTypes
<1>3. found # {} => Min(found) \in found
  BY <1>2, LeastIsMember
<1>. QED
  BY <1>1, <1>2, <1>3 DEF Retrieve

(* As long as no exception ends a run and no run learns of an opt-out,     *)
(* and no survey sets the status; texts may go unsent.                     *)
RunsComplete ==
    Outcomes \subseteq {"sent", "unsent"} /\ \A s \in Setters : Assign[s].attribute # "status"

(* A history: no execution has missed another thing than a question.       *)
MissedQuestions == missed \in [Schedules -> Questions \cup {None}]

(* What is known of a question in a period: it has a Response, or is the   *)
(* one that the execution missed.                                          *)
Known(all, lost, q, start) == Has(all, q, start) \/ lost = q

(* A question that is waited for was noted as a Response, or was missed.   *)
Noted ==
    \A e \in Schedules :
        execs[e].state # None =>
            execs[e].active /\ Known(responses, missed[e], execs[e].state, execs[e].start)

(* A schedule for new users has no end.                                    *)
Endless == \A e \in Schedules : Config[e].subtype = "on_user_creation" => execs[e].end = None

(* A handler at work is an active user's, and has what the database has.   *)
UpToDate ==
    /\ Working \/ pc = "outstanding" => IsActive
    /\ Working => job.copies = execs

(* The user's current execution waits for an answer, or is under way.      *)
CurrentWaits ==
    /\ pc \in {"act", "resend"} => user.current = job.at
    /\ \A c \in Schedules :
           user.current = c =>
               \/ execs[c].state # None
               \/ pc \in {"act", "resend"}
               \/ pc = "run" /\ job.at = c /\ ~Expired(execs[c], now)

(* The hourly job runs nothing after a question, and has passed the        *)
(* execution that asked it.                                                *)
HourTurns ==
    Working /\ job.kind = "hour" =>
        /\ pc \in {"run", "act", "resend"} => ~job.sent
        /\ job.sent => user.current \notin job.todo

(* The inductive invariant of EveryReplyIsExpected.                        *)
Replies == Noted /\ Endless /\ UpToDate /\ CurrentWaits /\ HourTurns

(* Steps that leave the documents and the place in the handler.            *)
LEMMA SameReplies ==
    ASSUME Replies, UNCHANGED <<now, cohortActive, execs, responses, pc, job, missed>>,
           user'.current = user.current, user'.status = user.status
    PROVE  Replies'
  BY DEF Replies, Noted, Known, Has, Endless, UpToDate, IsActive, Working, Running, CurrentWaits, HourTurns

(* Steps between handlers.                                                 *)
LEMMA IdleReplies ==
    ASSUME Types, Replies, UNCHANGED missed, pc = "idle", pc' = "idle",
           UNCHANGED execs \/ execs' = Cleared,
           UNCHANGED responses,
           user'.current = None \/ (user'.current = user.current /\ UNCHANGED execs)
    PROVE  Replies'
<1>1. \A e \in Schedules : Cleared[e].state = None /\ Cleared[e].end = execs[e].end
  BY ClearedType DEF Types, DocumentTypes
<1>2. Noted' /\ Endless'
  BY <1>1 DEF Replies, Noted, Known, Has, Endless
<1>3. None \notin Schedules
  BY NoneApart
<1>4. CurrentWaits'
  BY <1>3 DEF Replies, CurrentWaits
<1>. QED
  BY <1>2, <1>4 DEF Replies, UpToDate, Working, Running, HourTurns

(* ... among them those that set the status.                               *)
LEMMA SetStatusReplies ==
    ASSUME Types, Replies, UNCHANGED missed, NEW s \in Statuses, SetStatus(s), pc = "idle", UNCHANGED <<pc, responses>>
    PROVE  Replies'
<1>1. user' = WithStatus(user, s) /\ (execs' = Cleared \/ UNCHANGED execs)
  BY SetStatusStep
<1>2. user'.current = None \/ (user'.current = user.current /\ UNCHANGED execs)
  <2>1. CASE s = user.status
    BY <1>1, <2>1, StatusSetType, SetStatusStep DEF Types, DocumentTypes
  <2>2. CASE s # user.status /\ s = "active"
    BY <1>1, <2>2, StatusSetType, SetStatusStep DEF Types, DocumentTypes
  <2>3. CASE s # user.status /\ s # "active"
    BY <1>1, <2>3, StatusSetType DEF Types, DocumentTypes
  <2>. QED
    BY <2>1, <2>2, <2>3
<1>. QED
  BY <1>1, <1>2, IdleReplies

(* run() has returned, with the executions that the database has.          *)
LEMMA ReturnReplies ==
    ASSUME Types, UpToDate, Running, NEW c \in Copies, NEW paused \in BOOLEAN, Return(paused, c), execs' = c,
           UNCHANGED <<now, cohortActive>>, user'.status = user.status,
           job.kind = "hour" => ~job.sent,
           job.kind = "hour" /\ paused => user'.current = job.at,
           \A e \in Schedules : user'.current = e => c[e].state # None
    PROVE  UpToDate' /\ CurrentWaits' /\ HourTurns'
<1>1. /\ job \in Local /\ job.kind \in Kinds /\ job.at \in Schedules /\ job.at \notin job.todo /\ IsActive
  BY DEF Types, JobTypes, UpToDate, Working
<1>2. /\ pc' \in {"idle", "outstanding", "loop", "run", "refresh"}
      /\ pc' \in {"loop", "run", "refresh"} =>
             job' = [job EXCEPT !.sent = job.sent \/ paused, !.resend = FALSE, !.copies = c]
      /\ pc' = "run" => job.kind = "hour" /\ ~(job.sent \/ paused)
  BY <1>1, ReturnTypes, Zenon
<1>3. (job.sent \/ paused) \in BOOLEAN
  BY <1>1 DEF Local
<1>4. pc' \in {"loop", "run", "refresh"} =>
          /\ job'.kind = job.kind /\ job'.at = job.at /\ job'.todo = job.todo /\ job'.copies = c
          /\ job'.sent = (job.sent \/ paused)
  BY <1>1, <1>2, <1>3 DEF Local
<1>5. Working' => pc' \in {"loop", "run", "refresh"}
  BY <1>2 DEF Working, Running
<1>6. UpToDate'
  BY <1>1, <1>4, <1>5 DEF UpToDate, IsActive
<1>7. CurrentWaits'
  BY <1>2 DEF CurrentWaits
<1>8. HourTurns'
  <2>. SUFFICES ASSUME Working', job'.kind = "hour"
                PROVE  /\ pc' \in {"run", "act", "resend"} => ~job'.sent
                       /\ job'.sent => user'.current \notin job'.todo
    BY DEF HourTurns
  <2>1. job.kind = "hour" /\ job'.todo = job.todo /\ job'.sent = (job.sent \/ paused)
    BY <1>4, <1>5
  <2>2. pc' \in {"run", "act", "resend"} => ~job'.sent
    BY <1>2, <2>1
  <2>3. job'.sent => paused
    BY <2>1
  <2>. QED
    BY <1>1, <2>1, <2>2, <2>3
<1>. QED
  BY <1>6, <1>7, <1>8

(* The start of run(): the execution becomes the current one, unless it    *)
(* has expired.                                                            *)
LEMMA BeginRunReplies == ASSUME Types, Replies, UNCHANGED missed, BeginRun PROVE Replies'
<1>1. /\ pc = "run" /\ Running /\ Working /\ IsActive /\ job.copies = execs /\ job.at \in Schedules
      /\ execs \in Copies
      /\ job.kind = "hour" => ~job.sent /\ (job.sent => user.current \notin job.todo)
  BY Zenon DEF BeginRun, Types, DocumentTypes, JobTypes, Running, Working, Replies, UpToDate, HourTurns
<1>2. UNCHANGED <<now, cohortActive, execs, responses>>
  BY Zenon DEF BeginRun
<1>3. Noted' /\ Endless'
  BY <1>2 DEF Replies, Noted, Known, Has, Endless
<1>4. CASE Expired(job.copies[job.at], now) /\ Return(FALSE, job.copies) /\ UNCHANGED user
  <2>1. \A e \in Schedules : user'.current = e => job.copies[e].state # None
    BY <1>1, <1>4 DEF Replies, CurrentWaits
  <2>2. execs' = job.copies /\ job.copies \in Copies /\ user'.status = user.status /\ UpToDate
    BY <1>1, <1>2, <1>4 DEF Replies
  <2>3. UNCHANGED <<now, cohortActive>> /\ Return(FALSE, job.copies)
    BY <1>2, <1>4
  <2>4. UpToDate' /\ CurrentWaits' /\ HourTurns'
    BY <1>1, <2>1, <2>2, <2>3, ReturnReplies
  <2>. QED
    BY <1>3, <2>4 DEF Replies
<1>5. CASE /\ user' = [user EXCEPT !.current = job.at]
           /\ pc' = IF job.copies[job.at].state # None /\ job.resend THEN "resend" ELSE "act"
           /\ UNCHANGED job
  <2>1. user'.current = job.at /\ user'.status = user.status /\ pc' \in {"act", "resend"}
    BY <1>5 DEF Types, DocumentTypes, Document
  <2>2. UpToDate'
    BY <1>1, <1>2, <1>5, <2>1 DEF UpToDate, IsActive
  <2>3. CurrentWaits'
    BY <1>5, <2>1 DEF CurrentWaits
  <2>4. HourTurns'
    BY <1>1, <1>5, <2>1 DEF HourTurns
  <2>. QED
    BY <1>3, <2>2, <2>3, <2>4 DEF Replies
<1>. QED
  BY <1>1, <1>4, <1>5, Zenon DEF BeginRun

(* Where a run ends, at the root or at a question that was noted.          *)
LEMMA EndedReplies ==
    ASSUME Types, Replies, Running, NEW q \in Questions \cup {None},
           execs' = [execs EXCEPT ![job.at] = Ended(@, q)],
           \A n, start : Has(responses, n, start) => Has(responses', n, start),
           \A e \in Schedules \ {job.at} : missed'[e] = missed[e],
           q # None => Known(responses', missed'[job.at], q, execs[job.at].start)
    PROVE  /\ Noted' /\ Endless' /\ execs' = [job.copies EXCEPT ![job.at] = Ended(@, q)]
           /\ execs' \in Copies
           /\ execs'[job.at].state = q /\ \A e \in Schedules \ {job.at} : execs'[e] = execs[e]
<1>1. execs \in Copies /\ job.at \in Schedules /\ job.copies = execs
  BY DEF Types, DocumentTypes, JobTypes, Replies, UpToDate, Working
<1>2. execs[job.at] \in Execution(Questions)
  BY <1>1 DEF Copies
<1>3. /\ execs'[job.at] = Ended(execs[job.at], q) /\ execs' \in Copies
      /\ \A e \in Schedules \ {job.at} : execs'[e] = execs[e]
  BY <1>1, <1>2, EndedType DEF Copies
<1>4. /\ Ended(execs[job.at], q).state = q /\ Ended(execs[job.at], q).start = execs[job.at].start
      /\ Ended(execs[job.at], q).end = execs[job.at].end /\ (q # None => Ended(execs[job.at], q).active)
  BY <1>2, EndedType, Zenon DEF Ended, Execution
<1>5. Noted'
  <2>. SUFFICES ASSUME NEW e \in Schedules, execs'[e].state # None
                PROVE  execs'[e].active /\ Known(responses', missed'[e], execs'[e].state, execs'[e].start)
    BY DEF Noted
  <2>1. CASE e = job.at
    <3>1. q # None /\ execs'[e].state = q /\ execs'[e].start = execs[job.at].start /\ execs'[e].active
      BY <1>3, <1>4, <2>1
    <3>. QED
      BY <2>1, <3>1
  <2>2. CASE e # job.at
    BY <1>3, <2>2 DEF Replies, Noted, Known
  <2>. QED
    BY <2>1, <2>2
<1>6. Endless'
  BY <1>3, <1>4 DEF Replies, Endless
<1>. QED
  BY <1>1, <1>3, <1>4, <1>5, <1>6

(* The tree is done: the user is free.                                     *)
LEMMA EndRunReplies == ASSUME Types, Replies, UNCHANGED missed, EndRun PROVE Replies'
<1>1. /\ Running /\ Working /\ UNCHANGED <<now, cohortActive, responses>>
      /\ execs' = [execs EXCEPT ![job.at] = Ended(@, None)]
      /\ Return(FALSE, [job.copies EXCEPT ![job.at] = Ended(@, None)])
      /\ user' = [user EXCEPT !.current = None]
  BY DEF EndRun, Running, Working
<1>2. user'.current = None /\ user'.status = user.status
  BY <1>1 DEF Types, DocumentTypes, Document
<1>3. Noted' /\ Endless' /\ execs' = [job.copies EXCEPT ![job.at] = Ended(@, None)] /\ execs' \in Copies
  BY <1>1, EndedReplies DEF Has
<1>4. job.kind = "hour" => ~job.sent
  BY <1>1 DEF EndRun, Replies, HourTurns
<1>5. UpToDate' /\ CurrentWaits' /\ HourTurns'
  <2>. DEFINE c == [job.copies EXCEPT ![job.at] = Ended(@, None)]
  <2>1. c \in Copies /\ Return(FALSE, c) /\ execs' = c
    BY <1>1, <1>3
  <2>. HIDE DEF c
  <2>2. \A e \in Schedules : user'.current # e
    BY <1>2, NoneApart
  <2>. QED
    BY <1>1, <1>2, <1>4, <2>1, <2>2, ReturnReplies DEF Replies
<1>. QED
  BY <1>3, <1>5 DEF Replies

(* A question of the survey under way was sent, or missed, and is waited   *)
(* for.                                                                    *)
LEMMA PauseReplies ==
    ASSUME Types, Replies, pc \in {"act", "resend"}, NEW q \in Questions, Pause(q, execs),
           UNCHANGED <<now, user, cohortActive>>,
           \A n, start : Has(responses, n, start) => Has(responses', n, start),
           \A e \in Schedules \ {job.at} : missed'[e] = missed[e],
           Known(responses', missed'[job.at], q, execs[job.at].start)
    PROVE  Replies'
<1>0. Running /\ Working
  BY DEF Running, Working
<1>1. /\ execs' = [execs EXCEPT ![job.at] = Ended(@, q)]
      /\ Return(TRUE, [job.copies EXCEPT ![job.at] = Ended(@, q)])
  BY DEF Pause
<1>2. q # None
  BY NoneApart
<1>3. /\ Noted' /\ Endless' /\ execs' = [job.copies EXCEPT ![job.at] = Ended(@, q)]
      /\ execs' \in Copies /\ execs'[job.at].state = q
  BY <1>0, <1>1, EndedReplies
<1>4. (job.kind = "hour" => ~job.sent) /\ user'.current = job.at
  BY <1>0 DEF Replies, HourTurns, CurrentWaits
<1>5. UpToDate' /\ CurrentWaits' /\ HourTurns'
  <2>. DEFINE c == [job.copies EXCEPT ![job.at] = Ended(@, q)]
  <2>1. c \in Copies /\ Return(TRUE, c) /\ execs' = c /\ c[job.at].state = q
    BY <1>1, <1>3
  <2>. HIDE DEF c
  <2>2. \A e \in Schedules : user'.current = e => c[e].state # None
    BY <1>2, <1>4, <2>1
  <2>. QED
    BY <1>0, <1>4, <2>1, <2>2, ReturnReplies DEF Replies
<1>. QED
  BY <1>3, <1>5 DEF Replies

(* send_question: a Response is stored, or was, or the question is missed. *)
LEMMA SendQuestionReplies ==
    ASSUME Types, Replies, MissedQuestions, RunsComplete, TurnSendQuestion
    PROVE  Replies'
<1>. DEFINE q == Head(agenda).node
<1>1. /\ q \in Questions /\ pc = "act" /\ Pause(q, execs) /\ UNCHANGED <<now, user, cohortActive>>
      /\ \/ responses' = TurnStored(q) /\ missed' = [missed EXCEPT ![job.at] = None]
         \/ responses' = responses /\ missed' = [missed EXCEPT ![job.at] = q]
  BY DEF TurnSendQuestion, Doing, RunsComplete
<1>2. user.current = job.at /\ job.at \in Schedules /\ responses \in Seq(Response)
  BY <1>1 DEF Replies, CurrentWaits, Types, DocumentTypes, JobTypes, Running
<1>3. TurnPeriodStart = execs[job.at].start
  BY <1>2, NoneApart DEF TurnPeriodStart
<1>. HIDE DEF q
<1>4. \A e \in Schedules \ {job.at} : missed'[e] = missed[e]
  BY <1>1, <1>2 DEF MissedQuestions
<1>5. /\ \A n, start : Has(responses, n, start) => Has(responses', n, start)
      /\ Known(responses', missed'[job.at], q, execs[job.at].start)
  <2>1. CASE responses' = responses /\ missed' = [missed EXCEPT ![job.at] = q]
    <3>1. missed'[job.at] = q
      BY <1>2, <2>1 DEF MissedQuestions
    <3>. QED
      BY <2>1, <3>1 DEF Known
  <2>2. CASE responses' = TurnStored(q) /\ Retrieve(q, TurnPeriodStart) # 0
    <3>1. responses' = responses
      BY <2>2 DEF TurnStored
    <3>2. Has(responses, q, TurnPeriodStart)
      BY <2>2, RetrieveFinds
    <3>. QED
      BY <1>3, <3>1, <3>2 DEF Known
  <2>3. CASE responses' = TurnStored(q) /\ ~(Retrieve(q, TurnPeriodStart) # 0)
    <3>. DEFINE r == [question |-> q, start |-> TurnPeriodStart, answer |-> None]
    <3>1. responses' = Append(responses, r) /\ r.question = q /\ r.start = execs[job.at].start
      BY <1>3, <2>3 DEF TurnStored
    <3>. HIDE DEF r
    <3>2. /\ DOMAIN responses' = 1 .. Len(responses) + 1 /\ DOMAIN responses = 1 .. Len(responses)
          /\ Len(responses) \in Nat
          /\ \A i \in DOMAIN responses : responses'[i] = responses[i]
          /\ responses'[Len(responses) + 1] = r
      BY <1>2, <3>1
    <3>3. \A n, start : Has(responses, n, start) => Has(responses', n, start)
      BY <3>2 DEF Has
    <3>4. Has(responses', q, execs[job.at].start)
      BY <3>1, <3>2 DEF Has
    <3>. QED
      BY <3>3, <3>4 DEF Known
  <2>. QED
    BY <1>1, <2>1, <2>2, <2>3
<1>. QED
  BY <1>1, <1>4, <1>5, PauseReplies

(* A resend: the question was noted when it was first sent.                *)
LEMMA ResendQuestionReplies == ASSUME Types, Replies, UNCHANGED missed, RunsComplete, TurnResendQuestion PROVE Replies'
<1>. DEFINE q == job.copies[job.at].state
<1>1. /\ pc = "resend" /\ Pause(q, execs) /\ UNCHANGED <<now, user, cohortActive, responses>>
  BY DEF TurnResendQuestion, RunsComplete
<1>2. q \in Questions /\ job.at \in Schedules /\ job.copies = execs
  BY <1>1 DEF Types, JobTypes, Replies, UpToDate, Running, Working
<1>. HIDE DEF q
<1>3. execs[job.at].state # None /\ q = execs[job.at].state
  BY <1>2, NoneApart DEF q
<1>4. Known(responses, missed[job.at], q, execs[job.at].start)
  BY <1>2, <1>3 DEF Replies, Noted
<1>5. responses' = responses
  BY <1>1
<1>. QED
  BY <1>1, <1>2, <1>4, <1>5, PauseReplies

(* The other actions of a tree.                                            *)
LEMMA OtherActionsReplies ==
    ASSUME Types, Replies, UNCHANGED missed, RunsComplete, TurnSetAttribute \/ TurnSendMessage \/ TestConditional
    PROVE  Replies'
<1>1. UNCHANGED <<now, cohortActive, execs, responses, pc, job>>
  <2>1. CASE TurnSetAttribute
    <3>1. Assign[Head(agenda).node].attribute # "status"
      BY <2>1 DEF TurnSetAttribute, Doing, RunsComplete
    <3>. QED
      BY <2>1, <3>1 DEF TurnSetAttribute
  <2>2. CASE TurnSendMessage
    BY <2>2 DEF TurnSendMessage, RunsComplete
  <2>3. CASE TestConditional
    BY <2>3, Zenon DEF TestConditional, documents
  <2>. QED
    BY <2>1, <2>2, <2>3
<1>2. user'.current = user.current /\ user'.status = user.status
  <2>1. CASE TurnSetAttribute
    <3>1. Assign[Head(agenda).node].attribute # "status"
      BY <2>1 DEF TurnSetAttribute, Doing, RunsComplete
    <3>2. user' = user \/ \E v : user' = [user EXCEPT !.attribute = v]
      BY <2>1, <3>1 DEF TurnSetAttribute
    <3>. QED
      BY <3>2 DEF Types, DocumentTypes, Document
  <2>2. CASE TurnSendMessage
    BY <2>2 DEF TurnSendMessage, RunsComplete
  <2>3. CASE TestConditional
    BY <2>3, Zenon DEF TestConditional, documents
  <2>. QED
    BY <2>1, <2>2, <2>3
<1>. QED
  BY <1>1, <1>2, SameReplies

(* A handler starts, for an active user.                                   *)
LEMMA HandlerReplies ==
    ASSUME Types, Replies, UNCHANGED missed, pc \in {"idle", "outstanding"}, pc' = "loop", IsActive,
           NEW kind \in Kinds, NEW todo \in SUBSET Schedules, job' = Job(kind, todo),
           UNCHANGED <<cohortActive, execs, responses>>,
           user'.current = user.current, user'.status = user.status
    PROVE  Replies'
<1>1. execs \in Copies
  BY DEF Types, DocumentTypes
<1>2. job'.copies = execs /\ ~job'.sent
  BY <1>1, NewJob
<1>3. Noted' /\ Endless'
  BY DEF Replies, Noted, Endless
<1>4. UpToDate' /\ HourTurns'
  BY <1>2 DEF UpToDate, IsActive, HourTurns
<1>5. CurrentWaits'
  BY DEF Replies, CurrentWaits
<1>. QED
  BY <1>3, <1>4, <1>5 DEF Replies

(* The hourly job, the onboarding and run_outstanding_schedules start.     *)
LEMMA StartReplies == ASSUME Types, Replies, UNCHANGED missed, EveryHour \/ TurnOnboard \/ RunOutstanding PROVE Replies'
<1>1. CASE EveryHour
  <2>1. CASE SetStatus("inactive") /\ UNCHANGED pc
    BY <1>1, <2>1, SetStatusReplies DEF EveryHour, Statuses
  <2>2. CASE pc' = "loop" /\ job' = Job("hour", Schedules) /\ UNCHANGED <<user, execs>>
    <3>1. pc = "idle" /\ IsActive /\ UNCHANGED <<cohortActive, responses>>
      BY <1>1 DEF EveryHour
    <3>2. "hour" \in Kinds
      BY DEF Kinds
    <3>. QED
      BY <2>2, <3>1, <3>2, HandlerReplies
  <2>. QED
    BY <1>1, <2>1, <2>2 DEF EveryHour
<1>2. CASE TurnOnboard
  <2>. DEFINE todo == {e \in Schedules : Config[e].subtype = "on_user_creation"}
  <2>1. /\ pc = "idle" /\ pc' = "loop" /\ IsActive /\ UNCHANGED <<cohortActive, execs, responses>>
        /\ job' = Job("onboard", todo) /\ todo \in SUBSET Schedules /\ "onboard" \in Kinds
    BY <1>2 DEF TurnOnboard, Kinds
  <2>2. user'.current = user.current /\ user'.status = user.status
    BY <1>2 DEF TurnOnboard, Types, DocumentTypes, Document
  <2>. HIDE DEF todo
  <2>. QED
    BY <2>1, <2>2, HandlerReplies
<1>3. CASE RunOutstanding
  <2>. DEFINE todo == {e \in Schedules : execs[e].active}
  <2>1. /\ pc = "outstanding" /\ pc' = "loop" /\ UNCHANGED <<user, cohortActive, execs, responses>>
        /\ job' = Job("outstanding", todo) /\ todo \in SUBSET Schedules /\ "outstanding" \in Kinds
    BY <1>3 DEF RunOutstanding, documents, Kinds
  <2>2. IsActive
    BY <2>1 DEF Replies, UpToDate
  <2>. HIDE DEF todo
  <2>. QED
    BY <2>1, <2>2, HandlerReplies
<1>. QED
  BY <1>1, <1>2, <1>3

(* The visit of a schedule for new users.                                  *)
LEMMA VisitOnCreationReplies ==
    ASSUME Types, Replies, UNCHANGED missed, NEW e \in Schedules, VisitOnCreation(e)
    PROVE  Replies'
<1>1. /\ UNCHANGED <<now, user, cohortActive, responses>>
      /\ pc = "loop" /\ pc' \in {"loop", "run"}
      /\ job.kind = "onboard" /\ job'.kind = job.kind
      /\ job'.copies = [job.copies EXCEPT ![e] = [job.copies[e] EXCEPT !.active = TRUE]]
      /\ execs' = [execs EXCEPT ![e] = [execs[e] EXCEPT !.active = TRUE]]
  BY VisitOnCreationStep
<1>2. execs \in Copies /\ job.copies = execs /\ IsActive
  BY <1>1 DEF Types, DocumentTypes, Replies, UpToDate, Working
<1>3. \A c \in Schedules :
          /\ execs'[c].state = execs[c].state /\ execs'[c].start = execs[c].start
          /\ execs'[c].end = execs[c].end /\ (execs[c].active => execs'[c].active)
  BY <1>1, <1>2 DEF Copies, Execution
<1>4. Noted' /\ Endless'
  BY <1>1, <1>3 DEF Replies, Noted, Endless
<1>5. UpToDate' /\ HourTurns'
  BY <1>1, <1>2 DEF UpToDate, IsActive, HourTurns
<1>6. CurrentWaits'
  BY <1>1, <1>3 DEF Replies, CurrentWaits
<1>. QED
  BY <1>4, <1>5, <1>6 DEF Replies

(* The visit of an outstanding execution.                                  *)
LEMMA VisitOutstandingReplies ==
    ASSUME Types, Replies, UNCHANGED missed, NEW e \in Schedules, VisitOutstanding(e)
    PROVE  Replies'
<1>1. /\ UNCHANGED <<now, user, cohortActive, execs, responses>>
      /\ pc = "loop" /\ pc' = "run"
      /\ job.kind = "outstanding" /\ job'.kind = job.kind /\ job'.copies = job.copies
  BY VisitOutstandingStep
<1>2. Noted' /\ Endless'
  BY <1>1 DEF Replies, Noted, Endless
<1>3. UpToDate' /\ HourTurns'
  BY <1>1 DEF Replies, UpToDate, IsActive, HourTurns, Working
<1>4. CurrentWaits'
  BY <1>1 DEF Replies, CurrentWaits
<1>. QED
  BY <1>2, <1>3, <1>4 DEF Replies

(* A handler ends.                                                         *)
LEMMA EndLoopReplies == ASSUME Types, Replies, UNCHANGED missed, EndLoop PROVE Replies'
<1>1. UNCHANGED <<now, user, cohortActive, execs, responses>> /\ pc = "loop" /\ pc' = "idle"
  BY DEF EndLoop, Stop, documents
<1>2. Noted' /\ Endless'
  BY <1>1 DEF Replies, Noted, Endless
<1>3. UpToDate' /\ HourTurns'
  BY <1>1 DEF UpToDate, HourTurns, Working, Running
<1>4. CurrentWaits'
  BY <1>1 DEF Replies, CurrentWaits
<1>. QED
  BY <1>2, <1>3, <1>4 DEF Replies

(* Execution e after the start of its pass: it waits for what it waited    *)
(* for, or a period has started.                                           *)
LEMMA PeriodSetReplies ==
    ASSUME Types, Endless, NEW e \in Schedules, job.copies = execs
    PROVE  /\ PeriodSet(e).state # None => /\ PeriodSet(e).state = execs[e].state
                                          /\ PeriodSet(e).start = execs[e].start
                                          /\ PeriodSet(e).active = execs[e].active
           /\ Config[e].subtype = "on_user_creation" => PeriodSet(e).end = None
           /\ \/ PeriodSet(e).state = execs[e].state
              \/ Starts(e) /\ ~Expired(PeriodSet(e), now)
<1>. DEFINE s == Config[e]
            x == execs[e]
            n == NewPeriod(x, s, now, TRUE)
<1>1. s \in Calendar /\ x \in Execution(Questions) /\ now \in Nat /\ s.subtype \in Subtypes
  BY EngineAssumption DEF Types, DocumentTypes, Copies, Calendar
<1>2. /\ n.state # None => n.state = x.state /\ n.start = x.start /\ n.active = x.active
      /\ s.subtype = "on_user_creation" => n.end = None
      /\ s.subtype \in {"recurring", "daily_limit"} \/ (s.subtype = "one_time" /\ now >= Due(s))
             => ~Expired(n, now)
      /\ s.subtype = "one_time" /\ now < Due(s) => n.state = x.state
  <2>1. TRUE \in BOOLEAN /\ n = NewPeriod(x, s, now, TRUE)
    OBVIOUS
  <2>. HIDE DEF s, x, n
  <2>. QED
    BY <1>1, <2>1, NewPeriodKeeps, Zenon
<1>3. CASE Resets(x, now, FALSE)
  <2>1. PeriodSet(e) = n /\ x.end # None
    BY <1>3 DEF PeriodSet, SetPeriod, Resets
  <2>2. s.subtype # "on_user_creation"
    BY <2>1 DEF Endless
  <2>3. Starts(e) <=> \/ s.subtype \in {"recurring", "daily_limit"}
                      \/ s.subtype = "one_time" /\ now >= Due(s)
    BY <1>3 DEF Starts, StartsPeriod, Due
  <2>4. Due(s) \in Nat
    BY <1>1, DueType
  <2>5. (s.subtype = "one_time" /\ now < Due(s)) \/ Starts(e)
    BY <1>1, <2>2, <2>3, <2>4 DEF Subtypes
  <2>. HIDE DEF s, x, n
  <2>6. n.state = x.state \/ (Starts(e) /\ ~Expired(n, now))
    BY <1>2, <2>3, <2>5
  <2>. QED
    BY <1>2, <2>1, <2>2, <2>6 DEF s, x
<1>4. CASE ~Resets(x, now, FALSE)
  <2>1. PeriodSet(e) = x
    BY <1>4 DEF PeriodSet, SetPeriod
  <2>. QED
    BY <2>1 DEF Endless
<1>. QED
  BY <1>3, <1>4

(* The start of a pass: when the current execution goes back to the root,  *)
(* it runs at once, as nothing was sent before its turn.                   *)
LEMMA VisitPeriodReplies ==
    ASSUME Types, Replies, UNCHANGED missed, NEW e \in Schedules, VisitPeriod(e)
    PROVE  Replies'
<1>1. /\ UNCHANGED <<now, user, cohortActive, responses>>
      /\ pc = "loop" /\ job.kind = "hour" /\ e \in job.todo
      /\ pc' = IF IsDue(e) \/ (Starts(e) /\ ~job.sent) THEN "run" ELSE "refresh"
      /\ job'.at = e /\ job'.todo = job.todo \ {e} /\ job'.sent = job.sent
  BY VisitPeriodStep, Zenon
<1>2. execs \in Copies /\ job.copies = execs /\ IsActive
  BY <1>1 DEF Types, DocumentTypes, Replies, UpToDate, Working
<1>3. PICK kept \in Execution(Questions), saved \in Execution(Questions) :
          /\ kept.start = PeriodSet(e).start /\ kept.end = PeriodSet(e).end
          /\ kept.active = PeriodSet(e).active /\ kept.state = PeriodSet(e).state
          /\ job'.copies = [job.copies EXCEPT ![e] = kept]
          /\ execs' = [execs EXCEPT ![e] = saved]
          /\ job.copies[e] = execs[e] => saved = kept
  BY VisitPeriodStep, Zenon
<1>4. /\ execs'[e] = kept /\ job'.copies = execs'
      /\ \A c \in Schedules \ {e} : execs'[c] = execs[c]
  BY <1>2, <1>3 DEF Copies
<1>5. /\ execs'[e].start = PeriodSet(e).start /\ execs'[e].end = PeriodSet(e).end
      /\ execs'[e].active = PeriodSet(e).active /\ execs'[e].state = PeriodSet(e).state
  BY <1>3, <1>4
<1>6. /\ PeriodSet(e).state # None => /\ PeriodSet(e).state = execs[e].state
                                     /\ PeriodSet(e).start = execs[e].start
                                     /\ PeriodSet(e).active = execs[e].active
      /\ Config[e].subtype = "on_user_creation" => PeriodSet(e).end = None
      /\ \/ PeriodSet(e).state = execs[e].state
         \/ Starts(e) /\ ~Expired(PeriodSet(e), now)
  BY <1>2, PeriodSetReplies DEF Replies
<1>7. Noted'
  <2>. SUFFICES ASSUME NEW c \in Schedules, execs'[c].state # None
                PROVE  execs'[c].active /\ Known(responses', missed'[c], execs'[c].state, execs'[c].start)
    BY DEF Noted
  <2>1. execs'[c].state = execs[c].state /\ execs'[c].start = execs[c].start
        /\ execs'[c].active = execs[c].active
    BY <1>4, <1>5, <1>6
  <2>2. execs[c].active /\ Known(responses, missed[c], execs[c].state, execs[c].start)
    BY <2>1 DEF Replies, Noted
  <2>. QED
    BY <1>1, <2>1, <2>2
<1>8. Endless'
  BY <1>4, <1>5, <1>6 DEF Replies, Endless
<1>9. UpToDate'
  BY <1>1, <1>2, <1>4 DEF UpToDate, IsActive
<1>10. HourTurns'
  <2>1. pc' = "run" => ~job.sent
    BY <1>1 DEF IsDue
  <2>2. job.sent => user.current \notin job.todo
    BY <1>1 DEF Replies, HourTurns, Working
  <2>. QED
    BY <1>1, <2>1, <2>2 DEF HourTurns
<1>11. CurrentWaits'
  <2>. SUFFICES ASSUME NEW c \in Schedules, user.current = c
                PROVE  execs'[c].state # None \/ (pc' = "run" /\ job'.at = c /\ ~Expired(execs'[c], now))
    BY <1>1 DEF CurrentWaits
  <2>1. execs[c].state # None
    BY <1>1 DEF Replies, CurrentWaits
  <2>2. CASE c = e
    <3>1. job.sent => user.current \notin job.todo
      BY <1>1 DEF Replies, HourTurns, Working
    <3>2. ~job.sent
      BY <1>1, <2>2, <3>1
    <3>3. Expired(execs'[e], now) <=> Expired(PeriodSet(e), now)
      BY <1>5 DEF Expired
    <3>. QED
      BY <1>1, <1>5, <1>6, <2>1, <2>2, <3>2, <3>3
  <2>3. CASE c # e
    BY <1>4, <2>1, <2>3
  <2>. QED
    BY <2>2, <2>3
<1>. QED
  BY <1>7, <1>8, <1>9, <1>10, <1>11 DEF Replies

(* The end of a pass leaves an execution that waits.                       *)
LEMMA RefreshReplies == ASSUME Types, Replies, UNCHANGED missed, Refresh PROVE Replies'
<1>. DEFINE e == job.at
<1>1. /\ UNCHANGED <<now, user, cohortActive, responses>>
      /\ pc = "refresh" /\ pc' = "loop" /\ e \in Schedules /\ job.kind = "hour"
      /\ job'.todo = job.todo /\ job'.sent = job.sent
  BY RefreshStep, Zenon
<1>2. PICK kept \in Execution(Questions), saved \in Execution(Questions) :
          /\ job'.copies = [job.copies EXCEPT ![e] = kept]
          /\ execs' = [execs EXCEPT ![e] = saved]
          /\ job.copies[e] = execs[e] => saved = kept
          /\ saved = execs[e] \/ saved = NewPeriod(execs[e], Config[e], now, FALSE)
          /\ job.copies[e].active => saved = execs[e]
  BY RefreshStep, Zenon
<1>3. execs \in Copies /\ job.copies = execs /\ IsActive
  BY <1>1 DEF Types, DocumentTypes, Replies, UpToDate, Working, Running
<1>4. /\ execs'[e] = saved /\ job'.copies = execs'
      /\ \A c \in Schedules \ {e} : execs'[c] = execs[c]
  BY <1>1, <1>2, <1>3 DEF Copies
<1>5. /\ execs[e].state # None => saved = execs[e]
      /\ execs[e].state = None => saved.state = None
      /\ Config[e].subtype = "on_user_creation" => saved.end = None
  <2>1. Config[e] \in Calendar /\ execs[e] \in Execution(Questions) /\ now \in Nat /\ FALSE \in BOOLEAN
    BY <1>1, <1>3, EngineAssumption DEF Types, DocumentTypes, Copies
  <2>2. execs[e].state # None => saved = execs[e]
    BY <1>1, <1>2, <1>3 DEF Replies, Noted
  <2>3. Config[e].subtype = "on_user_creation" => execs[e].end = None
    BY <1>1 DEF Replies, Endless
  <2>4. CASE saved = NewPeriod(execs[e], Config[e], now, FALSE)
    <3>. HIDE DEF e
    <3>1. /\ saved.state # None => saved.state = execs[e].state
          /\ Config[e].subtype = "on_user_creation" => saved.end = None
      BY <2>1, <2>4, NewPeriodKeeps, Zenon
    <3>. QED
      BY <2>2, <3>1
  <2>. QED
    BY <1>2, <2>2, <2>3, <2>4
<1>. HIDE DEF e
<1>6. Noted'
  <2>. SUFFICES ASSUME NEW c \in Schedules, execs'[c].state # None
                PROVE  execs'[c].active /\ Known(responses', missed'[c], execs'[c].state, execs'[c].start)
    BY DEF Noted
  <2>1. execs'[c] = execs[c]
    BY <1>4, <1>5
  <2>. QED
    BY <1>1, <2>1 DEF Replies, Noted
<1>7. Endless'
  BY <1>4, <1>5 DEF Replies, Endless
<1>8. UpToDate'
  BY <1>1, <1>3, <1>4 DEF UpToDate, IsActive
<1>9. HourTurns'
  BY <1>1 DEF Replies, HourTurns, Working, Running
<1>10. CurrentWaits'
  <2>1. \A c \in Schedules : user.current = c => execs[c].state # None
    BY <1>1 DEF Replies, CurrentWaits
  <2>2. \A c \in Schedules : user.current = c => execs'[c].state # None
    BY <1>4, <1>5, <2>1
  <2>. QED
    BY <1>1, <2>2 DEF CurrentWaits
<1>. QED
  BY <1>6, <1>7, <1>8, <1>9, <1>10 DEF Replies

(* An answer is stored with its Response, and the current execution goes   *)
(* on.                                                                     *)
LEMMA GoOnReplies ==
    ASSUME Types, Replies, UNCHANGED missed, pc = "idle", Solicited, user.current \in Schedules,
           NEW a \in Parsed, GoOn(a), UNCHANGED <<user, cohortActive, execs>>,
           \/ UNCHANGED responses
           \/ /\ AskedResponse \in DOMAIN responses
              /\ \E b \in Parsed \cup {LimitReached} :
                     responses' = [responses EXCEPT ![AskedResponse].answer = b]
    PROVE  Replies'
<1>1. pc' = "run" /\ job'.at = user.current /\ job'.copies = execs /\ job'.kind = "reply"
  BY GoOnStep
<1>2. \A q, start : Has(responses, q, start) => Has(responses', q, start)
  <2>1. CASE UNCHANGED responses
    BY <2>1
  <2>2. ASSUME AskedResponse \in DOMAIN responses, NEW b \in Parsed \cup {LimitReached},
               responses' = [responses EXCEPT ![AskedResponse].answer = b]
        PROVE  \A q, start : Has(responses, q, start) => Has(responses', q, start)
    <3>1. responses \in Seq(Response)
      BY DEF Types, DocumentTypes
    <3>2. DOMAIN responses' = DOMAIN responses
      BY <2>2, <3>1
    <3>3. \A i \in DOMAIN responses :
              responses'[i].question = responses[i].question /\ responses'[i].start = responses[i].start
      BY <2>2, <3>1 DEF Response
    <3>. QED
      BY <3>2, <3>3 DEF Has
  <2>. QED
    BY <2>1, <2>2
<1>3. Noted' /\ Endless'
  BY <1>2 DEF Replies, Noted, Known, Endless
<1>4. UpToDate' /\ HourTurns'
  BY <1>1 DEF UpToDate, IsActive, HourTurns, Solicited
<1>5. CurrentWaits'
  BY <1>1 DEF Replies, CurrentWaits
<1>. QED
  BY <1>3, <1>4, <1>5 DEF Replies

(* The texts.                                                              *)
LEMMA TextReplies == ASSUME Types, Replies, UNCHANGED missed, Text PROVE Replies'
<1>0. user.restore \in Restorable
  BY DEF Types, DocumentTypes, Document
<1>1. ASSUME UNCHANGED <<user, execs, responses, pc>>, pc = "idle" PROVE Replies'
  BY <1>1, IdleReplies
<1>2. CASE TextStop
  BY <1>2, SetStatusReplies DEF TextStop, Statuses
<1>3. CASE TextStart
  <2>1. pc = "idle" /\ UNCHANGED <<pc, responses>>
    BY <1>3 DEF TextStart
  <2>2. CASE SetStatus("active")
    BY <2>1, <2>2, SetStatusReplies DEF Statuses
  <2>3. CASE user.restore # None /\ SetStatus(user.restore)
    <3>1. user.restore \in Statuses
      BY <1>0, <2>3 DEF Restorable, Statuses
    <3>. QED
      BY <2>1, <2>3, <3>1, SetStatusReplies
  <2>4. CASE UNCHANGED <<user, execs>>
    BY <1>1, <2>1, <2>4
  <2>. QED
    BY <1>3, <2>2, <2>3, <2>4 DEF TextStart
<1>4. CASE TextUnsolicited
  <2>1. pc = "idle" /\ UNCHANGED <<pc, responses>> /\ (SetStatus("active") \/ UNCHANGED <<user, execs>>)
    BY <1>4 DEF TextUnsolicited
  <2>2. "active" \in Statuses
    BY DEF Statuses
  <2>. QED
    BY <1>1, <2>1, <2>2, SetStatusReplies
<1>5. CASE TextInvalid
  <2>1. /\ UNCHANGED <<now, cohortActive>> /\ Solicited /\ pc = "idle"
        /\ \/ SetStatus("disabled") /\ "blacklisted" \in Outcomes
           \/ UNCHANGED <<user, execs>>
        /\ \/ UNCHANGED responses
           \/ /\ AskedResponse \in DOMAIN responses
              /\ responses' = [responses EXCEPT ![AskedResponse].answer = LimitReached]
        /\ \/ UNCHANGED <<pc, job>>
           \/ user.current \in Schedules /\ GoOn(None) /\ UNCHANGED <<user, execs>>
    BY <1>5, TextInvalidStep, Zenon
  <2>2. None \in Parsed /\ "disabled" \in Statuses
    BY DEF Parsed, Statuses
  <2>3. CASE user.current \in Schedules /\ GoOn(None) /\ UNCHANGED <<user, execs>>
    BY <2>1, <2>2, <2>3, GoOnReplies
  <2>4. CASE UNCHANGED <<pc, job>>
    <3>1. UNCHANGED responses
      BY <1>5, <2>1, <2>4 DEF TextInvalid, GoOn
    <3>2. CASE SetStatus("disabled")
      BY <2>1, <2>2, <2>4, <3>1, <3>2, SetStatusReplies
    <3>3. CASE UNCHANGED <<user, execs>>
      BY <1>1, <2>1, <2>4, <3>1, <3>3
    <3>. QED
      BY <2>1, <3>2, <3>3
  <2>. QED
    BY <2>1, <2>3, <2>4
<1>6. CASE TextUnexpected
  BY <1>1, <1>6 DEF TextUnexpected
<1>7. ASSUME NEW a \in Answers \cup {Skip}, TextAnswer(a) PROVE Replies'
  <2>1. /\ UNCHANGED <<now, user, cohortActive, execs>> /\ Solicited /\ pc = "idle"
        /\ responses' = [responses EXCEPT ![AskedResponse].answer = a]
        /\ AskedResponse \in DOMAIN responses
        /\ user.current \in Schedules /\ GoOn(a)
    BY <1>7, TextAnswerStep, Zenon
  <2>2. a \in Parsed
    BY DEF Parsed
  <2>. QED
    BY <2>1, <2>2, GoOnReplies
<1>. QED
  BY <1>2, <1>3, <1>4, <1>5, <1>6, <1>7 DEF Text

(* The pages, a notice that comes back blacklisted, and the clock.         *)
LEMMA OtherReplies == ASSUME Types, Replies, UNCHANGED missed, TurnAdmin \/ TurnNoticeBlacklisted \/ NextHour PROVE Replies'
<1>1. CASE TurnChangeCohortStatus
  <2>1. user'.current = None /\ execs' = Cleared /\ pc = "idle" /\ pc' = "idle" /\ UNCHANGED responses
    BY <1>1 DEF TurnChangeCohortStatus, Types, DocumentTypes, Document
  <2>. QED
    BY <2>1, IdleReplies
<1>2. ASSUME NEW s \in {"active", "paused", "completed"}, TurnSetUserStatus(s) PROVE Replies'
  BY <1>2, SetStatusReplies DEF TurnSetUserStatus, Statuses
<1>3. CASE TurnNoticeBlacklisted
  BY <1>3, SetStatusReplies DEF TurnNoticeBlacklisted, Statuses
<1>4. CASE NextHour
  BY <1>4, IdleReplies DEF NextHour, documents
<1>. QED
  BY <1>1, <1>2, <1>3, <1>4 DEF TurnAdmin

(* Only a question is missed, and only by send_question.                   *)
LEMMA MissedBySending ==
    ASSUME Types, MissedQuestions, [TurnNext]_vars
    PROVE  MissedQuestions' /\ (UNCHANGED missed \/ TurnSendQuestion)
<1>1. CASE TurnSendQuestion
  <2>1. \/ UNCHANGED missed
        \/ \E q \in Questions \cup {None} : missed' = [missed EXCEPT ![job.at] = q]
    BY <1>1 DEF TurnSendQuestion, Doing
  <2>. QED
    BY <1>1, <2>1 DEF MissedQuestions
<1>2. ASSUME UNCHANGED missed PROVE MissedQuestions' /\ UNCHANGED missed
  BY <1>2 DEF MissedQuestions
<1>3. TurnRun => UNCHANGED missed \/ TurnSendQuestion
  BY Zenon DEF TurnRun, BeginRun, EndRun, TurnSetAttribute, TurnSendMessage, TestConditional,
               TurnResendQuestion, documents
<1>4. Hourly \/ TurnOnboarding \/ Outstanding \/ EndLoop => UNCHANGED missed
  BY Zenon DEF Hourly, EveryHour, Refresh, VisitPeriod, TurnOnboarding, TurnOnboard, VisitOnCreation,
         Outstanding, RunOutstanding, VisitOutstanding, EndLoop, documents
<1>5. Text \/ TurnAdmin \/ TurnNoticeBlacklisted \/ NextHour \/ UNCHANGED vars => UNCHANGED missed
  BY Zenon DEF Text, TextStop, TextStart, TextUnsolicited, TextInvalid, TextUnexpected, TextAnswer,
         TurnAdmin, TurnChangeCohortStatus, TurnSetUserStatus, TurnNoticeBlacklisted, NextHour, documents, vars
<1>. QED
  BY <1>1, <1>2, <1>3, <1>4, <1>5 DEF TurnNext

(* Every step keeps the invariant, as long as runs complete.               *)
LEMMA NextReplies ==
    ASSUME Types, Replies, MissedQuestions, RunsComplete, [TurnNext]_vars
    PROVE  Replies'
<1>0. UNCHANGED missed \/ TurnSendQuestion
  BY MissedBySending
<1>1. CASE TurnRun
  BY <1>0, <1>1, BeginRunReplies, EndRunReplies, OtherActionsReplies, SendQuestionReplies, ResendQuestionReplies,
     Zenon DEF TurnRun
<1>2. CASE UNCHANGED missed /\ (Hourly \/ TurnOnboarding \/ Outstanding \/ EndLoop)
  BY <1>2, StartReplies, RefreshReplies, VisitPeriodReplies, VisitOnCreationReplies, VisitOutstandingReplies,
     EndLoopReplies, Zenon DEF Hourly, TurnOnboarding, Outstanding
<1>3. CASE UNCHANGED missed /\ (Text \/ TurnAdmin \/ TurnNoticeBlacklisted \/ NextHour)
  BY <1>3, TextReplies, OtherReplies, Zenon
<1>4. CASE UNCHANGED vars
  BY <1>4, SameReplies DEF vars
<1>. QED
  BY <1>0, <1>1, <1>2, <1>3, <1>4, SendQuestionReplies DEF TurnNext

(* The initial states satisfy it.                                          *)
LEMMA InitReplies == Init => Replies
<1>. SUFFICES ASSUME Init PROVE Replies
  OBVIOUS
<1>1. ASSUME NEW e \in Schedules
      PROVE  /\ execs[e].state = None
             /\ Config[e].subtype = "on_user_creation" => execs[e].end = None
  <2>. DEFINE made == NewPeriod(Blank, Config[e], 0, TRUE)
  <2>1. Config[e] \in Calendar /\ 0 \in Nat
    BY EngineAssumption
  <2>2. made \in Execution(Questions)
    <3>1. Blank \in Execution(Questions)
      BY DEF Blank, Execution
    <3>. QED
      BY <2>1, <3>1, NewPeriodType
  <2>3. execs[e] = [made EXCEPT !.active = FALSE] /\ execs[e].state = None
    BY <2>1, MakeExecutionType DEF Init
  <2>4. Config[e].subtype = "on_user_creation" => made.end = None
    BY DEF NewPeriod, Period
  <2>. QED
    BY <2>2, <2>3, <2>4 DEF Execution
<1>2. Noted /\ Endless
  BY <1>1 DEF Noted, Endless
<1>3. UpToDate /\ HourTurns
  BY DEF Init, UpToDate, HourTurns, Working, Running
<1>4. CurrentWaits
  BY NoneApart DEF Init, CurrentWaits
<1>. QED
  BY <1>2, <1>3, <1>4 DEF Replies

(* Of a handler that has the user to itself, where no exception ends a run *)
(* and no run changes the status: whatever a text answers was asked, and   *)
(* noted as asked, unless the question is the one its survey has missed    *)
(* (EveryReplyIsExpected, processing.py:49,74).                            *)
THEOREM RepliesAreExpected == ASSUME ~Overlap, RunsComplete PROVE Spec => []EveryReplyIsExpected
<1>. DEFINE Inv == Alone /\ now \in Nat /\ Types /\ MissedQuestions /\ Replies
<1>1. Init => Inv
  <2>. SUFFICES ASSUME Init PROVE Inv
    OBVIOUS
  <2>1. now \in Nat /\ MissedQuestions
    BY DEF Init, MissedQuestions
  <2>. QED
    BY <2>1, InitAlone, InitTypes, InitReplies
<1>2. Inv /\ [Next]_vars => Inv'
  <2>. SUFFICES ASSUME Inv, [Next]_vars PROVE Inv'
    OBVIOUS
  <2>1. [TurnNext]_vars /\ Alone' /\ now' \in Nat
    BY OneThreadStep, ClockRuns
  <2>. QED
    BY <2>1, NextTypes, MissedBySending, NextReplies
<1>3. Inv => EveryReplyIsExpected
  <2>. SUFFICES ASSUME Alone, Types, Replies, Idle, Solicited
                PROVE  Asked # None /\ (Answerable \/ Asked = missed[user.current])
    BY DEF EveryReplyIsExpected
  <2>1. user.current \in Schedules /\ pc = "idle"
    BY AloneRests DEF Types, DocumentTypes, Document, Solicited, Idle, NonActive
  <2>2. execs[user.current].state # None
    BY <2>1 DEF Replies, CurrentWaits
  <2>3. Known(responses, missed[user.current], execs[user.current].state, execs[user.current].start)
    BY <2>1, <2>2 DEF Replies, Noted
  <2>. QED
    BY <2>2, <2>3, RetrieveFinds DEF Known, Answerable, Asked, AskedResponse
<1>. QED
  BY <1>1, <1>2, <1>3, PTL DEF Spec
-----------------------------------------------------------------------------
(* Every survey asks a question, whatever its conditionals say, and what   *)
(* was interrupted is resumed.                                             *)
EverySurveyAsks ==
    /\ ~StopInterrupted
    /\ \A e \in Schedules : \E i \in DOMAIN Actions[e] : Actions[e][i] \in Questions

(* An entry of the agenda.                                                 *)
Item == [node : Questions \cup Conditionals \cup Setters \cup Messages, answer : Parsed]

(* Among actions still to do there is a question.                          *)
AsksIn(items) == \E i \in DOMAIN items : items[i].node \in Questions

(* Only the answer to a question ends a survey: any other run asks.        *)
AsksYet ==
    pc = "act" /\ job.kind # "reply" => agenda \in Seq(Item) /\ AsksIn(agenda)

(* Where a run that is no answer begins: at the root, or with a resend.    *)
RunsFrom ==
    pc = "run" =>
        /\ job.kind = "hour" => /\ job.started => execs[job.at].state = None
                                /\ job.started \/ job.resend
        /\ job.kind = "onboard" => execs[job.at].state = None
        /\ job.kind = "outstanding" => job.resend

(* A schedule for new users starts with the onboarding, and never before.  *)
Fresh(e) ==
    /\ ~execs[e].active
    /\ pc \in {"run", "act", "resend"} => job.at # e
    /\ Working /\ job.kind = "outstanding" => e \notin job.todo

(* No schedule for new users is active before its turn.                    *)
Unmet ==
    \A e \in Schedules :
        /\ Config[e].subtype = "on_user_creation"
        /\ ~user.onboarded \/ (Working /\ job.kind = "onboard" /\ e \in job.todo)
        => Fresh(e)

(* The onboarding visits the schedules for new users.                      *)
Onboards ==
    Working /\ job.kind = "onboard" =>
        user.onboarded /\ \A e \in job.todo : Config[e].subtype = "on_user_creation"

(* A one-time schedule never ends once it is due.                          *)
OnceEnds ==
    \A e \in Schedules : Config[e].subtype = "one_time" => execs[e].end \in {None, Due(Config[e])}

(* What the handler has sent is waited for.                                *)
SentIsCurrent == Working /\ job.sent => user.current # None

(* The turns that live executions still have when nothing is asked.        *)
TurnsLeft(e) ==
    \/ pc = "outstanding"
    \/ pc = "run" /\ job.at = e
    \/ pc \in {"loop", "run"} /\ job.kind = "outstanding" /\ e \in job.todo

(* When nothing is asked of an active user, only executions that have      *)
(* their turn yet are live.                                                *)
FreeRests == IsActive /\ user.current = None => \A e \in Schedules : Live(e) => TurnsLeft(e)

(* The inductive invariant of NothingOutstandingWhenFree.                  *)
Freedom ==
    AsksYet /\ RunsFrom /\ Unmet /\ Onboards /\ OnceEnds /\ SentIsCurrent /\ FreeRests /\ ~user.midRun

(* The agenda of a node whose actions have a question has one.             *)
LEMMA ItemsAsk ==
    ASSUME NEW n \in Nodes, NEW answer \in Parsed
    PROVE  /\ Items(Actions[n], answer) \in Seq(Item)
           /\ (\E i \in DOMAIN Actions[n] : Actions[n][i] \in Questions) => AsksIn(Items(Actions[n], answer))
<1>. DEFINE actions == Actions[n]
            Kind == Questions \cup Conditionals \cup Setters \cup Messages
<1>1. actions \in Seq(Kind)
  BY EngineAssumption
<1>2. DOMAIN actions = 1 .. Len(actions) /\ Len(actions) \in Nat
      /\ \A i \in DOMAIN actions : actions[i] \in Kind
  BY <1>1
<1>3. Item = [node : Kind, answer : Parsed]
  BY DEF Item
<1>. HIDE DEF actions, Kind
<1>4. Items(actions, answer) = [i \in 1 .. Len(actions) |-> [node |-> actions[i], answer |-> answer]]
  BY <1>2 DEF Items
<1>5. \A i \in 1 .. Len(actions) : [node |-> actions[i], answer |-> answer] \in Item
  BY <1>2, <1>3
<1>6. Items(actions, answer) \in Seq(Item)
  BY <1>2, <1>4, <1>5
<1>7. (\E i \in DOMAIN actions : actions[i] \in Questions) => AsksIn(Items(actions, answer))
  BY <1>2, <1>4 DEF AsksIn
<1>. QED
  BY <1>6, <1>7 DEF actions

(* ... and still has it after another action is done,                      *)
LEMMA TailAsks ==
    ASSUME NEW items \in Seq(Item), AsksIn(items), items # <<>>, Head(items).node \notin Questions
    PROVE  Tail(items) \in Seq(Item) /\ AsksIn(Tail(items))
<1>1. PICK i \in DOMAIN items : items[i].node \in Questions
  BY DEF AsksIn
<1>2. i \in 2 .. Len(items) /\ Len(items) \in Nat
  BY <1>1
<1>3. i - 1 \in DOMAIN Tail(items) /\ Tail(items)[i - 1] = items[i]
  BY <1>2
<1>. QED
  BY <1>1, <1>3 DEF AsksIn

(* ... and after actions are put before it.                                *)
LEMMA ConcatAsks ==
    ASSUME NEW s \in Seq(Item), NEW items \in Seq(Item), AsksIn(items)
    PROVE  s \o items \in Seq(Item) /\ AsksIn(s \o items)
<1>1. PICK i \in DOMAIN items : items[i].node \in Questions
  BY DEF AsksIn
<1>2. i \in 1 .. Len(items) /\ Len(items) \in Nat /\ Len(s) \in Nat
  BY <1>1
<1>3. Len(s) + i \in DOMAIN (s \o items) /\ (s \o items)[Len(s) + i] = items[i]
  BY <1>2
<1>. QED
  BY <1>1, <1>3 DEF AsksIn

(* Steps between handlers.                                                 *)
LEMMA IdleFree ==
    ASSUME Types, Types', Freedom, pc = "idle", pc' = "idle",
           UNCHANGED execs \/ execs' = Cleared,
           user'.onboarded = user.onboarded, ~user'.midRun,
           IsActive' /\ user'.current = None =>
               \/ \A e \in Schedules : ~execs'[e].active
               \/ IsActive /\ user.current = None /\ UNCHANGED execs /\ now' >= now
    PROVE  Freedom'
<1>1. \A e \in Schedules : execs'[e].end = execs[e].end /\ (execs'[e].active => execs[e].active)
  BY ClearedType DEF Types, DocumentTypes
<1>2. AsksYet' /\ RunsFrom' /\ SentIsCurrent' /\ Onboards'
  BY DEF AsksYet, RunsFrom, SentIsCurrent, Onboards, Working, Running
<1>3. Unmet'
  BY <1>1 DEF Freedom, Unmet, Fresh, Working, Running
<1>4. OnceEnds'
  BY <1>1 DEF Freedom, OnceEnds
<1>5. FreeRests'
  <2>. SUFFICES ASSUME IsActive', user'.current = None, NEW e \in Schedules, Live(e)'
                PROVE  FALSE
    BY DEF FreeRests
  <2>1. execs'[e].active
    BY DEF Live
  <2>2. IsActive /\ user.current = None /\ UNCHANGED execs /\ now' >= now
    BY <2>1
  <2>3. execs[e].end \in Int \cup {None} /\ now \in Nat /\ now' \in Nat
    BY DEF Types, DocumentTypes, Copies, Execution
  <2>4. Live(e)
    BY <2>2, <2>3 DEF Live, Expired
  <2>. QED
    BY <2>2, <2>4 DEF Freedom, FreeRests, TurnsLeft
<1>. QED
  BY <1>2, <1>3, <1>4, <1>5 DEF Freedom

(* ... among them those that set the status: an active user who was not    *)
(* had no active execution.                                                *)
LEMMA SetStatusFree ==
    ASSUME Types, Types', NonActive, Freedom, NEW s \in Statuses, SetStatus(s), pc = "idle",
           UNCHANGED <<now, cohortActive, pc>>
    PROVE  Freedom'
<1>1. user' = WithStatus(user, s) /\ (execs' = Cleared \/ UNCHANGED execs) /\ user'.status = s
  BY SetStatusStep
<1>2. user'.onboarded = user.onboarded
  BY <1>1 DEF WithStatus, Types, DocumentTypes, Document
<1>3. CASE s = user.status
  <2>1. user' = user /\ UNCHANGED execs
    BY <1>1, <1>3, StatusSetType, SetStatusStep DEF Types, DocumentTypes
  <2>2. ~user'.midRun /\ (IsActive' <=> IsActive) /\ now' >= now
    BY <2>1 DEF Freedom, IsActive, Types, DocumentTypes
  <2>. QED
    BY <2>1, <2>2, IdleFree
<1>4. CASE s # user.status
  <2>1. ~user'.midRun
    BY <1>1, <1>4, StatusSetType DEF Types, DocumentTypes, NonActive
  <2>2. IsActive' => \A e \in Schedules : ~execs'[e].active
    <3>1. SUFFICES ASSUME IsActive' PROVE \A e \in Schedules : ~execs'[e].active
      OBVIOUS
    <3>2. s = "active"
      BY <1>1, <3>1 DEF IsActive
    <3>3. UNCHANGED execs
      BY <3>2, SetStatusStep
    <3>. QED
      BY <1>4, <3>2, <3>3 DEF NonActive, Freedom
  <2>. QED
    BY <1>1, <1>2, <2>1, <2>2, IdleFree
<1>. QED
  BY <1>3, <1>4

(* The other actions of a tree.                                            *)
LEMMA OtherActionsFree ==
    ASSUME Types, Replies, Freedom, RunsComplete, TurnSetAttribute \/ TurnSendMessage \/ TestConditional
    PROVE  Freedom'
<1>1. UNCHANGED <<now, cohortActive, execs, pc, job>> /\ pc = "act"
  <2>1. CASE TurnSetAttribute
    <3>1. Assign[Head(agenda).node].attribute # "status"
      BY <2>1 DEF TurnSetAttribute, Doing, RunsComplete
    <3>. QED
      BY <2>1, <3>1 DEF TurnSetAttribute, Doing
  <2>2. CASE TurnSendMessage
    BY <2>2 DEF TurnSendMessage, RunsComplete, Doing
  <2>3. CASE TestConditional
    BY <2>3, Zenon DEF TestConditional, Doing, documents
  <2>. QED
    BY <2>1, <2>2, <2>3
<1>2. user'.current = user.current /\ user'.onboarded = user.onboarded /\ user'.midRun = user.midRun
  <2>1. CASE TurnSetAttribute
    <3>1. Assign[Head(agenda).node].attribute # "status"
      BY <2>1 DEF TurnSetAttribute, Doing, RunsComplete
    <3>2. user' = user \/ \E v : user' = [user EXCEPT !.attribute = v]
      BY <2>1, <3>1 DEF TurnSetAttribute
    <3>. QED
      BY <3>2 DEF Types, DocumentTypes, Document
  <2>2. CASE TurnSendMessage
    BY <2>2 DEF TurnSendMessage, RunsComplete
  <2>3. CASE TestConditional
    BY <2>3, Zenon DEF TestConditional, documents
  <2>. QED
    BY <2>1, <2>2, <2>3
<1>3. user.current # None
  BY <1>1, NoneApart DEF Replies, CurrentWaits, Types, JobTypes, Running
<1>4. AsksYet'
  <2>. SUFFICES ASSUME job.kind # "reply" PROVE agenda' \in Seq(Item) /\ AsksIn(agenda')
    BY <1>1 DEF AsksYet
  <2>1. agenda \in Seq(Item) /\ AsksIn(agenda)
    BY <1>1 DEF Freedom, AsksYet
  <2>2. agenda # <<>> /\ Head(agenda).node \in Setters \cup Messages \cup Conditionals
    BY Zenon DEF TurnSetAttribute, TurnSendMessage, TestConditional, Doing
  <2>3. Tail(agenda) \in Seq(Item) /\ AsksIn(Tail(agenda)) /\ Head(agenda) \in Item
    <3>1. Head(agenda).node \notin Questions
      BY <2>2, EngineAssumption
    <3>2. Head(agenda) \in Item
      BY <2>1, <2>2
    <3>. QED
      BY <2>1, <2>2, <3>1, <3>2, TailAsks
  <2>4. CASE agenda' = Tail(agenda)
    BY <2>3, <2>4
  <2>5. CASE TestConditional
    <3>. DEFINE c == Head(agenda).node
                answer == Head(agenda).answer
                value == IF Test[c].on = "answer" THEN answer ELSE loaded.attribute
    <3>1. agenda' = (IF value \in Test[c].values THEN Items(Actions[c], answer) ELSE <<>>) \o Tail(agenda)
      BY <2>5 DEF TestConditional, documents
    <3>2. c \in Nodes /\ answer \in Parsed
      BY <2>3, <2>5, Zenon DEF TestConditional, Doing, Nodes, Item
    <3>3. Items(Actions[c], answer) \in Seq(Item) /\ <<>> \in Seq(Item)
      BY <3>2, ItemsAsk
    <3>. HIDE DEF value, c, answer
    <3>. QED
      BY <2>3, <3>1, <3>3, ConcatAsks
  <2>6. TestConditional \/ agenda' = Tail(agenda)
    <3>1. CASE TurnSetAttribute
      BY <3>1 DEF TurnSetAttribute
    <3>2. CASE TurnSendMessage
      BY <3>2 DEF TurnSendMessage, RunsComplete
    <3>. QED
      BY <3>1, <3>2
  <2>. QED
    BY <2>4, <2>5, <2>6
<1>5. RunsFrom' /\ SentIsCurrent' /\ FreeRests'
  BY <1>1, <1>2, <1>3 DEF RunsFrom, SentIsCurrent, FreeRests
<1>6. Unmet' /\ OnceEnds' /\ Onboards'
  BY <1>1, <1>2 DEF Freedom, Unmet, Fresh, OnceEnds, Onboards, Working, Running
<1>. QED
  BY <1>2, <1>4, <1>5, <1>6 DEF Freedom

(* A question of the survey under way was sent.                            *)
LEMMA PauseFree ==
    ASSUME Types, Replies, Freedom, pc \in {"act", "resend"}, NEW q \in Questions, Pause(q, execs),
           UNCHANGED <<now, user, cohortActive>>
    PROVE  Freedom'
<1>1. Running /\ job.at \in Schedules /\ user.current = job.at /\ execs \in Copies
  BY DEF Types, DocumentTypes, JobTypes, Running, Replies, CurrentWaits
<1>2. /\ execs' = [execs EXCEPT ![job.at] = Ended(@, q)]
      /\ pc' \in {"idle", "loop", "refresh"}
      /\ pc' \in {"loop", "refresh"} => job'.kind = job.kind /\ job'.at = job.at /\ job'.todo = job.todo
  BY <1>1, PauseTypes
<1>3. /\ \A e \in Schedules \ {job.at} : execs'[e] = execs[e]
      /\ execs'[job.at].end = execs[job.at].end
  BY <1>1, <1>2, EndedType DEF Copies
<1>4. user'.current # None
  BY <1>1, NoneApart
<1>5. AsksYet' /\ RunsFrom' /\ SentIsCurrent' /\ FreeRests'
  BY <1>2, <1>4 DEF AsksYet, RunsFrom, SentIsCurrent, FreeRests
<1>6. OnceEnds'
  BY <1>3 DEF Freedom, OnceEnds
<1>7. Unmet'
  <2>. SUFFICES ASSUME NEW e \in Schedules, Config[e].subtype = "on_user_creation",
                       ~user.onboarded \/ (Working' /\ job'.kind = "onboard" /\ e \in job'.todo)
                PROVE  Fresh(e)'
    BY DEF Unmet
  <2>1. Working' => pc' \in {"loop", "refresh"}
    BY <1>2 DEF Working, Running
  <2>2. ~user.onboarded \/ (Working /\ job.kind = "onboard" /\ e \in job.todo)
    BY <1>1, <1>2, <2>1 DEF Working
  <2>3. Fresh(e)
    BY <2>2 DEF Freedom, Unmet
  <2>4. e # job.at
    BY <2>3 DEF Fresh
  <2>. QED
    BY <1>1, <1>2, <1>3, <2>1, <2>3, <2>4 DEF Fresh, Working
<1>8. Onboards'
  BY <1>1, <1>2 DEF Freedom, Onboards, Working, Running
<1>. QED
  BY <1>5, <1>6, <1>7, <1>8 DEF Freedom

(* ... or sent again.                                                      *)
LEMMA QuestionsFree ==
    ASSUME Types, Replies, Freedom, RunsComplete, TurnSendQuestion \/ TurnResendQuestion
    PROVE  Freedom'
<1>1. CASE TurnSendQuestion
  <2>1. /\ Head(agenda).node \in Questions /\ pc = "act" /\ Pause(Head(agenda).node, execs)
        /\ UNCHANGED <<now, user, cohortActive>>
    BY <1>1 DEF TurnSendQuestion, Doing, RunsComplete
  <2>. QED
    BY <2>1, PauseFree
<1>2. CASE TurnResendQuestion
  <2>1. /\ pc = "resend" /\ Pause(job.copies[job.at].state, execs) /\ UNCHANGED <<now, user, cohortActive>>
    BY <1>2 DEF TurnResendQuestion, RunsComplete
  <2>2. job.copies[job.at].state \in Questions
    BY <2>1 DEF Types, JobTypes
  <2>. QED
    BY <2>1, <2>2, PauseFree
<1>. QED
  BY <1>1, <1>2

(* The start of run(): an expired execution is not live, and any other     *)
(* becomes the current one.                                                *)
LEMMA BeginRunFree == ASSUME Types, Replies, Freedom, EverySurveyAsks, BeginRun PROVE Freedom'
<1>1. /\ pc = "run" /\ Running /\ Working /\ job.at \in Schedules /\ job.at \notin job.todo /\ job \in Local
      /\ job.kind \in Kinds /\ job.copies = execs /\ execs \in Copies /\ IsActive
  BY Zenon DEF BeginRun, Types, DocumentTypes, JobTypes, Running, Working, Replies, UpToDate
<1>2. UNCHANGED <<now, cohortActive, execs>>
  BY Zenon DEF BeginRun
<1>3. OnceEnds'
  BY <1>2 DEF Freedom, OnceEnds
<1>4. CASE Expired(job.copies[job.at], now) /\ Return(FALSE, job.copies) /\ UNCHANGED user
  <2>1. /\ pc' \in {"idle", "outstanding", "loop", "run", "refresh"}
        /\ pc' \in {"loop", "run", "refresh"} =>
               job' = [job EXCEPT !.sent = job.sent \/ FALSE, !.resend = FALSE, !.copies = job.copies]
        /\ pc' = "run" => job.kind = "hour" /\ job.started
    BY <1>1, <1>4, ReturnTypes, Zenon
  <2>2. pc' \in {"loop", "run", "refresh"} =>
            /\ job'.kind = job.kind /\ job'.at = job.at /\ job'.todo = job.todo /\ job'.started = job.started
            /\ job'.sent = job.sent
    BY <1>1, <2>1 DEF Local
  <2>3. job.kind = "outstanding" => pc' = "loop"
    BY <1>4 DEF Return
  <2>4. AsksYet'
    BY <2>1 DEF AsksYet
  <2>5. RunsFrom'
    BY <1>1, <1>2, <2>1, <2>2 DEF Freedom, RunsFrom
  <2>6. Unmet'
    <3>1. \A e \in Schedules : Fresh(e) => Fresh(e)'
      BY <1>1, <1>2, <2>1, <2>2 DEF Fresh, Working, Running
    <3>2. Working' => pc' \in {"loop", "run", "refresh"}
      BY <2>1 DEF Working, Running
    <3>. QED
      BY <1>1, <1>4, <2>2, <3>1, <3>2 DEF Freedom, Unmet
  <2>7. SentIsCurrent' /\ Onboards'
    <3>1. Working' => pc' \in {"loop", "run", "refresh"}
      BY <2>1 DEF Working, Running
    <3>. QED
      BY <1>1, <1>4, <2>2, <3>1 DEF Freedom, SentIsCurrent, Onboards
  <2>8. FreeRests'
    <3>. SUFFICES ASSUME user.current = None, NEW e \in Schedules, Live(e)
                  PROVE  TurnsLeft(e)'
      BY <1>2, <1>4 DEF FreeRests, Live
    <3>1. TurnsLeft(e)
      BY <1>1 DEF Freedom, FreeRests
    <3>2. e # job.at
      BY <1>1, <1>4 DEF Live
    <3>3. job.kind = "outstanding" /\ e \in job.todo
      BY <1>1, <3>1, <3>2 DEF TurnsLeft
    <3>. QED
      BY <2>2, <2>3, <3>3 DEF TurnsLeft
  <2>. QED
    BY <1>3, <1>4, <2>4, <2>5, <2>6, <2>7, <2>8 DEF Freedom
<1>5. CASE /\ user' = [user EXCEPT !.current = job.at]
           /\ pc' = IF job.copies[job.at].state # None /\ job.resend THEN "resend" ELSE "act"
           /\ agenda' = IF job.copies[job.at].state = None THEN Items(Actions[job.at], job.answer)
                        ELSE IF job.resend THEN <<>>
                        ELSE Items(Actions[job.copies[job.at].state], job.answer)
                             \o After[job.copies[job.at].state]
           /\ UNCHANGED job
  <2>1. user'.current = job.at /\ user'.onboarded = user.onboarded /\ user'.midRun = user.midRun
    BY <1>5 DEF Types, DocumentTypes, Document
  <2>2. user'.current # None
    BY <1>1, <2>1, NoneApart
  <2>3. AsksYet'
    <3>. SUFFICES ASSUME pc' = "act", job.kind # "reply" PROVE agenda' \in Seq(Item) /\ AsksIn(agenda')
      BY <1>5, Zenon DEF AsksYet
    <3>1. execs[job.at].state = None \/ ~job.resend
      BY <1>1, <1>5
    <3>2. execs[job.at].state = None
      BY <1>1, <3>1 DEF Freedom, RunsFrom, Kinds
    <3>3. agenda' = Items(Actions[job.at], job.answer)
      BY <1>1, <1>5, <3>2
    <3>4. job.at \in Nodes /\ job.answer \in Parsed
      BY <1>1 DEF Local, Nodes
    <3>5. \E i \in DOMAIN Actions[job.at] : Actions[job.at][i] \in Questions
      BY <1>1 DEF EverySurveyAsks
    <3>. QED
      BY <3>3, <3>4, <3>5, ItemsAsk
  <2>4. RunsFrom' /\ SentIsCurrent' /\ FreeRests'
    BY <1>5, <2>2 DEF RunsFrom, SentIsCurrent, FreeRests
  <2>5. Unmet' /\ Onboards'
    BY <1>1, <1>2, <1>5, <2>1 DEF Freedom, Unmet, Fresh, Onboards, Working, Running
  <2>. QED
    BY <1>3, <2>1, <2>3, <2>4, <2>5 DEF Freedom
<1>. QED
  BY <1>1, <1>4, <1>5, Zenon DEF BeginRun

(* Only the answer to a question ends a survey, and the outstanding ones   *)
(* then have their turn.                                                   *)
LEMMA EndRunFree == ASSUME Types, Replies, Freedom, EverySurveyAsks, EndRun PROVE Freedom'
<1>1. /\ pc = "act" /\ agenda = <<>> /\ UNCHANGED <<now, cohortActive>>
      /\ execs' = [execs EXCEPT ![job.at] = Ended(@, None)]
      /\ Return(FALSE, [job.copies EXCEPT ![job.at] = Ended(@, None)])
      /\ user' = [user EXCEPT !.current = None]
  BY DEF EndRun
<1>2. job.at \in Schedules /\ execs \in Copies
  BY <1>1 DEF Types, DocumentTypes, JobTypes, Running
<1>3. job.kind = "reply"
  <2>1. DOMAIN agenda = {}
    BY <1>1
  <2>2. ~AsksIn(agenda)
    BY <2>1 DEF AsksIn
  <2>. QED
    BY <1>1, <2>2 DEF Freedom, AsksYet
<1>4. pc' = "outstanding"
  BY <1>1, <1>3 DEF Return, EverySurveyAsks
<1>5. /\ \A e \in Schedules \ {job.at} : execs'[e] = execs[e]
      /\ execs'[job.at].end = execs[job.at].end /\ ~execs'[job.at].active
  BY <1>1, <1>2, EndedType DEF Copies
<1>6. user'.onboarded = user.onboarded /\ user'.midRun = user.midRun
  BY <1>1 DEF Types, DocumentTypes, Document
<1>7. AsksYet' /\ RunsFrom' /\ SentIsCurrent' /\ FreeRests' /\ Onboards'
  BY <1>4 DEF AsksYet, RunsFrom, SentIsCurrent, FreeRests, TurnsLeft, Onboards, Working, Running
<1>8. OnceEnds'
  BY <1>5 DEF Freedom, OnceEnds
<1>9. Unmet'
  BY <1>4, <1>5, <1>6 DEF Freedom, Unmet, Fresh, Working, Running
<1>. QED
  BY <1>6, <1>7, <1>8, <1>9 DEF Freedom

(* A handler starts, for an active user with new local variables.          *)
LEMMA HandlerFree ==
    ASSUME Types, Freedom, pc = "idle", pc' = "loop", IsActive,
           NEW kind \in {"hour", "onboard"}, NEW todo \in SUBSET Schedules, job' = Job(kind, todo),
           UNCHANGED <<now, cohortActive, execs>>, user'.current = user.current, user'.midRun = user.midRun,
           user.onboarded => user'.onboarded /\ kind # "onboard",
           kind = "onboard" =>
               user'.onboarded /\ \A e \in todo : Config[e].subtype = "on_user_creation"
    PROVE  Freedom'
<1>1. execs \in Copies /\ kind \in Kinds
  BY DEF Types, DocumentTypes, Kinds
<1>2. job'.kind = kind /\ job'.todo = todo /\ ~job'.sent
  BY <1>1, NewJob
<1>3. AsksYet' /\ RunsFrom' /\ SentIsCurrent' /\ Onboards'
  BY <1>2 DEF AsksYet, RunsFrom, SentIsCurrent, Onboards
<1>4. Unmet'
  <2>. SUFFICES ASSUME NEW e \in Schedules, Config[e].subtype = "on_user_creation",
                       ~user'.onboarded \/ (kind = "onboard" /\ e \in todo)
                PROVE  Fresh(e)'
    BY <1>2 DEF Unmet
  <2>1. ~user.onboarded
    OBVIOUS
  <2>. QED
    BY <1>2, <2>1 DEF Freedom, Unmet, Fresh
<1>5. OnceEnds'
  BY DEF Freedom, OnceEnds
<1>6. FreeRests'
  BY DEF Freedom, FreeRests, TurnsLeft, Live
<1>. QED
  BY <1>3, <1>4, <1>5, <1>6 DEF Freedom

(* The hourly job starts, or finds the user inactive.                      *)
LEMMA EveryHourFree == ASSUME Types, Types', NonActive, Freedom, EveryHour PROVE Freedom'
<1>1. pc = "idle" /\ IsActive /\ UNCHANGED <<now, cohortActive, responses>>
  BY DEF EveryHour
<1>2. CASE SetStatus("inactive") /\ UNCHANGED pc
  BY <1>1, <1>2, SetStatusFree DEF Statuses
<1>3. CASE pc' = "loop" /\ job' = Job("hour", Schedules) /\ UNCHANGED <<user, execs>>
  BY <1>1, <1>3, HandlerFree
<1>. QED
  BY <1>2, <1>3 DEF EveryHour

(* The onboarding starts.                                                  *)
LEMMA OnboardFree == ASSUME Types, Freedom, TurnOnboard PROVE Freedom'
<1>. DEFINE todo == {e \in Schedules : Config[e].subtype = "on_user_creation"}
<1>1. /\ pc = "idle" /\ pc' = "loop" /\ IsActive /\ UNCHANGED <<now, cohortActive, execs>>
      /\ job' = Job("onboard", todo) /\ todo \in SUBSET Schedules /\ ~user.onboarded
      /\ \A e \in todo : Config[e].subtype = "on_user_creation"
  BY DEF TurnOnboard
<1>2. user'.current = user.current /\ user'.midRun = user.midRun /\ user'.onboarded
  BY DEF TurnOnboard, Types, DocumentTypes, Document
<1>. HIDE DEF todo
<1>. QED
  BY <1>1, <1>2, HandlerFree

(* The visit of a schedule for new users: it runs, unless a question of    *)
(* another was sent.                                                       *)
LEMMA VisitOnCreationFree ==
    ASSUME Types, Replies, Freedom, NEW e \in Schedules, VisitOnCreation(e)
    PROVE  Freedom'
<1>1. /\ UNCHANGED <<now, user, cohortActive, responses>>
      /\ pc = "loop" /\ pc' = (IF job.sent THEN "loop" ELSE "run")
      /\ e \in job.todo /\ job.kind = "onboard"
      /\ job'.kind = job.kind /\ job'.at = e /\ job'.todo = job.todo \ {e} /\ job'.sent = job.sent
      /\ execs' = [execs EXCEPT ![e] = [execs[e] EXCEPT !.active = TRUE]]
  BY VisitOnCreationStep
<1>2. execs \in Copies
  BY DEF Types, DocumentTypes
<1>3. /\ \A c \in Schedules \ {e} : execs'[c] = execs[c]
      /\ execs'[e].state = execs[e].state /\ execs'[e].end = execs[e].end
  BY <1>1, <1>2 DEF Copies, Execution
<1>4. user.onboarded /\ Config[e].subtype = "on_user_creation"
  BY <1>1 DEF Freedom, Onboards, Working
<1>5. Fresh(e)
  BY <1>1, <1>4 DEF Freedom, Unmet, Working
<1>6. execs[e].state = None
  BY <1>5 DEF Fresh, Replies, Noted
<1>7. AsksYet' /\ RunsFrom'
  BY <1>1, <1>3, <1>6 DEF AsksYet, RunsFrom
<1>8. Unmet'
  <2>. SUFFICES ASSUME NEW c \in Schedules, Config[c].subtype = "on_user_creation", c \in job'.todo
                PROVE  Fresh(c)'
    BY <1>1, <1>4 DEF Unmet
  <2>1. c \in job.todo /\ c # e
    BY <1>1
  <2>2. Fresh(c)
    BY <1>1, <2>1 DEF Freedom, Unmet, Working
  <2>. QED
    BY <1>1, <1>3, <2>1, <2>2 DEF Fresh
<1>9. Onboards' /\ SentIsCurrent'
  BY <1>1, <1>4 DEF Freedom, Onboards, SentIsCurrent, Working
<1>10. OnceEnds'
  BY <1>3 DEF Freedom, OnceEnds
<1>11. FreeRests'
  <2>. SUFFICES ASSUME IsActive, user.current = None, NEW c \in Schedules, Live(c)'
                PROVE  pc' = "run" /\ c = e
    BY <1>1 DEF FreeRests, TurnsLeft, IsActive
  <2>1. ~job.sent
    BY <1>1 DEF Freedom, SentIsCurrent, Working
  <2>2. ASSUME c # e PROVE FALSE
    <3>1. Live(c)
      BY <1>1, <1>3, <2>2 DEF Live
    <3>. QED
      BY <1>1, <3>1 DEF Freedom, FreeRests, TurnsLeft
  <2>. QED
    BY <1>1, <2>1, <2>2
<1>. QED
  BY <1>1, <1>7, <1>8, <1>9, <1>10, <1>11 DEF Freedom

(* What a new period is active, ends and waits for.                        *)
LEMMA NewPeriodTurns ==
    ASSUME now \in Nat, NEW s \in Calendar, NEW x \in Execution(Questions), NEW active \in BOOLEAN,
           NEW n, n = NewPeriod(x, s, now, active)
    PROVE  /\ s.subtype = "one_time" => n.end \in {None, Due(s)}
           /\ n.active \in {x.active, active, FALSE}
           /\ s.subtype \in {"recurring", "daily_limit"} \/ (s.subtype = "one_time" /\ now >= Due(s))
                  => n.state = None
<1>1. s.subtype \in Subtypes /\ Due(s) \in Nat
  BY DueType DEF Calendar
<1>2. CASE s.subtype = "one_time" /\ now >= Due(s)
  <2>1. n = Period(now, Due(s), None, s, active)
    BY <1>2, OneTimeDue
  <2>. QED
    BY <1>1, <1>2, <2>1 DEF Period
<1>3. CASE s.subtype = "one_time" /\ now < Due(s)
  <2>1. x = [start |-> x.start, end |-> x.end, resends |-> x.resends,
             active |-> x.active, state |-> x.state]
    BY DEF Execution
  <2>2. n = [start |-> x.start, end |-> Due(s), resends |-> {}, active |-> x.active, state |-> x.state]
    BY <1>3, <2>1, OneTimeNotDue
  <2>3. n.end = Due(s) /\ n.active = x.active
    BY <2>2
  <2>. QED
    BY <1>1, <1>3, <2>3
<1>4. CASE s.subtype = "recurring"
  <2>. DEFINE start == LastSendHour(now, s)
  <2>1. n = Period(now, start, start + Days(RecurringDays(start, s)), s, active)
    BY <1>4 DEF NewPeriod
  <2>. QED
    BY <1>4, <2>1 DEF Period
<1>5. CASE s.subtype = "daily_limit"
  <2>. DEFINE start == ZeroDay(now) + s.sendHour
  <2>1. n = Period(now, start, start + Days(35000), s, active)
    BY <1>5 DEF NewPeriod
  <2>. QED
    BY <1>5, <2>1 DEF Period
<1>6. CASE s.subtype = "on_user_creation"
  <2>1. n = Period(now, now, None, s, FALSE)
    BY <1>6 DEF NewPeriod
  <2>. QED
    BY <1>6, <2>1 DEF Period
<1>7. \/ (s.subtype = "one_time" /\ now >= Due(s)) \/ (s.subtype = "one_time" /\ now < Due(s))
      \/ s.subtype = "recurring" \/ s.subtype = "daily_limit" \/ s.subtype = "on_user_creation"
  BY <1>1 DEF Subtypes
<1>. QED
  BY <1>2, <1>3, <1>4, <1>5, <1>6, <1>7, Zenon

(* Execution e after the start of its pass: as it was, or at the root of a *)
(* period that has started.                                                *)
LEMMA PeriodSetFree ==
    ASSUME Types, Endless, OnceEnds, NEW e \in Schedules, job.copies = execs
    PROVE  \/ PeriodSet(e) = execs[e] /\ ~Starts(e)
           \/ /\ Starts(e) /\ PeriodSet(e).state = None /\ Config[e].subtype # "on_user_creation"
              /\ Config[e].subtype = "one_time" => PeriodSet(e).end \in {None, Due(Config[e])}
<1>. DEFINE s == Config[e]
            x == execs[e]
            n == NewPeriod(x, s, now, TRUE)
<1>1. s \in Calendar /\ x \in Execution(Questions) /\ now \in Nat /\ s.subtype \in Subtypes
  BY EngineAssumption DEF Types, DocumentTypes, Copies, Calendar
<1>2. CASE Resets(x, now, FALSE)
  <2>1. PeriodSet(e) = n /\ x.end # None /\ now >= x.end
    BY <1>2 DEF PeriodSet, SetPeriod, Resets
  <2>2. s.subtype # "on_user_creation"
    BY <2>1 DEF Endless
  <2>3. s.subtype = "one_time" => now >= Due(s)
    BY <2>1 DEF OnceEnds
  <2>4. /\ s.subtype \in {"recurring", "daily_limit"} \/ (s.subtype = "one_time" /\ now >= Due(s))
        /\ Starts(e)
    BY <1>1, <1>2, <2>2, <2>3 DEF Starts, StartsPeriod, Due, Subtypes
  <2>5. TRUE \in BOOLEAN /\ n = NewPeriod(x, s, now, TRUE)
    OBVIOUS
  <2>. HIDE DEF s, x, n
  <2>6. n.state = None /\ (s.subtype = "one_time" => n.end \in {None, Due(s)})
    BY <1>1, <2>4, <2>5, NewPeriodTurns
  <2>. QED
    BY <2>1, <2>2, <2>4, <2>6 DEF s, x
<1>3. CASE ~Resets(x, now, FALSE)
  BY <1>3 DEF PeriodSet, SetPeriod, Starts, StartsPeriod
<1>. QED
  BY <1>2, <1>3

(* The start of a pass: what becomes live runs, unless a question was      *)
(* sent.                                                                   *)
LEMMA VisitPeriodFree ==
    ASSUME Types, Replies, Freedom, NEW e \in Schedules, VisitPeriod(e)
    PROVE  Freedom'
<1>1. /\ UNCHANGED <<now, user, cohortActive, responses>>
      /\ pc = "loop" /\ job.kind = "hour" /\ e \in job.todo
      /\ pc' = IF IsDue(e) \/ (Starts(e) /\ ~job.sent) THEN "run" ELSE "refresh"
      /\ job'.kind = "hour" /\ job'.at = e /\ job'.todo = job.todo \ {e} /\ job'.sent = job.sent
      /\ job'.resend = IsDue(e) /\ job'.started = Starts(e)
  BY VisitPeriodStep, Zenon
<1>2. execs \in Copies /\ job.copies = execs /\ IsActive /\ Endless /\ OnceEnds
  BY <1>1 DEF Types, DocumentTypes, Replies, UpToDate, Working, Freedom
<1>3. PICK kept \in Execution(Questions), saved \in Execution(Questions) :
          /\ kept.start = PeriodSet(e).start /\ kept.end = PeriodSet(e).end
          /\ kept.active = PeriodSet(e).active /\ kept.state = PeriodSet(e).state
          /\ job'.copies = [job.copies EXCEPT ![e] = kept]
          /\ execs' = [execs EXCEPT ![e] = saved]
          /\ job.copies[e] = execs[e] => saved = kept
  BY VisitPeriodStep, Zenon
<1>4. execs'[e] = kept /\ \A c \in Schedules \ {e} : execs'[c] = execs[c]
  BY <1>2, <1>3 DEF Copies
<1>5. /\ execs'[e].end = PeriodSet(e).end
      /\ execs'[e].active = PeriodSet(e).active /\ execs'[e].state = PeriodSet(e).state
  BY <1>3, <1>4
<1>6. \/ PeriodSet(e) = execs[e] /\ ~Starts(e)
      \/ /\ Starts(e) /\ PeriodSet(e).state = None /\ Config[e].subtype # "on_user_creation"
         /\ Config[e].subtype = "one_time" => PeriodSet(e).end \in {None, Due(Config[e])}
  BY <1>2, PeriodSetFree
<1>7. AsksYet' /\ Onboards'
  BY <1>1 DEF AsksYet, Onboards
<1>8. RunsFrom'
  BY <1>1, <1>5, <1>6 DEF RunsFrom
<1>9. Unmet'
  <2>. SUFFICES ASSUME NEW c \in Schedules, Config[c].subtype = "on_user_creation", ~user.onboarded
                PROVE  Fresh(c)'
    BY <1>1 DEF Unmet
  <2>1. ~execs[c].active
    BY DEF Freedom, Unmet, Fresh
  <2>2. CASE c = e
    <3>1. PeriodSet(e) = execs[e] /\ ~Starts(e)
      BY <1>6, <2>2
    <3>2. ~IsDue(e)
      BY <2>1, <2>2, <3>1 DEF IsDue, ResendDue
    <3>. QED
      BY <1>1, <1>5, <2>1, <2>2, <3>1, <3>2 DEF Fresh
  <2>3. CASE c # e
    BY <1>1, <1>4, <2>1, <2>3 DEF Fresh
  <2>. QED
    BY <2>2, <2>3
<1>10. OnceEnds'
  <2>. SUFFICES ASSUME NEW c \in Schedules, Config[c].subtype = "one_time"
                PROVE  execs'[c].end \in {None, Due(Config[c])}
    BY DEF OnceEnds
  <2>1. execs[c].end \in {None, Due(Config[c])}
    BY <1>2 DEF OnceEnds
  <2>. QED
    BY <1>4, <1>5, <1>6, <2>1
<1>11. SentIsCurrent'
  BY <1>1 DEF Freedom, SentIsCurrent, Working
<1>12. FreeRests'
  <2>. SUFFICES ASSUME user.current = None, NEW c \in Schedules, Live(c)'
                PROVE  pc' = "run" /\ c = e
    BY <1>1 DEF FreeRests, TurnsLeft
  <2>1. \A d \in Schedules : ~Live(d)
    BY <1>1, <1>2 DEF Freedom, FreeRests, TurnsLeft
  <2>2. c = e
    <3>. SUFFICES ASSUME c # e PROVE FALSE
      OBVIOUS
    <3>1. Live(c)
      BY <1>1, <1>4 DEF Live
    <3>. QED
      BY <2>1, <3>1
  <2>3. Starts(e)
    <3>. SUFFICES ASSUME PeriodSet(e) = execs[e] PROVE FALSE
      BY <1>6
    <3>1. Live(e)
      BY <1>1, <1>5, <2>2 DEF Live, Expired
    <3>. QED
      BY <2>1, <3>1
  <2>4. ~job.sent
    BY <1>1 DEF Freedom, SentIsCurrent, Working
  <2>. QED
    BY <1>1, <2>2, <2>3, <2>4
<1>. QED
  BY <1>1, <1>7, <1>8, <1>9, <1>10, <1>11, <1>12 DEF Freedom

(* The end of a pass makes nothing live.                                   *)
LEMMA RefreshFree == ASSUME Types, Replies, Freedom, Refresh PROVE Freedom'
<1>. DEFINE e == job.at
<1>1. /\ UNCHANGED <<now, user, cohortActive, responses>>
      /\ pc = "refresh" /\ pc' = "loop" /\ e \in Schedules /\ job.kind = "hour"
      /\ job'.kind = job.kind /\ job'.todo = job.todo /\ job'.sent = job.sent
  BY RefreshStep, Zenon
<1>2. PICK kept \in Execution(Questions), saved \in Execution(Questions) :
          /\ job'.copies = [job.copies EXCEPT ![e] = kept]
          /\ execs' = [execs EXCEPT ![e] = saved]
          /\ job.copies[e] = execs[e] => saved = kept
          /\ saved = execs[e] \/ saved = NewPeriod(execs[e], Config[e], now, FALSE)
          /\ job.copies[e].active => saved = execs[e]
  BY RefreshStep, Zenon
<1>3. execs \in Copies /\ job.copies = execs /\ IsActive
  BY <1>1 DEF Types, DocumentTypes, Replies, UpToDate, Working, Running
<1>4. execs'[e] = saved /\ \A c \in Schedules \ {e} : execs'[c] = execs[c]
  BY <1>1, <1>2, <1>3 DEF Copies
<1>5. /\ saved = execs[e] \/ ~saved.active
      /\ ~execs[e].active => ~saved.active
      /\ Config[e].subtype = "one_time" => saved.end \in {None, Due(Config[e])}
  <2>1. Config[e] \in Calendar /\ execs[e] \in Execution(Questions) /\ now \in Nat /\ FALSE \in BOOLEAN
    BY <1>1, <1>3, EngineAssumption DEF Types, DocumentTypes, Copies
  <2>2. Config[e].subtype = "one_time" => execs[e].end \in {None, Due(Config[e])}
    BY <1>1 DEF Freedom, OnceEnds
  <2>3. execs[e].active => saved = execs[e]
    BY <1>2, <1>3
  <2>4. CASE saved = NewPeriod(execs[e], Config[e], now, FALSE)
    <3>. HIDE DEF e
    <3>1. /\ Config[e].subtype = "one_time" => saved.end \in {None, Due(Config[e])}
          /\ saved.active \in {execs[e].active, FALSE}
      BY <2>1, <2>4, NewPeriodTurns
    <3>. QED
      BY <2>3, <3>1
  <2>. QED
    BY <1>2, <2>2, <2>4
<1>. HIDE DEF e
<1>6. AsksYet' /\ RunsFrom' /\ Onboards'
  BY <1>1 DEF AsksYet, RunsFrom, Onboards
<1>7. Unmet'
  <2>. SUFFICES ASSUME NEW c \in Schedules, Config[c].subtype = "on_user_creation", ~user.onboarded
                PROVE  Fresh(c)'
    BY <1>1 DEF Unmet
  <2>1. ~execs[c].active
    BY DEF Freedom, Unmet, Fresh
  <2>. QED
    BY <1>1, <1>4, <1>5, <2>1 DEF Fresh
<1>8. OnceEnds'
  BY <1>4, <1>5 DEF Freedom, OnceEnds
<1>9. SentIsCurrent'
  BY <1>1 DEF Freedom, SentIsCurrent, Working, Running
<1>10. FreeRests'
  <2>. SUFFICES ASSUME user.current = None, NEW c \in Schedules, Live(c)'
                PROVE  FALSE
    BY <1>1 DEF FreeRests
  <2>1. ~Live(c)
    BY <1>1, <1>3 DEF Freedom, FreeRests, TurnsLeft
  <2>. QED
    BY <1>1, <1>4, <1>5, <2>1 DEF Live
<1>. QED
  BY <1>1, <1>6, <1>7, <1>8, <1>9, <1>10 DEF Freedom

(* run_outstanding_schedules, and its visit of one execution.              *)
LEMMA OutstandingFree ==
    ASSUME Types, Replies, Freedom, RunOutstanding \/ \E e \in Schedules : VisitOutstanding(e)
    PROVE  Freedom'
<1>1. CASE RunOutstanding
  <2>. DEFINE todo == {e \in Schedules : execs[e].active}
  <2>1. /\ pc = "outstanding" /\ pc' = "loop" /\ UNCHANGED <<now, user, cohortActive, execs, responses>>
        /\ job' = Job("outstanding", todo) /\ todo \in SUBSET Schedules /\ "outstanding" \in Kinds
        /\ execs \in Copies
    BY <1>1 DEF RunOutstanding, documents, Kinds, Types, DocumentTypes
  <2>2. job'.kind = "outstanding" /\ job'.todo = todo /\ ~job'.sent
    <3>. HIDE DEF todo
    <3>. QED
      BY <2>1, NewJob
  <2>3. AsksYet' /\ RunsFrom' /\ SentIsCurrent' /\ Onboards'
    BY <2>1, <2>2 DEF AsksYet, RunsFrom, SentIsCurrent, Onboards
  <2>4. Unmet'
    BY <2>1, <2>2 DEF Freedom, Unmet, Fresh
  <2>5. OnceEnds'
    BY <2>1 DEF Freedom, OnceEnds
  <2>6. FreeRests'
    BY <2>1, <2>2 DEF FreeRests, TurnsLeft, Live
  <2>. QED
    BY <2>1, <2>3, <2>4, <2>5, <2>6 DEF Freedom
<1>2. ASSUME NEW e \in Schedules, VisitOutstanding(e) PROVE Freedom'
  <2>1. /\ UNCHANGED <<now, user, cohortActive, execs, responses>>
        /\ pc = "loop" /\ pc' = "run" /\ e \in job.todo /\ job.kind = "outstanding"
        /\ job'.kind = job.kind /\ job'.at = e /\ job'.todo = job.todo \ {e} /\ job'.sent = job.sent
        /\ job'.resend
    BY <1>2, VisitOutstandingStep, Zenon
  <2>2. AsksYet' /\ RunsFrom' /\ Onboards'
    BY <2>1 DEF AsksYet, RunsFrom, Onboards
  <2>3. SentIsCurrent' /\ OnceEnds'
    BY <2>1 DEF Freedom, SentIsCurrent, OnceEnds, Working
  <2>4. Unmet'
    BY <2>1 DEF Freedom, Unmet, Fresh, Working, Running
  <2>5. FreeRests'
    <3>. SUFFICES ASSUME IsActive, user.current = None, NEW c \in Schedules, Live(c)
                  PROVE  TurnsLeft(c)'
      BY <2>1 DEF FreeRests, Live, IsActive
    <3>1. c \in job.todo
      BY <2>1 DEF Freedom, FreeRests, TurnsLeft
    <3>. QED
      BY <2>1, <3>1 DEF TurnsLeft
  <2>. QED
    BY <2>1, <2>2, <2>3, <2>4, <2>5 DEF Freedom
<1>. QED
  BY <1>1, <1>2

(* A handler ends: no turn is left.                                        *)
LEMMA EndLoopFree == ASSUME Types, Freedom, EndLoop PROVE Freedom'
<1>1. UNCHANGED <<now, user, cohortActive, execs, responses>> /\ pc = "loop" /\ pc' = "idle" /\ job.todo = {}
  BY DEF EndLoop, Stop, documents
<1>2. AsksYet' /\ RunsFrom' /\ SentIsCurrent' /\ Onboards'
  BY <1>1 DEF AsksYet, RunsFrom, SentIsCurrent, Onboards, Working, Running
<1>3. Unmet' /\ OnceEnds'
  BY <1>1 DEF Freedom, Unmet, Fresh, OnceEnds, Working, Running
<1>4. FreeRests'
  BY <1>1 DEF Freedom, FreeRests, TurnsLeft, Live, IsActive
<1>. QED
  BY <1>1, <1>2, <1>3, <1>4 DEF Freedom

(* handle_message goes on with the current execution.                      *)
LEMMA GoOnFree ==
    ASSUME Types, Replies, Freedom, pc = "idle", user.current \in Schedules, NEW a \in Parsed, GoOn(a),
           UNCHANGED <<now, user, cohortActive, execs>>
    PROVE  Freedom'
<1>1. pc' = "run" /\ job'.at = user.current /\ job'.kind = "reply" /\ ~job'.sent
  BY GoOnStep
<1>2. execs[user.current].active
  BY DEF Replies, CurrentWaits, Noted
<1>3. AsksYet' /\ RunsFrom' /\ SentIsCurrent' /\ Onboards'
  BY <1>1 DEF AsksYet, RunsFrom, SentIsCurrent, Onboards
<1>4. Unmet' /\ OnceEnds'
  BY <1>1, <1>2 DEF Freedom, Unmet, Fresh, OnceEnds
<1>5. FreeRests'
  BY NoneApart DEF FreeRests
<1>. QED
  BY <1>3, <1>4, <1>5 DEF Freedom

(* The texts.                                                              *)
LEMMA TextFree == ASSUME Types, Types', NonActive, Replies, Freedom, Text PROVE Freedom'
<1>0. user.restore \in Restorable
  BY DEF Types, DocumentTypes, Document
<1>1. ASSUME UNCHANGED <<now, cohortActive, user, execs, pc>>, pc = "idle" PROVE Freedom'
  <2>1. ~user'.midRun /\ (IsActive' <=> IsActive) /\ now' >= now
    BY <1>1 DEF Freedom, IsActive, Types, DocumentTypes
  <2>. QED
    BY <1>1, <2>1, IdleFree
<1>2. CASE TextStop
  BY <1>2, SetStatusFree DEF TextStop, Statuses
<1>3. CASE TextStart
  <2>1. pc = "idle" /\ UNCHANGED <<now, cohortActive, pc>>
    BY <1>3 DEF TextStart
  <2>2. CASE SetStatus("active")
    BY <2>1, <2>2, SetStatusFree DEF Statuses
  <2>3. CASE user.restore # None /\ SetStatus(user.restore)
    <3>1. user.restore \in Statuses
      BY <1>0, <2>3 DEF Restorable, Statuses
    <3>. QED
      BY <2>1, <2>3, <3>1, SetStatusFree
  <2>4. CASE UNCHANGED <<user, execs>>
    BY <1>1, <2>1, <2>4
  <2>. QED
    BY <1>3, <2>2, <2>3, <2>4 DEF TextStart
<1>4. CASE TextUnsolicited
  <2>1. pc = "idle" /\ UNCHANGED <<now, cohortActive, pc>> /\ (SetStatus("active") \/ UNCHANGED <<user, execs>>)
    BY <1>4 DEF TextUnsolicited
  <2>2. "active" \in Statuses
    BY DEF Statuses
  <2>. QED
    BY <1>1, <2>1, <2>2, SetStatusFree
<1>5. CASE TextInvalid
  <2>1. /\ UNCHANGED <<now, cohortActive>> /\ pc = "idle"
        /\ \/ SetStatus("disabled") /\ "blacklisted" \in Outcomes
           \/ UNCHANGED <<user, execs>>
        /\ \/ UNCHANGED <<pc, job>>
           \/ user.current \in Schedules /\ GoOn(None) /\ UNCHANGED <<user, execs>>
    BY <1>5, TextInvalidStep, Zenon
  <2>2. None \in Parsed /\ "disabled" \in Statuses
    BY DEF Parsed, Statuses
  <2>3. CASE user.current \in Schedules /\ GoOn(None) /\ UNCHANGED <<user, execs>>
    BY <2>1, <2>2, <2>3, GoOnFree
  <2>4. CASE UNCHANGED <<pc, job>>
    <3>1. CASE SetStatus("disabled")
      BY <2>1, <2>2, <2>4, <3>1, SetStatusFree
    <3>2. CASE UNCHANGED <<user, execs>>
      BY <1>1, <2>1, <2>4, <3>2
    <3>. QED
      BY <2>1, <3>1, <3>2
  <2>. QED
    BY <2>1, <2>3, <2>4
<1>6. CASE TextUnexpected
  BY <1>1, <1>6 DEF TextUnexpected
<1>7. ASSUME NEW a \in Answers \cup {Skip}, TextAnswer(a) PROVE Freedom'
  <2>1. UNCHANGED <<now, user, cohortActive, execs>> /\ pc = "idle" /\ user.current \in Schedules /\ GoOn(a)
    BY <1>7, TextAnswerStep, Zenon
  <2>2. a \in Parsed
    BY DEF Parsed
  <2>. QED
    BY <2>1, <2>2, GoOnFree
<1>. QED
  BY <1>2, <1>3, <1>4, <1>5, <1>6, <1>7 DEF Text

(* The pages, a notice that comes back blacklisted, and the clock: what    *)
(* expires is not live.                                                    *)
LEMMA OtherFree ==
    ASSUME Types, Types', NonActive, Freedom, TurnAdmin \/ TurnNoticeBlacklisted \/ NextHour
    PROVE  Freedom'
<1>1. CASE TurnChangeCohortStatus
  <2>1. execs' = Cleared /\ pc = "idle" /\ pc' = "idle"
    BY <1>1 DEF TurnChangeCohortStatus
  <2>2. user'.onboarded = user.onboarded /\ ~user'.midRun
    BY <1>1 DEF TurnChangeCohortStatus, Types, DocumentTypes, Document, Freedom
  <2>3. \A e \in Schedules : ~execs'[e].active
    BY <2>1, ClearedType DEF Types, DocumentTypes
  <2>. QED
    BY <2>1, <2>2, <2>3, IdleFree
<1>2. ASSUME NEW s \in {"active", "paused", "completed"}, TurnSetUserStatus(s) PROVE Freedom'
  BY <1>2, SetStatusFree DEF TurnSetUserStatus, Statuses
<1>3. CASE TurnNoticeBlacklisted
  BY <1>3, SetStatusFree DEF TurnNoticeBlacklisted, Statuses
<1>4. CASE NextHour
  <2>1. UNCHANGED <<user, cohortActive, execs, pc>> /\ pc = "idle" /\ now' = now + 1
    BY <1>4 DEF NextHour, documents
  <2>2. ~user'.midRun /\ (IsActive' <=> IsActive) /\ now' >= now
    BY <2>1 DEF Freedom, IsActive, Types, DocumentTypes
  <2>. QED
    BY <2>1, <2>2, IdleFree
<1>. QED
  BY <1>1, <1>2, <1>3, <1>4 DEF TurnAdmin

(* Every step keeps the invariant, as long as nothing fails and every      *)
(* survey asks.                                                            *)
LEMMA NextFree ==
    ASSUME Types, Types', NonActive, Replies, Freedom, RunsComplete, EverySurveyAsks, [TurnNext]_vars
    PROVE  Freedom'
<1>1. CASE TurnRun
  BY <1>1, BeginRunFree, EndRunFree, OtherActionsFree, QuestionsFree, Zenon DEF TurnRun
<1>2. CASE Hourly \/ TurnOnboarding \/ Outstanding \/ EndLoop
  BY <1>2, EveryHourFree, RefreshFree, VisitPeriodFree, OnboardFree, VisitOnCreationFree, OutstandingFree,
     EndLoopFree, Zenon DEF Hourly, TurnOnboarding, Outstanding
<1>3. CASE Text \/ TurnAdmin \/ TurnNoticeBlacklisted \/ NextHour
  BY <1>3, TextFree, OtherFree, Zenon
<1>4. CASE UNCHANGED vars
  <2>1. UNCHANGED <<now, user, cohortActive, execs, pc, job, agenda>>
    BY <1>4 DEF vars
  <2>2. AsksYet' /\ RunsFrom' /\ SentIsCurrent' /\ Onboards' /\ Unmet' /\ OnceEnds'
    BY <2>1 DEF Freedom, AsksYet, RunsFrom, SentIsCurrent, Onboards, Unmet, Fresh, OnceEnds, Working, Running
  <2>3. FreeRests'
    BY <2>1 DEF Freedom, FreeRests, TurnsLeft, Live, IsActive
  <2>. QED
    BY <2>1, <2>2, <2>3 DEF Freedom
<1>. QED
  BY <1>1, <1>2, <1>3, <1>4 DEF TurnNext

(* The initial states satisfy it.                                          *)
LEMMA InitFree == Init => Freedom
<1>. SUFFICES ASSUME Init PROVE Freedom
  OBVIOUS
<1>1. ASSUME NEW e \in Schedules
      PROVE  /\ ~execs[e].active
             /\ Config[e].subtype = "one_time" => execs[e].end \in {None, Due(Config[e])}
  <2>. DEFINE made == NewPeriod(Blank, Config[e], 0, TRUE)
  <2>1. Config[e] \in Calendar /\ 0 \in Nat /\ TRUE \in BOOLEAN
    BY EngineAssumption
  <2>2. Blank \in Execution(Questions)
    BY DEF Blank, Execution
  <2>3. made \in Execution(Questions)
    BY <2>1, <2>2, NewPeriodType
  <2>4. execs[e] = [made EXCEPT !.active = FALSE] /\ ~execs[e].active
    BY <2>1, MakeExecutionType DEF Init
  <2>5. now = 0 /\ made = NewPeriod(Blank, Config[e], now, TRUE)
    BY DEF Init
  <2>. HIDE DEF made
  <2>6. Config[e].subtype = "one_time" => made.end \in {None, Due(Config[e])}
    BY <2>1, <2>2, <2>5, NewPeriodTurns
  <2>. QED
    BY <2>3, <2>4, <2>6 DEF Execution
<1>2. AsksYet /\ RunsFrom /\ SentIsCurrent /\ Onboards
  BY DEF Init, AsksYet, RunsFrom, SentIsCurrent, Onboards, Working, Running
<1>3. Unmet /\ OnceEnds
  BY <1>1 DEF Init, Unmet, Fresh, OnceEnds, Working, Running
<1>4. FreeRests
  BY <1>1 DEF FreeRests, Live
<1>5. ~user.midRun
  BY DEF Init
<1>. QED
  BY <1>2, <1>3, <1>4, <1>5 DEF Freedom

(* No survey is left over: under the same conditions, if every survey asks *)
(* and what was interrupted is resumed, nothing waits for a user of whom   *)
(* nothing is asked, sent or not (NothingOutstandingWhenFree,              *)
(* run_outstanding_schedules after run_schedules).                         *)
THEOREM NothingIsLeftOver ==
    ASSUME ~Overlap, RunsComplete, EverySurveyAsks
    PROVE  Spec => []NothingOutstandingWhenFree
<1>. DEFINE Inv == Alone /\ now \in Nat /\ Types /\ MissedQuestions /\ Replies /\ Freedom
<1>1. Init => Inv
  <2>. SUFFICES ASSUME Init PROVE Inv
    OBVIOUS
  <2>1. now \in Nat /\ MissedQuestions
    BY DEF Init, MissedQuestions
  <2>. QED
    BY <2>1, InitAlone, InitTypes, InitReplies, InitFree
<1>2. Inv /\ [Next]_vars => Inv'
  <2>. SUFFICES ASSUME Inv, [Next]_vars PROVE Inv'
    OBVIOUS
  <2>1. [TurnNext]_vars /\ Alone' /\ now' \in Nat /\ NonActive
    BY OneThreadStep, ClockRuns, AloneRests
  <2>2. Types' /\ MissedQuestions' /\ Replies'
    BY <2>1, NextTypes, MissedBySending, NextReplies
  <2>. QED
    BY <2>1, <2>2, NextFree
<1>3. Inv => NothingOutstandingWhenFree
  BY AloneRests DEF Freedom, FreeRests, TurnsLeft, NothingOutstandingWhenFree, Idle, NonActive
<1>. QED
  BY <1>1, <1>2, <1>3, PTL DEF Spec
-----------------------------------------------------------------------------
(* What is in the tree of a schedule, or below a node of it.               *)
InTree(e, n) == n \in Range(Preorder[e])

(* The order of a tree is an order.                                        *)
LEMMA PrecedesOrders ==
    ASSUME TreesInOrder, NEW e \in Schedules, NEW p, NEW q, Precedes(e, p, q)
    PROVE  /\ p # q /\ InTree(e, p) /\ InTree(e, q)
           /\ \A r : Precedes(e, q, r) => Precedes(e, p, r)
           /\ ~Precedes(e, q, p)
<1>. DEFINE order == Preorder[e]
<1>1. order \in Seq(Nodes \cup Setters \cup Messages) /\ IsInjective(order)
  BY DEF TreesInOrder, Nodes
<1>2. DOMAIN order \subseteq Nat /\ \A i, j \in DOMAIN order : order[i] = order[j] => i = j
  BY <1>1 DEF IsInjective
<1>. HIDE DEF order
<1>3. PICK i, j \in DOMAIN order : i < j /\ order[i] = p /\ order[j] = q
  BY DEF Precedes, order
<1>4. p # q /\ p \in Range(order) /\ q \in Range(order)
  BY <1>2, <1>3 DEF Range
<1>5. ASSUME NEW r, Precedes(e, q, r) PROVE Precedes(e, p, r) /\ r # p
  <2>1. PICK k, l \in DOMAIN order : k < l /\ order[k] = q /\ order[l] = r
    BY <1>5 DEF Precedes, order
  <2>2. k = j
    BY <1>2, <1>3, <2>1
  <2>3. i < l /\ i # l
    BY <1>2, <1>3, <2>1, <2>2
  <2>. QED
    BY <1>2, <1>3, <2>1, <2>3 DEF Precedes, order
<1>. QED
  BY <1>4, <1>5 DEF InTree, order

(* The actions that Items makes agenda of.                                 *)
LEMMA ItemsOf ==
    ASSUME NEW Kind, NEW actions \in Seq(Kind), Kind \subseteq Questions \cup Conditionals \cup Setters \cup Messages,
           NEW answer \in Parsed
    PROVE  /\ Items(actions, answer) \in Seq(Item)
           /\ \A i \in DOMAIN Items(actions, answer) :
                  i \in DOMAIN actions /\ Items(actions, answer)[i].node = actions[i]
<1>1. DOMAIN actions = 1 .. Len(actions) /\ Len(actions) \in Nat
      /\ \A i \in DOMAIN actions : actions[i] \in Kind
  OBVIOUS
<1>2. Items(actions, answer) = [i \in 1 .. Len(actions) |-> [node |-> actions[i], answer |-> answer]]
  BY <1>1 DEF Items
<1>3. \A i \in 1 .. Len(actions) : [node |-> actions[i], answer |-> answer] \in Item
  BY <1>1 DEF Item
<1>. QED
  BY <1>1, <1>2, <1>3

(* The actions after a node are later siblings of it.                      *)
LEMMA LaterFollows ==
    ASSUME NEW n \in Nodes, NEW p \in Nodes, p = Parent[n], Contains(Actions[p], n)
    PROVE  /\ Later(n) \in Seq(Questions \cup Conditionals \cup Setters \cup Messages)
           /\ \E i \in DOMAIN Actions[p] :
                  /\ Actions[p][i] = n
                  /\ \A k \in DOMAIN Later(n) :
                         \E j \in DOMAIN Actions[p] : i < j /\ Later(n)[k] = Actions[p][j]
<1>. DEFINE siblings == Actions[p]
            place    == CHOOSE i \in DOMAIN siblings : siblings[i] = n
            Kind == Questions \cup Conditionals \cup Setters \cup Messages
<1>1. siblings \in Seq(Kind)
  BY EngineAssumption
<1>2. place \in DOMAIN siblings /\ siblings[place] = n
  <2>1. \E i \in DOMAIN siblings : siblings[i] = n
    BY <1>1 DEF Contains
  <2>. QED
    BY <2>1
<1>3. Later(n) = SubSeq(siblings, place + 1, Len(siblings))
  BY DEF Later
<1>. HIDE DEF siblings, place, Kind
<1>4. place \in 1 .. Len(siblings) /\ Len(siblings) \in Nat
  BY <1>1, <1>2
<1>5. Later(n) \in Seq(Kind) /\ Len(Later(n)) = Len(siblings) - place
      /\ \A k \in 1 .. Len(siblings) - place : Later(n)[k] = siblings[place + k]
  BY <1>1, <1>3, <1>4
<1>6. ASSUME NEW k \in DOMAIN Later(n)
      PROVE  place + k \in DOMAIN siblings /\ place < place + k /\ Later(n)[k] = siblings[place + k]
  <2>1. k \in 1 .. Len(siblings) - place
    BY <1>5
  <2>. QED
    BY <1>1, <1>4, <1>5, <2>1
<1>7. \E i \in DOMAIN siblings :
          /\ siblings[i] = n
          /\ \A k \in DOMAIN Later(n) : \E j \in DOMAIN siblings : i < j /\ Later(n)[k] = siblings[j]
  BY <1>2, <1>6
<1>. QED
  BY <1>5, <1>7 DEF siblings, Kind

(* The children of a node in a tree, and what is below them, come after    *)
(* it, in order.                                                           *)
LEMMA ChildrenFollow ==
    ASSUME TreesInOrder, NEW e \in Schedules, NEW n \in Nodes, InTree(e, n)
    PROVE  /\ \A i \in DOMAIN Actions[n] : Precedes(e, n, Actions[n][i])
           /\ \A i, j \in DOMAIN Actions[n] : i < j =>
                  \A y \in Below(Actions[n][i]) : Precedes(e, y, Actions[n][j])
<1>1. \A a : a \in Below(a)
  BY DEF Below, TreesInOrder
<1>2. \A i, j \in DOMAIN Actions[n] : \A p \in Below(Actions[n][i]), q \in Below(Actions[n][j]) :
          Precedes(e, n, p) /\ (i < j => Precedes(e, p, q))
  BY DEF TreesInOrder, InTree
<1>. QED
  BY <1>1, <1>2

(* What After[n] holds, of a node n of the tree of e: actions that come    *)
(* after n and after all that is below n.                                  *)
Follows(e, n) ==
    /\ After[n] \in Seq(Item)
    /\ \A i \in DOMAIN After[n] : \A y \in Range(Preorder[n]) : Precedes(e, y, After[n][i].node)

(* ... if what After holds of its parent follows the parent.               *)
LEMMA FollowsParent ==
    ASSUME TreesInOrder, NEW e \in Schedules, NEW n \in Nodes, InTree(e, n), n \notin Schedules
    PROVE  /\ Parent[n] \in Nodes /\ Precedes(e, Parent[n], n)
           /\ Follows(e, Parent[n]) => Follows(e, n)
<1>. DEFINE p == Parent[n]
            later == Items(Later(n), None)
<1>1. /\ p \in Nodes /\ InTree(e, p) /\ Contains(Actions[p], n)
      /\ After[n] = later \o After[p]
  BY DEF TreesInOrder, InTree
<1>2. Later(n) \in Seq(Questions \cup Conditionals \cup Setters \cup Messages)
  BY <1>1, LaterFollows
<1>3. PICK i \in DOMAIN Actions[p] :
          /\ Actions[p][i] = n
          /\ \A k \in DOMAIN Later(n) :
                 \E j \in DOMAIN Actions[p] : i < j /\ Later(n)[k] = Actions[p][j]
  BY <1>1, LaterFollows, Zenon
<1>4. None \in Parsed
  BY DEF Parsed
<1>5. later \in Seq(Item) /\ \A k \in DOMAIN later : k \in DOMAIN Later(n) /\ later[k].node = Later(n)[k]
  <2>1. \E Kind : Later(n) \in Seq(Kind) /\ Kind = Questions \cup Conditionals \cup Setters \cup Messages
    BY <1>2
  <2>. QED
    BY <1>4, <2>1, ItemsOf
<1>6. Below(n) = Range(Preorder[n])
  BY DEF Below
<1>7. ASSUME NEW y \in Range(Preorder[n]), NEW k \in DOMAIN later PROVE Precedes(e, y, later[k].node)
  <2>1. PICK j \in DOMAIN Actions[p] : i < j /\ Later(n)[k] = Actions[p][j]
    BY <1>3, <1>5
  <2>2. \A a, b \in DOMAIN Actions[p] : a < b =>
            \A x \in Below(Actions[p][a]) : Precedes(e, x, Actions[p][b])
    BY <1>1, ChildrenFollow
  <2>3. y \in Below(Actions[p][i])
    BY <1>3, <1>6
  <2>4. later[k].node = Actions[p][j]
    BY <1>5, <2>1
  <2>. HIDE DEF p, later
  <2>. QED
    BY <1>3, <2>1, <2>2, <2>3, <2>4
<1>8. Precedes(e, p, n)
  BY <1>1, <1>3, ChildrenFollow
<1>9. ASSUME Follows(e, p) PROVE Follows(e, n)
  <2>1. Range(Preorder[n]) \subseteq Range(Preorder[p])
    <3>1. \A a \in DOMAIN Actions[p] : Below(Actions[p][a]) \subseteq Range(Preorder[p])
      BY <1>1 DEF TreesInOrder
    <3>. QED
      BY <1>3, <1>6, <3>1
  <2>. DEFINE rest == After[p]
  <2>2. rest \in Seq(Item) /\ \A k \in DOMAIN rest : \A y \in Range(Preorder[n]) : Precedes(e, y, rest[k].node)
    BY <1>9, <2>1 DEF Follows
  <2>. HIDE DEF rest, later
  <2>3. later \o rest \in Seq(Item)
    BY <1>5, <2>2
  <2>4. ASSUME NEW k \in DOMAIN (later \o rest), NEW y \in Range(Preorder[n])
        PROVE  Precedes(e, y, (later \o rest)[k].node)
    <3>1. CASE k \in DOMAIN later
      <4>1. (later \o rest)[k] = later[k]
        BY <1>5, <2>2, <3>1
      <4>. QED
        BY <1>7, <3>1, <4>1
    <3>2. CASE k \notin DOMAIN later
      <4>1. k - Len(later) \in DOMAIN rest /\ (later \o rest)[k] = rest[k - Len(later)]
        BY <1>5, <2>2, <3>2
      <4>. QED
        BY <2>2, <4>1
    <3>. QED
      BY <3>1, <3>2
  <2>. QED
    BY <1>1, <2>3, <2>4 DEF Follows, later, rest
<1>. QED
  BY <1>1, <1>8, <1>9

(* What a resume does after a node comes after the node (by least          *)
(* counterexample: a parent precedes its children).                        *)
LEMMA AfterFollows ==
    ASSUME TreesInOrder, NEW e \in Schedules, NEW n \in Nodes, InTree(e, n)
    PROVE  Follows(e, n)
<1>. DEFINE order == Preorder[e]
            bad == {k \in DOMAIN order : order[k] \in Nodes /\ ~Follows(e, order[k])}
<1>1. order \in Seq(Nodes \cup Setters \cup Messages) /\ \A i, j \in DOMAIN order : order[i] = order[j] => i = j
  BY DEF TreesInOrder, Nodes, IsInjective
<1>2. bad \subseteq Nat
  BY <1>1
<1>3. ASSUME bad # {} PROVE FALSE
  <2>. DEFINE m == Min(bad)
              c == order[m]
  <2>1. m \in bad /\ \A k \in bad : m <= k
    BY <1>2, <1>3, LeastIsMember
  <2>2. m \in DOMAIN order /\ c \in Nodes /\ ~Follows(e, c) /\ InTree(e, c)
    BY <2>1 DEF InTree, Range
  <2>3. CASE c \in Schedules
    <3>1. After[c] = <<>>
      BY <2>3 DEF TreesInOrder
    <3>2. Follows(e, c)
      BY <3>1 DEF Follows
    <3>. QED
      BY <2>2, <3>2
  <2>4. CASE c \notin Schedules
    <3>1. Parent[c] \in Nodes /\ Precedes(e, Parent[c], c) /\ (Follows(e, Parent[c]) => Follows(e, c))
      BY <2>2, <2>4, FollowsParent
    <3>2. PICK i, j \in DOMAIN order : i < j /\ order[i] = Parent[c] /\ order[j] = c
      BY <3>1 DEF Precedes
    <3>3. j = m
      BY <1>1, <2>2, <3>2
    <3>4. i \in bad
      BY <2>2, <3>1, <3>2
    <3>5. i < m /\ i \in Nat /\ m \in Nat
      BY <1>2, <2>1, <3>2, <3>3, <3>4
    <3>. HIDE DEF m, bad
    <3>. QED
      BY <2>1, <3>4, <3>5
  <2>. QED
    BY <2>3, <2>4
<1>4. \E k \in DOMAIN order : order[k] = n
  BY DEF InTree, Range
<1>. QED
  BY <1>3, <1>4
-----------------------------------------------------------------------------
(* An execution waits at a question of its tree, in the database and in    *)
(* memory, where no other handler can have taken it further.               *)
Placed == \A e \in Schedules : execs[e].state # None => InTree(e, execs[e].state)

CopiesPlaced ==
    Working => \A e \in Schedules :
                   /\ job.copies[e].state # None => InTree(e, job.copies[e].state)
                   /\ execs[e].state \in {None, job.copies[e].state}

(* The actions still to do are of the tree, and come after the question    *)
(* that the run began with.                                                *)
Ahead(e, state, n) == InTree(e, n) /\ (state # None => Precedes(e, state, n))

AllAhead(e, state, items) ==
    items \in Seq(Item) /\ \A i \in DOMAIN items : Ahead(e, state, items[i].node)

AgendaPlaced == pc = "act" => AllAhead(job.at, job.copies[job.at].state, agenda)

(* The inductive invariant of SurveyMovesForward, and what a step does.    *)
Forward == Placed /\ CopiesPlaced /\ AgendaPlaced

Moves ==
    \A e \in Schedules :
        LET p == execs[e].state
            q == execs'[e].state
        IN  p # q /\ p # None /\ q # None => Precedes(e, p, q)

(* Steps that leave executions at their questions, or clear them.          *)
LEMMA PlacesKept ==
    ASSUME Forward,
           \A e \in Schedules : execs'[e].state \in {None, execs[e].state},
           Working' => \A e \in Schedules :
                           /\ \/ job'.copies[e].state \in {None, execs[e].state}
                              \/ Working /\ job'.copies[e].state = job.copies[e].state
                           /\ execs'[e].state \in {None, job'.copies[e].state},
           AgendaPlaced'
    PROVE  Forward' /\ Moves
<1>1. Placed'
  BY DEF Forward, Placed, InTree
<1>2. CopiesPlaced'
  BY DEF Forward, Placed, CopiesPlaced, InTree
<1>. QED
  BY <1>1, <1>2 DEF Forward, Moves

(* What is left when one action is done is still ahead,                    *)
LEMMA TailAhead ==
    ASSUME NEW e \in Schedules, NEW state, NEW items, AllAhead(e, state, items), items # <<>>
    PROVE  /\ AllAhead(e, state, Tail(items))
           /\ Head(items) \in Item /\ Ahead(e, state, Head(items).node)
<1>1. items \in Seq(Item) /\ \A i \in DOMAIN items : Ahead(e, state, items[i].node)
  BY DEF AllAhead
<1>2. 1 \in DOMAIN items /\ Head(items) = items[1] /\ items[1] \in Item
  BY <1>1
<1>3. Tail(items) \in Seq(Item) /\ \A i \in DOMAIN Tail(items) : i + 1 \in DOMAIN items /\ Tail(items)[i] = items[i + 1]
  BY <1>1
<1>. QED
  BY <1>1, <1>2, <1>3 DEF AllAhead

(* ... and so it is behind others that are.                                *)
LEMMA ConcatAhead ==
    ASSUME NEW e \in Schedules, NEW state, NEW items, NEW rest,
           AllAhead(e, state, items), AllAhead(e, state, rest)
    PROVE  AllAhead(e, state, items \o rest)
<1>1. /\ items \in Seq(Item) /\ \A i \in DOMAIN items : Ahead(e, state, items[i].node)
      /\ rest \in Seq(Item) /\ \A i \in DOMAIN rest : Ahead(e, state, rest[i].node)
  BY DEF AllAhead
<1>2. items \o rest \in Seq(Item)
  BY <1>1
<1>3. \A i \in DOMAIN (items \o rest) :
          \/ i \in DOMAIN items /\ (items \o rest)[i] = items[i]
          \/ i - Len(items) \in DOMAIN rest /\ (items \o rest)[i] = rest[i - Len(items)]
  BY <1>1
<1>. QED
  BY <1>1, <1>2, <1>3 DEF AllAhead

(* The actions of a node are ahead of all that the node is ahead of.       *)
LEMMA ChildrenAhead ==
    ASSUME TreesInOrder, NEW e \in Schedules, NEW n \in Nodes, InTree(e, n), NEW answer \in Parsed,
           NEW state, state = n \/ Ahead(e, state, n)
    PROVE  AllAhead(e, state, Items(Actions[n], answer))
<1>. DEFINE Kind == Questions \cup Conditionals \cup Setters \cup Messages
            items == Items(Actions[n], answer)
<1>1. Actions[n] \in Seq(Kind)
  BY EngineAssumption
<1>2. items \in Seq(Item) /\ \A i \in DOMAIN items : i \in DOMAIN Actions[n] /\ items[i].node = Actions[n][i]
  <2>1. Kind \subseteq Questions \cup Conditionals \cup Setters \cup Messages
    OBVIOUS
  <2>. HIDE DEF Kind
  <2>. QED
    BY <1>1, <2>1, ItemsOf
<1>3. \A i \in DOMAIN Actions[n] : Precedes(e, n, Actions[n][i])
  BY ChildrenFollow
<1>4. ASSUME NEW q, Precedes(e, n, q) PROVE Ahead(e, state, q)
  <2>1. InTree(e, q)
    BY <1>4, PrecedesOrders
  <2>2. CASE state = n
    BY <1>4, <2>1, <2>2 DEF Ahead
  <2>3. CASE Ahead(e, state, n)
    BY <1>4, <2>1, <2>3, PrecedesOrders DEF Ahead
  <2>. QED
    BY <2>2, <2>3
<1>. HIDE DEF items
<1>. QED
  BY <1>2, <1>3, <1>4 DEF AllAhead, items

(* What a resume at a question does is ahead of it.                        *)
LEMMA ResumeAhead ==
    ASSUME TreesInOrder, NEW e \in Schedules, NEW q \in Questions, InTree(e, q), NEW answer \in Parsed
    PROVE  AllAhead(e, q, Items(Actions[q], answer) \o After[q])
<1>1. q \in Nodes
  BY DEF Nodes
<1>2. Follows(e, q)
  BY <1>1, AfterFollows
<1>3. q \in Range(Preorder[q])
  BY <1>1 DEF TreesInOrder
<1>4. \A i \in DOMAIN After[q] : Ahead(e, q, After[q][i].node)
  BY <1>2, <1>3, PrecedesOrders DEF Follows, Ahead
<1>5. AllAhead(e, q, After[q])
  BY <1>2, <1>4 DEF Follows, AllAhead
<1>. QED
  BY <1>1, <1>5, ChildrenAhead, ConcatAhead

(* The start of run().                                                     *)
LEMMA BeginRunPlaces ==
    ASSUME TreesInOrder, Types, Forward, BeginRun
    PROVE  Forward' /\ Moves
<1>. DEFINE e == job.at
            q == job.copies[e].state
<1>1. /\ pc = "run" /\ Running /\ Working /\ job \in Local /\ job.kind \in Kinds /\ e \in Schedules
      /\ job.at \notin job.todo /\ job.copies \in Copies /\ UNCHANGED execs
  BY Zenon DEF BeginRun, Types, JobTypes, Running, Working
<1>2. /\ q \in Questions \cup {None} /\ (q # None => InTree(e, q)) /\ job.answer \in Parsed
      /\ \A f \in Schedules : execs[f].state \in {None, job.copies[f].state}
  BY <1>1 DEF Forward, CopiesPlaced, Copies, Execution, Local
<1>3. CASE Return(FALSE, job.copies)
  <2>1. /\ pc' \in {"idle", "outstanding", "loop", "run", "refresh"}
        /\ pc' \in {"loop", "run", "refresh"} =>
             job' = [job EXCEPT !.sent = job.sent \/ FALSE, !.resend = FALSE, !.copies = job.copies]
    BY <1>1, <1>3, ReturnTypes, Zenon
  <2>2. Working' => job'.copies = job.copies
    BY <1>1, <2>1 DEF Working, Running, Local
  <2>. QED
    BY <1>1, <1>2, <2>1, <2>2, PlacesKept DEF AgendaPlaced
<1>4. CASE /\ pc' = IF q # None /\ job.resend THEN "resend" ELSE "act"
           /\ agenda' = IF q = None THEN Items(Actions[e], job.answer)
                           ELSE IF job.resend THEN <<>>
                           ELSE Items(Actions[q], job.answer) \o After[q]
           /\ UNCHANGED job
  <2>1. InTree(e, e) /\ e \in Nodes
    BY <1>1 DEF TreesInOrder, Nodes, InTree
  <2>2. ASSUME q = None PROVE AllAhead(e, None, Items(Actions[e], job.answer))
    <3>1. Ahead(e, None, e)
      BY <2>1 DEF Ahead
    <3>. QED
      BY <1>1, <1>2, <2>1, <3>1, ChildrenAhead
  <2>3. ASSUME q # None PROVE AllAhead(e, q, Items(Actions[q], job.answer) \o After[q])
    BY <1>1, <1>2, <2>3, ResumeAhead
  <2>4. AgendaPlaced'
    BY <1>4, <2>2, <2>3, Zenon DEF AgendaPlaced, AllAhead, Ahead, InTree
  <2>. QED
    BY <1>1, <1>2, <1>4, <2>4, PlacesKept
<1>. QED
  BY <1>3, <1>4, Zenon DEF BeginRun

(* Steps that go on with the agenda, and at most clear the executions.     *)
LEMMA AgendaPlaces ==
    ASSUME Types, Forward, pc = "act", execs' = execs \/ execs' = Cleared,
           UNCHANGED <<pc, job>>, AllAhead(job.at, job.copies[job.at].state, agenda')
    PROVE  Forward' /\ Moves
<1>1. Working /\ execs \in Copies
  BY DEF Working, Running, Types, DocumentTypes
<1>2. \A e \in Schedules : execs'[e].state \in {None, execs[e].state}
  BY <1>1, ClearedType
<1>3. \A e \in Schedules : execs[e].state \in {None, job.copies[e].state}
  BY <1>1 DEF Forward, CopiesPlaced
<1>4. AgendaPlaced'
  BY DEF AgendaPlaced, AllAhead, Ahead, InTree
<1>. QED
  BY <1>1, <1>2, <1>3, <1>4, PlacesKept

(* An exception.                                                           *)
LEMMA FailPlaces ==
    ASSUME Types, Forward, Running, Fail, execs' = execs \/ execs' = Cleared
    PROVE  Forward' /\ Moves
<1>1. pc' = "idle" \/ (pc' = "loop" /\ job' = job)
  BY FailTypes
<1>2. Working /\ execs \in Copies
  BY DEF Working, Types, DocumentTypes
<1>3. \A e \in Schedules : execs'[e].state \in {None, execs[e].state}
  BY <1>2, ClearedType
<1>4. \A e \in Schedules : execs[e].state \in {None, job.copies[e].state}
  BY <1>2 DEF Forward, CopiesPlaced
<1>. QED
  BY <1>1, <1>2, <1>3, <1>4, PlacesKept DEF AgendaPlaced, Working, Running

(* The actions that are no questions.                                      *)
LEMMA ActionPlaces ==
    ASSUME TreesInOrder, Types, Forward, TurnSetAttribute \/ TurnSendMessage \/ TestConditional
    PROVE  Forward' /\ Moves
<1>. DEFINE e == job.at
            state == job.copies[e].state
<1>1. pc = "act" /\ Running /\ agenda # <<>> /\ e \in Schedules
  BY Zenon DEF TurnSetAttribute, TurnSendMessage, TestConditional, Doing, Types, JobTypes, Running
<1>2. AllAhead(e, state, agenda)
  BY <1>1 DEF Forward, AgendaPlaced
<1>3. AllAhead(e, state, Tail(agenda)) /\ Head(agenda) \in Item /\ Ahead(e, state, Head(agenda).node)
  BY <1>1, <1>2, TailAhead
<1>4. CASE TurnSetAttribute
  <2>1. UNCHANGED <<pc, job>> /\ agenda' = Tail(agenda)
    BY <1>4 DEF TurnSetAttribute
  <2>2. execs' = execs \/ execs' = Cleared
    BY <1>4 DEF TurnSetAttribute, SetStatus, ClearedBy
  <2>. QED
    BY <1>1, <1>3, <2>1, <2>2, AgendaPlaces
<1>5. CASE TurnSendMessage
  <2>1. execs' = execs \/ execs' = Cleared
    BY <1>5 DEF TurnSendMessage, SetStatus, ClearedBy
  <2>2. CASE UNCHANGED <<pc, job>> /\ agenda' = Tail(agenda)
    BY <1>1, <1>3, <2>1, <2>2, AgendaPlaces
  <2>3. CASE Fail
    BY <1>1, <2>1, <2>3, FailPlaces
  <2>. QED
    BY <1>5, <2>2, <2>3 DEF TurnSendMessage
<1>6. CASE TestConditional
  <2>. DEFINE c == Head(agenda).node
              answer == Head(agenda).answer
  <2>1. /\ UNCHANGED <<pc, job, execs>>
        /\ \/ agenda' = Items(Actions[c], answer) \o Tail(agenda)
           \/ agenda' = <<>> \o Tail(agenda)
    BY <1>6, Zenon DEF TestConditional, documents
  <2>2. answer \in Parsed /\ c \in Nodes /\ InTree(e, c)
    BY <1>3, <1>6, Zenon DEF TestConditional, Doing, Nodes, Item, Ahead
  <2>3. AllAhead(e, state, Items(Actions[c], answer))
    BY <1>1, <1>3, <2>2, ChildrenAhead
  <2>4. AllAhead(e, state, <<>>)
    BY DEF AllAhead
  <2>. HIDE DEF c, answer, e, state
  <2>5. AllAhead(e, state, agenda')
    BY <1>1, <1>3, <2>1, <2>3, <2>4, ConcatAhead
  <2>. QED
    BY <1>1, <2>1, <2>5, AgendaPlaces DEF e, state
<1>. QED
  BY <1>4, <1>5, <1>6

(* The tree is done: the execution is back at its root.                    *)
LEMMA EndRunPlaces ==
    ASSUME Types, Forward, EndRun
    PROVE  Forward' /\ Moves
<1>. DEFINE e == job.at
            c == [job.copies EXCEPT ![e] = Ended(@, None)]
<1>1. /\ Running /\ Working /\ job \in Local /\ job.kind \in Kinds /\ e \in Schedules /\ job.at \notin job.todo
      /\ job.copies \in Copies /\ execs \in Copies
      /\ Return(FALSE, c) /\ execs' = [execs EXCEPT ![e] = Ended(@, None)]
  BY DEF EndRun, Types, DocumentTypes, JobTypes, Running, Working
<1>2. c \in Copies /\ \A f \in Schedules :
          /\ c[f].state = IF f = e THEN None ELSE job.copies[f].state
          /\ execs'[f].state = IF f = e THEN None ELSE execs[f].state
  BY <1>1, EndedType DEF Copies
<1>. HIDE DEF c
<1>3. /\ pc' \in {"idle", "outstanding", "loop", "run", "refresh"}
      /\ pc' \in {"loop", "run", "refresh"} =>
             job' = [job EXCEPT !.sent = job.sent \/ FALSE, !.resend = FALSE, !.copies = c]
  BY <1>1, <1>2, ReturnTypes, Zenon
<1>4. Working' => job'.copies = c
  BY <1>1, <1>3 DEF Working, Running, Local
<1>5. \A f \in Schedules : execs[f].state \in {None, job.copies[f].state}
  BY <1>1 DEF Forward, CopiesPlaced
<1>. QED
  BY <1>1, <1>2, <1>3, <1>4, <1>5, PlacesKept DEF AgendaPlaced

(* A run pauses at a question ahead of the one it began with, or at that.  *)
LEMMA PausePlaces ==
    ASSUME TreesInOrder, Types, Forward, Running, NEW q \in Questions, InTree(job.at, q),
           LET state == job.copies[job.at].state
           IN  state # None /\ state # q => Precedes(job.at, state, q),
           NEW db \in Copies, \A e \in Schedules : db[e].state \in {None, execs[e].state},
           Pause(q, db)
    PROVE  Forward' /\ Moves
<1>. DEFINE e == job.at
<1>1. /\ Working /\ e \in Schedules /\ job.copies \in Copies /\ q # None
      /\ \A f \in Schedules : /\ execs[f].state \in {None, job.copies[f].state}
                              /\ job.copies[f].state # None => InTree(f, job.copies[f].state)
  BY NoneApart DEF Types, JobTypes, Working, Forward, CopiesPlaced
<1>2. /\ execs' = [db EXCEPT ![e] = Ended(@, q)]
      /\ pc' \in {"idle", "loop", "refresh"}
      /\ pc' \in {"loop", "refresh"} => job'.copies = [job.copies EXCEPT ![e] = Ended(@, q)]
  BY PauseTypes
<1>3. \A f \in Schedules : execs'[f].state = IF f = e THEN q ELSE db[f].state
  BY <1>1, <1>2, EndedType DEF Copies
<1>4. Working' => \A f \in Schedules : job'.copies[f].state = IF f = e THEN q ELSE job.copies[f].state
  <2>1. ASSUME Working', NEW f \in Schedules
        PROVE  job'.copies[f].state = IF f = e THEN q ELSE job.copies[f].state
    <3>1. pc' \in {"loop", "refresh"}
      BY <1>2, <2>1 DEF Working, Running
    <3>2. job'.copies = [job.copies EXCEPT ![e] = Ended(@, q)]
      BY <1>2, <3>1
    <3>. QED
      BY <1>1, <3>2, EndedType DEF Copies
  <2>. QED
    BY <2>1
<1>5. Placed'
  BY <1>1, <1>3 DEF Forward, Placed, InTree
<1>6. CopiesPlaced'
  BY <1>1, <1>3, <1>4 DEF CopiesPlaced, InTree
<1>7. AgendaPlaced'
  BY <1>2 DEF AgendaPlaced
<1>8. Moves
  BY <1>1, <1>3 DEF Moves
<1>. QED
  BY <1>5, <1>6, <1>7, <1>8 DEF Forward

(* A question is asked, or asked again, whatever comes of it.              *)
LEMMA QuestionPlaces ==
    ASSUME TreesInOrder, Types, Forward, TurnSendQuestion \/ TurnResendQuestion
    PROVE  Forward' /\ Moves
<1>. DEFINE e == job.at
            state == job.copies[e].state
            q == IF pc = "act" THEN Head(agenda).node ELSE state
<1>1. /\ pc \in {"act", "resend"} /\ Running /\ Working /\ e \in Schedules /\ execs \in Copies
      /\ \/ Pause(q, execs)
         \/ Pause(q, ClearedBy(user, "disabled"))
         \/ Fail /\ UNCHANGED execs
  BY DEF TurnSendQuestion, TurnResendQuestion, Doing, Types, DocumentTypes, JobTypes, Running, Working
<1>2. /\ q \in Questions /\ InTree(e, q) /\ (state # None /\ state # q => Precedes(e, state, q))
  <2>1. CASE pc = "act"
    <3>1. AllAhead(e, state, agenda) /\ agenda # <<>> /\ q = Head(agenda).node /\ q \in Questions
      BY <2>1 DEF Forward, AgendaPlaced, TurnSendQuestion, TurnResendQuestion, Doing
    <3>. HIDE DEF q, state
    <3>2. Ahead(e, state, q)
      BY <1>1, <3>1, TailAhead
    <3>. QED
      BY <3>1, <3>2 DEF Ahead
  <2>2. CASE pc # "act"
    <3>1. q = state /\ state \in Questions
      BY <1>1, <2>2 DEF Types, JobTypes
    <3>2. state # None
      BY <3>1, NoneApart
    <3>. QED
      BY <1>1, <3>1, <3>2 DEF Forward, CopiesPlaced
  <2>. QED
    BY <2>1, <2>2
<1>3. /\ ClearedBy(user, "disabled") \in Copies
      /\ \A f \in Schedules : ClearedBy(user, "disabled")[f].state \in {None, execs[f].state}
  BY <1>1, ClearedType DEF ClearedBy
<1>. HIDE DEF q
<1>4. \A f \in Schedules : execs[f].state \in {None, execs[f].state}
  OBVIOUS
<1>5. CASE Pause(q, execs)
  BY <1>1, <1>2, <1>4, <1>5, PausePlaces
<1>6. CASE Pause(q, ClearedBy(user, "disabled"))
  BY <1>1, <1>2, <1>3, <1>6, PausePlaces
<1>7. CASE Fail /\ UNCHANGED execs
  BY <1>1, <1>7, FailPlaces
<1>. QED
  BY <1>1, <1>5, <1>6, <1>7

(* Handlers start with the executions of the database.                     *)
LEMMA StartPlaces ==
    ASSUME Types, Forward, EveryHour \/ TurnOnboard \/ RunOutstanding
    PROVE  Forward' /\ Moves
<1>1. CASE EveryHour /\ SetStatus("inactive") /\ UNCHANGED <<pc, job>>
  <2>1. pc = "idle" /\ execs \in Copies /\ (execs' = execs \/ execs' = Cleared)
    BY <1>1 DEF EveryHour, SetStatus, ClearedBy, Types, DocumentTypes
  <2>2. \A e \in Schedules : execs'[e].state \in {None, execs[e].state}
    BY <2>1, ClearedType
  <2>. QED
    BY <1>1, <2>1, <2>2, PlacesKept DEF AgendaPlaced, Working, Running
<1>2. CASE execs' = execs /\ pc' = "loop" /\ \E kind \in Kinds, todo \in SUBSET Schedules : job' = Job(kind, todo)
  <2>1. execs \in Copies
    BY DEF Types, DocumentTypes
  <2>2. job'.copies = execs
    BY <1>2, <2>1, NewJob
  <2>. QED
    BY <1>2, <2>2, PlacesKept DEF AgendaPlaced
<1>3. EveryHour => \/ SetStatus("inactive") /\ UNCHANGED <<pc, job>>
                   \/ execs' = execs /\ pc' = "loop" /\ job' = Job("hour", Schedules)
  BY DEF EveryHour
<1>4. TurnOnboard => /\ execs' = execs /\ pc' = "loop"
                 /\ job' = Job("onboard", {e \in Schedules : Config[e].subtype = "on_user_creation"})
  BY DEF TurnOnboard
<1>5. RunOutstanding => /\ execs' = execs /\ pc' = "loop"
                        /\ job' = Job("outstanding", {e \in Schedules : execs[e].active})
  BY DEF RunOutstanding, documents
<1>6. "hour" \in Kinds /\ "onboard" \in Kinds /\ "outstanding" \in Kinds
  BY DEF Kinds
<1>7. /\ Schedules \in SUBSET Schedules
      /\ {e \in Schedules : Config[e].subtype = "on_user_creation"} \in SUBSET Schedules
      /\ {e \in Schedules : execs[e].active} \in SUBSET Schedules
  OBVIOUS
<1>. QED
  BY <1>1, <1>2, <1>3, <1>4, <1>5, <1>6, <1>7, Zenon

(* A new period puts every execution at the root, or no execution.         *)
LEMMA NewPeriodState ==
    ASSUME now \in Nat, NEW s \in Calendar, NEW active \in BOOLEAN
    PROVE  \/ \A x \in Execution(Questions) : NewPeriod(x, s, now, active).state = None
           \/ \A x \in Execution(Questions) : NewPeriod(x, s, now, active).state = x.state
<1>1. s.subtype \in Subtypes /\ Due(s) \in Nat
  BY DueType DEF Calendar
<1>2. CASE s.subtype = "one_time" /\ now >= Due(s)
  BY <1>2, OneTimeDue DEF Period
<1>3. CASE s.subtype = "one_time" /\ now < Due(s)
  BY <1>3, NewPeriodKeeps
<1>4. CASE s.subtype = "recurring"
  <2>1. ASSUME NEW x \in Execution(Questions) PROVE NewPeriod(x, s, now, active).state = None
    BY <1>4, RecurringPeriod
  <2>. QED
    BY <2>1
<1>5. CASE s.subtype \in {"daily_limit", "on_user_creation"}
  BY <1>5 DEF NewPeriod, Period
<1>. QED
  BY <1>1, <1>2, <1>3, <1>4, <1>5 DEF Subtypes

(* The passes of the hourly job do the same to an execution in the         *)
(* database as to its copy.                                                *)
StatesKept ==
    \A f \in Schedules :
        /\ execs'[f].state \in {None, execs[f].state}
        /\ job'.copies[f].state \in {None, job.copies[f].state}
        /\ execs[f].state \in {None, job.copies[f].state} => execs'[f].state \in {None, job'.copies[f].state}

(* ... at the start of a pass                                              *)
LEMMA VisitPeriodStates ==
    ASSUME Types, NEW e \in Schedules, VisitPeriod(e)
    PROVE  StatesKept
<1>. DEFINE copy     == job.copies[e]
            set      == SetPeriod(copy, Config[e], now, FALSE)
            due      == ~job.sent /\ ResendDue(set, now)
            started  == StartsPeriod(copy, Config[e], now)
            kept(x)  == IF due THEN [x EXCEPT !.resends = DropResends(set, now).resends] ELSE x
            saved    == IF Resets(copy, now, FALSE)
                        THEN NewPeriod(execs[e], Config[e], now, TRUE) ELSE execs[e]
<1>1. /\ execs' = [execs EXCEPT ![e] = kept(saved)]
      /\ job' = [job EXCEPT !.at = e, !.todo = @ \ {e}, !.started = started,
                                 !.resend = due, !.copies[e] = kept(set)]
  BY DEF VisitPeriod
<1>2. /\ now \in Nat /\ job \in Local /\ job.copies \in Copies /\ execs \in Copies
  BY DEF VisitPeriod, Types, DocumentTypes, JobTypes, Working
<1>3. copy \in Execution(Questions) /\ execs[e] \in Execution(Questions) /\ Config[e] \in Calendar
  BY <1>2, EngineAssumption DEF Copies
<1>4. set \in Execution(Questions) /\ saved \in Execution(Questions)
  BY <1>2, <1>3, SetPeriodType, NewPeriodOf
<1>5. /\ saved.state \in {None, execs[e].state} /\ set.state \in {None, copy.state}
      /\ execs[e].state \in {None, copy.state} => saved.state \in {None, set.state}
  <2>1. CASE Resets(copy, now, FALSE)
    <3>1. saved = NewPeriod(execs[e], Config[e], now, TRUE) /\ set = NewPeriod(copy, Config[e], now, TRUE)
      BY <2>1 DEF SetPeriod
    <3>. HIDE DEF saved, set, copy
    <3>. QED
      BY <1>2, <1>3, <3>1, NewPeriodState
  <2>2. CASE ~Resets(copy, now, FALSE)
    BY <2>2 DEF SetPeriod
  <2>. QED
    BY <2>1, <2>2
<1>. HIDE DEF copy, set, due, started, saved
<1>6. ASSUME NEW x \in Execution(Questions) PROVE kept(x).state = x.state
  BY DEF Execution
<1>7. kept(saved).state = saved.state /\ kept(set).state = set.state
  BY <1>4, <1>6
<1>. HIDE DEF kept
<1>8. job'.copies = [job.copies EXCEPT ![e] = kept(set)]
  BY <1>1, <1>2 DEF Local
<1>9. \A f \in Schedules :
          /\ execs'[f].state = IF f = e THEN saved.state ELSE execs[f].state
          /\ job'.copies[f].state = IF f = e THEN set.state ELSE job.copies[f].state
  BY <1>1, <1>2, <1>7, <1>8 DEF Copies
<1>. QED
  BY <1>5, <1>9 DEF StatesKept, copy

(* ... and at its end.                                                     *)
LEMMA RefreshStates ==
    ASSUME Types, Refresh
    PROVE  StatesKept
<1>. DEFINE e     == job.at
            copy  == job.copies[e]
            set   == SetPeriod(copy, Config[e], now, TRUE)
            saved == IF Resets(copy, now, TRUE) THEN NewPeriod(execs[e], Config[e], now, FALSE) ELSE execs[e]
<1>1. /\ execs' = [execs EXCEPT ![e] = saved]
      /\ job' = [job EXCEPT !.copies[e] = set]
  BY DEF Refresh
<1>2. /\ now \in Nat /\ job \in Local /\ job.copies \in Copies /\ execs \in Copies /\ e \in Schedules
  BY DEF Refresh, Types, DocumentTypes, JobTypes, Working, Running
<1>3. copy \in Execution(Questions) /\ execs[e] \in Execution(Questions) /\ Config[e] \in Calendar
  BY <1>2, EngineAssumption DEF Copies
<1>5. /\ saved.state \in {None, execs[e].state} /\ set.state \in {None, copy.state}
      /\ execs[e].state \in {None, copy.state} => saved.state \in {None, set.state}
  <2>1. CASE Resets(copy, now, TRUE)
    <3>1. saved = NewPeriod(execs[e], Config[e], now, FALSE) /\ set = NewPeriod(copy, Config[e], now, FALSE)
      BY <2>1 DEF SetPeriod
    <3>. HIDE DEF saved, set, copy
    <3>. QED
      BY <1>2, <1>3, <3>1, NewPeriodState
  <2>2. CASE ~Resets(copy, now, TRUE)
    BY <2>2 DEF SetPeriod
  <2>. QED
    BY <2>1, <2>2
<1>. HIDE DEF copy, set, saved, e
<1>8. job'.copies = [job.copies EXCEPT ![e] = set]
  BY <1>1, <1>2 DEF Local
<1>9. \A f \in Schedules :
          /\ execs'[f].state = IF f = e THEN saved.state ELSE execs[f].state
          /\ job'.copies[f].state = IF f = e THEN set.state ELSE job.copies[f].state
  BY <1>1, <1>2, <1>8 DEF Copies
<1>. QED
  BY <1>5, <1>9 DEF StatesKept, copy

(* The loops of the handlers.                                              *)
LEMMA LoopPlaces ==
    ASSUME Types, Forward,
           EndLoop \/ Refresh \/ \E e \in Schedules : VisitPeriod(e) \/ VisitOnCreation(e) \/ VisitOutstanding(e)
    PROVE  Forward' /\ Moves
<1>1. ASSUME StatesKept, Working, pc' # "act" PROVE Forward' /\ Moves
  <2>1. \A e \in Schedules : execs[e].state \in {None, job.copies[e].state}
    BY <1>1 DEF Forward, CopiesPlaced
  <2>2. Placed'
    BY <1>1 DEF StatesKept, Forward, Placed, InTree
  <2>3. CopiesPlaced'
    BY <1>1, <2>1 DEF StatesKept, Forward, CopiesPlaced, InTree
  <2>. QED
    BY <1>1, <2>2, <2>3 DEF StatesKept, Forward, AgendaPlaced, Moves
<1>2. CASE EndLoop
  BY <1>2, StopTypes, PlacesKept DEF EndLoop, documents, Working, Running, AgendaPlaced
<1>3. CASE Refresh
  BY <1>1, <1>3, RefreshStates DEF Refresh, Working, Running
<1>4. ASSUME NEW e \in Schedules, VisitPeriod(e) PROVE Forward' /\ Moves
  <2>1. pc' # "act" /\ pc = "loop"
    BY <1>4, Zenon DEF VisitPeriod
  <2>. QED
    BY <1>1, <1>4, <2>1, VisitPeriodStates DEF Working
<1>5. ASSUME NEW e \in Schedules, VisitOnCreation(e) PROVE Forward' /\ Moves
  <2>1. /\ pc = "loop" /\ pc' \in {"loop", "run"}
        /\ job'.copies = [job.copies EXCEPT ![e] = [job.copies[e] EXCEPT !.active = TRUE]]
        /\ execs' = [execs EXCEPT ![e] = [execs[e] EXCEPT !.active = TRUE]]
    BY <1>5, VisitOnCreationStep
  <2>2. job.copies \in Copies /\ execs \in Copies
    BY <2>1 DEF Types, DocumentTypes, JobTypes, Working
  <2>3. \A f \in Schedules : execs'[f].state = execs[f].state /\ job'.copies[f].state = job.copies[f].state
    BY <2>1, <2>2 DEF Copies, Execution
  <2>4. StatesKept
    BY <2>3 DEF StatesKept
  <2>. QED
    BY <1>1, <2>1, <2>4 DEF Working
<1>6. ASSUME NEW e \in Schedules, VisitOutstanding(e) PROVE Forward' /\ Moves
  <2>1. pc = "loop" /\ pc' = "run" /\ UNCHANGED execs /\ job'.copies = job.copies
    BY <1>6, VisitOutstandingStep
  <2>2. StatesKept
    BY <2>1 DEF StatesKept
  <2>. QED
    BY <1>1, <2>1, <2>2 DEF Working
<1>. QED
  BY <1>2, <1>3, <1>4, <1>5, <1>6

(* Texts and pages change what waits only when they clear it.              *)
LEMMA BetweenPlaces ==
    ASSUME Types, Forward, Text \/ TurnAdmin \/ TurnNoticeBlacklisted \/ NextHour
    PROVE  Forward' /\ Moves
<1>1. execs \in Copies /\ pc = "idle"
  BY DEF Types, DocumentTypes, Text, TextStop, TextStart, TextUnsolicited, TextInvalid, TextUnexpected,
         TextAnswer, TurnAdmin, TurnChangeCohortStatus, TurnSetUserStatus, TurnNoticeBlacklisted, NextHour
<1>2. ASSUME execs' = execs \/ execs' = Cleared, UNCHANGED pc PROVE Forward' /\ Moves
  <2>1. \A e \in Schedules : execs'[e].state \in {None, execs[e].state}
    BY <1>1, <1>2, ClearedType
  <2>. QED
    BY <1>1, <1>2, <2>1, PlacesKept DEF AgendaPlaced, Working, Running
<1>3. ASSUME execs' = execs, user.current \in Schedules, NEW a \in Parsed, GoOn(a) PROVE Forward' /\ Moves
  <2>1. pc' = "run" /\ job'.copies = execs
    BY <1>3, GoOnStep
  <2>. QED
    BY <1>3, <2>1, PlacesKept DEF AgendaPlaced
<1>4. ASSUME NEW s, SetStatus(s) PROVE execs' = execs \/ execs' = Cleared
  BY <1>4 DEF SetStatus, ClearedBy
<1>5. CASE TextStop \/ TextStart \/ TextUnsolicited \/ TextUnexpected
  BY <1>2, <1>4, <1>5 DEF TextStop, TextStart, TextUnsolicited, TextUnexpected
<1>6. CASE TextInvalid
  <2>1. /\ execs' = execs \/ execs' = Cleared
        /\ \/ UNCHANGED <<pc, job>>
           \/ user.current \in Schedules /\ GoOn(None) /\ UNCHANGED <<user, execs>>
    BY <1>4, <1>6, TextInvalidStep
  <2>2. None \in Parsed
    BY DEF Parsed
  <2>. QED
    BY <1>2, <1>3, <2>1, <2>2
<1>7. ASSUME NEW a \in Answers \cup {Skip}, TextAnswer(a) PROVE Forward' /\ Moves
  <2>1. a \in Parsed
    BY DEF Parsed
  <2>. QED
    BY <1>3, <1>7, <2>1, TextAnswerStep
<1>8. CASE TurnAdmin
  BY <1>2, <1>4, <1>8 DEF TurnAdmin, TurnChangeCohortStatus, TurnSetUserStatus
<1>9. CASE TurnNoticeBlacklisted \/ NextHour
  BY <1>2, <1>4, <1>9 DEF TurnNoticeBlacklisted, NextHour, documents
<1>. QED
  BY <1>5, <1>6, <1>7, <1>8, <1>9 DEF Text

(* Every step keeps the order.                                             *)
LEMMA NextForward == ASSUME TreesInOrder, Types, Forward, [TurnNext]_vars PROVE Forward' /\ Moves
<1>1. CASE TurnRun
  BY <1>1, BeginRunPlaces, EndRunPlaces, ActionPlaces, QuestionPlaces, Zenon DEF TurnRun
<1>2. CASE Hourly \/ TurnOnboarding \/ Outstanding \/ EndLoop
  BY <1>2, StartPlaces, LoopPlaces, Zenon DEF Hourly, TurnOnboarding, Outstanding
<1>3. CASE Text \/ TurnAdmin \/ TurnNoticeBlacklisted \/ NextHour
  BY <1>3, BetweenPlaces
<1>4. CASE UNCHANGED vars
  <2>1. UNCHANGED <<execs, pc, job, agenda>>
    BY <1>4 DEF vars
  <2>. QED
    BY <2>1 DEF Forward, Placed, CopiesPlaced, AgendaPlaced, Working, Running, InTree, AllAhead, Ahead, Moves
<1>. QED
  BY <1>1, <1>2, <1>3, <1>4 DEF TurnNext

(* New executions wait for nothing.                                        *)
LEMMA InitForward == Init => Forward
<1>1. ASSUME Init, NEW e \in Schedules PROVE execs[e].state = None
  BY <1>1, MakeExecutionType, EngineAssumption DEF Init
<1>. QED
  BY <1>1 DEF Init, Forward, Placed, CopiesPlaced, AgendaPlaced, Working, Running

(* Of trees, of a handler that has the user to itself, whatever becomes of *)
(* the texts: within a period the question an execution waits at only      *)
(* changes to one further on in its tree (SurveyMovesForward).  A handler  *)
(* takes an execution forward from its own copy, and what another step of  *)
(* it cleared in the database starts at the root again.                    *)
THEOREM SurveysMoveForward == ASSUME ~Overlap, TreesInOrder PROVE Spec => SurveyMovesForward
<1>. DEFINE Inv == Alone /\ now \in Nat /\ Types /\ Forward
<1>1. Init => Inv
  <2>. SUFFICES ASSUME Init PROVE Inv
    OBVIOUS
  <2>1. now \in Nat
    BY DEF Init
  <2>. QED
    BY <2>1, InitAlone, InitTypes, InitForward
<1>2. Inv /\ [Next]_vars => Inv' /\ Moves
  <2>. SUFFICES ASSUME Inv, [Next]_vars PROVE Inv' /\ Moves
    OBVIOUS
  <2>1. [TurnNext]_vars /\ Alone' /\ now' \in Nat
    BY OneThreadStep, ClockRuns
  <2>. QED
    BY <2>1, NextTypes, NextForward
<1>3. Moves => \A e \in Schedules :
           LET p == execs[e].state
               q == execs'[e].state
           IN  p # q /\ p # None /\ q # None /\ execs[e].start = execs'[e].start
                   => Precedes(e, p, q)
  BY DEF Moves
<1>. QED
  BY <1>1, <1>2, <1>3, PTL DEF Spec, SurveyMovesForward
-----------------------------------------------------------------------------
(* A period of an execution at time t: it begins before its end, at the    *)
(* hour of its schedule, no later than today; a one-time schedule has no   *)
(* end once it is due, and one for new users never has any.                *)
InPeriod(x, s, t) ==
    /\ x.end # None => x.start < x.end
    /\ s.subtype \in {"recurring", "daily_limit"} =>
           /\ x.end # None /\ HourOf(x.start) = s.sendHour /\ HourOf(x.end) = s.sendHour
           /\ x.start <= ZeroDay(t) + s.sendHour
    /\ s.subtype = "recurring" => x.start <= t
    /\ s.subtype = "one_time" => IF x.end = None THEN x.start = Due(s) /\ Due(s) <= t ELSE x.end = Due(s)
    /\ s.subtype = "on_user_creation" => x.start <= t /\ x.end = None

(* The hours of today.                                                     *)
LEMMA TodayHours ==
    ASSUME NEW t \in Int, NEW h \in 0 .. DayHours - 1
    PROVE  /\ ZeroDay(t) \in Int /\ ZeroDay(t) + h \in Int /\ HourOf(ZeroDay(t) + h) = h
           /\ ZeroDay(t) <= t /\ t < ZeroDay(t) + DayHours /\ ZeroDay(t) + 0 = ZeroDay(t)
<1>. DEFINE day == t \div DayHours
<1>1. /\ day \in Int /\ HourOf(t) \in 0 .. DayHours - 1 /\ ZeroDay(t) \in Int
      /\ t = DayHours * day + HourOf(t) /\ ZeroDay(t) = DayHours * day
  BY DayAndHour
<1>. HIDE DEF day
<1>2. DayHours * day + h \in Int /\ HourOf(DayHours * day + h) = h
  BY <1>1, HourInDay
<1>3. t = ZeroDay(t) + HourOf(t)
  BY <1>1
<1>4. HourOf(t) \in Int /\ 0 <= HourOf(t) /\ HourOf(t) < DayHours /\ DayHours \in Int
  BY <1>1, TimeAssumption
<1>. QED
  BY <1>1, <1>2, <1>3, <1>4

(* Time passes.                                                            *)
LEMMA InPeriodStill ==
    ASSUME NEW s \in Calendar, NEW x \in Execution(Questions), NEW t \in Nat, InPeriod(x, s, t)
    PROVE  InPeriod(x, s, t + 1)
<1>1. /\ x.start \in Int /\ s.sendHour \in 0 .. DayHours - 1 /\ Due(s) \in Nat
  BY DueType DEF Execution, Calendar
<1>2. 0 \in 0 .. DayHours - 1 /\ DayHours \in Nat /\ t + 1 \in Int
  BY TimeAssumption
<1>3. /\ ZeroDay(t) \in Int /\ ZeroDay(t) <= t /\ HourOf(ZeroDay(t)) = 0
      /\ ZeroDay(t + 1) \in Int /\ t + 1 < ZeroDay(t + 1) + DayHours /\ HourOf(ZeroDay(t + 1)) = 0
  <2>1. \A u \in Int : /\ ZeroDay(u) \in Int /\ HourOf(ZeroDay(u) + 0) = 0
                        /\ ZeroDay(u) <= u /\ u < ZeroDay(u) + DayHours /\ ZeroDay(u) + 0 = ZeroDay(u)
    BY <1>2, TodayHours
  <2>. QED
    BY <1>2, <2>1
<1>4. ZeroDay(t) <= ZeroDay(t + 1)
  <2>1. ZeroDay(t) < ZeroDay(t + 1) + DayHours
    BY <1>2, <1>3
  <2>. QED
    BY <1>3, <2>1, DaysApart
<1>. QED
  BY <1>1, <1>2, <1>3, <1>4 DEF InPeriod

(* The period that set_period starts, also for a new execution.            *)
LEMMA NewInPeriod ==
    ASSUME NEW s \in Calendar, NEW x \in Execution(Questions), NEW t \in Nat, NEW active \in BOOLEAN,
           s.subtype = "one_time" /\ t < Due(s) => x.start < Due(s)
    PROVE  LET n == NewPeriod(x, s, t, active)
           IN  /\ InPeriod(n, s, t)
               /\ s.subtype = "recurring" => n.start = LastSendHour(t, s)
               /\ s.subtype = "daily_limit" => n.start = ZeroDay(t) + s.sendHour
               /\ s.subtype = "one_time" => n.start = IF t < Due(s) THEN x.start ELSE Due(s)
               /\ s.subtype = "on_user_creation" => n.start = t
<1>. DEFINE n == NewPeriod(x, s, t, active)
<1>1. s.subtype \in Subtypes /\ Due(s) \in Nat /\ None \notin Int
  BY DueType, NoneApart DEF Calendar
<1>2. CASE s.subtype = "one_time" /\ t >= Due(s)
  <2>1. n = Period(t, Due(s), None, s, active)
    BY <1>2, OneTimeDue
  <2>. QED
    BY <1>1, <1>2, <2>1 DEF Period, InPeriod
<1>3. CASE s.subtype = "one_time" /\ t < Due(s)
  <2>1. x = [start |-> x.start, end |-> x.end, resends |-> x.resends,
             active |-> x.active, state |-> x.state]
    BY DEF Execution
  <2>2. n = [start |-> x.start, end |-> Due(s), resends |-> {}, active |-> x.active, state |-> x.state]
    BY <1>3, <2>1, OneTimeNotDue
  <2>3. n.start = x.start /\ n.end = Due(s)
    BY <2>2
  <2>. QED
    BY <1>1, <1>3, <2>3 DEF InPeriod
<1>4. CASE s.subtype = "recurring"
  <2>. DEFINE start == LastSendHour(t, s)
  <2>1. n.start = start /\ n.end \in Int /\ n.end > start /\ HourOf(n.end) = s.sendHour
    BY <1>4, RecurringPeriod
  <2>2. start \in Int /\ HourOf(start) = s.sendHour /\ start <= t
    BY LastSendHourIsLast
  <2>3. start <= ZeroDay(t) + s.sendHour
    <3>1. s.sendHour \in 0 .. DayHours - 1 /\ DayHours \in Nat
      BY TimeAssumption DEF Calendar
    <3>2. ZeroDay(t) + s.sendHour \in Int
      BY <3>1, TodayHours
    <3>. QED
      BY <3>1, <3>2 DEF LastSendHour
  <2>. QED
    BY <1>1, <1>4, <2>1, <2>2, <2>3 DEF InPeriod
<1>5. CASE s.subtype = "daily_limit"
  <2>. DEFINE start == ZeroDay(t) + s.sendHour
  <2>1. n = Period(t, start, start + Days(35000), s, active)
    BY <1>5 DEF NewPeriod
  <2>2. n.start = start /\ n.end = start + Days(35000)
    BY <2>1 DEF Period
  <2>3. start \in Int /\ HourOf(start) = s.sendHour
    BY TodayHours DEF Calendar
  <2>. HIDE DEF start
  <2>4. HourOf(start + Days(35000)) = s.sendHour /\ start + Days(35000) \in Int
    <3>1. \A k \in Int : HourOf(start + Days(k)) = HourOf(start) /\ start + Days(k) \in Int
      BY <2>3, SameHour
    <3>. QED
      BY <2>3, <3>1
  <2>5. start < start + Days(35000)
    BY <2>3, TimeAssumption DEF Days
  <2>6. n.end # None /\ n.start < n.end
    BY <1>1, <2>2, <2>4, <2>5
  <2>. QED
    BY <1>5, <2>2, <2>3, <2>4, <2>6 DEF InPeriod, start
<1>6. CASE s.subtype = "on_user_creation"
  <2>1. n = Period(t, t, None, s, FALSE)
    BY <1>6 DEF NewPeriod
  <2>. QED
    BY <1>6, <2>1 DEF Period, InPeriod
<1>. QED
  BY <1>1, <1>2, <1>3, <1>4, <1>5, <1>6 DEF Subtypes

(* It starts no earlier than the one before, and not before that one's     *)
(* end if it is over.                                                      *)
LEMMA NewPeriodLater ==
    ASSUME NEW s \in Calendar, NEW x \in Execution(Questions), NEW t \in Nat, NEW active \in BOOLEAN,
           InPeriod(x, s, t), NEW n, n = NewPeriod(x, s, t, active)
    PROVE  /\ InPeriod(n, s, t) /\ n.start \in Int /\ x.start <= n.start
           /\ x.end # None /\ t >= x.end => x.end <= n.start
<1>1. /\ x.start \in Int /\ x.end \in Int \cup {None} /\ s.sendHour \in 0 .. DayHours - 1 /\ Due(s) \in Nat
      /\ s.subtype \in Subtypes /\ None \notin Int
  BY DueType, NoneApart DEF Execution, Calendar
<1>2. s.subtype = "one_time" /\ t < Due(s) => x.start < Due(s)
  BY <1>1 DEF InPeriod
<1>3. /\ InPeriod(n, s, t)
      /\ s.subtype = "recurring" => n.start = LastSendHour(t, s)
      /\ s.subtype = "daily_limit" => n.start = ZeroDay(t) + s.sendHour
      /\ s.subtype = "one_time" => n.start = IF t < Due(s) THEN x.start ELSE Due(s)
      /\ s.subtype = "on_user_creation" => n.start = t
  BY <1>2, NewInPeriod
<1>4. n.start \in Int
  BY NewPeriodType DEF Execution
<1>5. CASE s.subtype = "recurring"
  <2>1. x.end \in Int /\ x.start <= t /\ HourOf(x.start) = s.sendHour /\ HourOf(x.end) = s.sendHour
    BY <1>1, <1>5 DEF InPeriod
  <2>2. x.start <= LastSendHour(t, s)
    BY <1>1, <2>1, NoLaterSendHour
  <2>3. x.end <= t => x.end <= LastSendHour(t, s)
    BY <2>1, NoLaterSendHour
  <2>. QED
    BY <1>1, <1>3, <1>4, <1>5, <2>1, <2>2, <2>3
<1>6. CASE s.subtype = "daily_limit"
  <2>. DEFINE start == ZeroDay(t) + s.sendHour
  <2>1. start \in Int /\ HourOf(start) = s.sendHour
    BY <1>1, TodayHours
  <2>2. t < start + DayHours
    <3>1. ZeroDay(t) \in Int /\ t < ZeroDay(t) + DayHours /\ s.sendHour >= 0 /\ s.sendHour \in Int /\ DayHours \in Nat
      <4>1. ZeroDay(t) \in Int /\ t < ZeroDay(t) + DayHours
        BY <1>1, TodayHours
      <4>. QED
        BY <1>1, <4>1, TimeAssumption
    <3>. QED
      BY <3>1
  <2>3. ASSUME x.end # None, t >= x.end PROVE x.end <= start
    <3>1. x.end \in Int /\ x.end < start + DayHours /\ HourOf(x.end) = HourOf(start)
      BY <1>1, <1>6, <2>1, <2>2, <2>3, TimeAssumption DEF InPeriod
    <3>. QED
      BY <2>1, <3>1, DaysApart
  <2>. QED
    BY <1>3, <1>4, <1>6, <2>3 DEF InPeriod
<1>7. CASE s.subtype = "one_time"
  BY <1>1, <1>3, <1>4, <1>7 DEF InPeriod
<1>8. CASE s.subtype = "on_user_creation"
  BY <1>1, <1>3, <1>4, <1>8 DEF InPeriod
<1>. QED
  BY <1>1, <1>3, <1>4, <1>5, <1>6, <1>7, <1>8 DEF Subtypes
-----------------------------------------------------------------------------
(* Outstanding executions are active, and a resend that acts began at the  *)
(* root (a period had started, too).                                       *)
OutstandingActive == Working /\ job.kind = "outstanding" => \A e \in job.todo : execs[e].active
ResendFromRoot == pc = "act" /\ job.resend => execs[job.at].state = None

(* What the handlers come to, and in which order.                          *)
Turns == Unmet /\ Onboards /\ OutstandingActive /\ ResendFromRoot

(* Steps that start no handler, and activate no schedule for new users.    *)
LEMMA TurnsKept ==
    ASSUME Types, Types', Turns, user'.onboarded = user.onboarded,
           \A e \in Schedules : Config[e].subtype = "on_user_creation" /\ execs'[e].active =>
               execs[e].active \/ (pc \in {"run", "act", "resend"} /\ job.at = e),
           pc' \in {"run", "act", "resend"} =>
               \/ pc \in {"run", "act", "resend"} /\ job'.at = job.at
               \/ Config[job'.at].subtype # "on_user_creation" \/ execs[job'.at].active,
           Working' /\ job'.kind \in {"onboard", "outstanding"} =>
               Working /\ job.kind = job'.kind /\ job'.todo \subseteq job.todo,
           Working' /\ job'.kind = "outstanding" => \A e \in job'.todo : execs'[e].active = execs[e].active,
           ResendFromRoot'
    PROVE  Turns'
<1>1. Unmet'
  <2>. SUFFICES ASSUME NEW e \in Schedules, Config[e].subtype = "on_user_creation",
                       ~user'.onboarded \/ (Working' /\ job'.kind = "onboard" /\ e \in job'.todo)
                PROVE  Fresh(e)'
    BY DEF Unmet
  <2>1. ~user.onboarded \/ (Working /\ job.kind = "onboard" /\ e \in job.todo)
    OBVIOUS
  <2>2. Fresh(e)
    BY <2>1 DEF Turns, Unmet
  <2>3. ~execs'[e].active /\ ~execs[e].active
    BY <2>2 DEF Fresh
  <2>4. pc' \in {"run", "act", "resend"} => job'.at # e
    BY <2>2, <2>3 DEF Fresh
  <2>5. Working' /\ job'.kind = "outstanding" => e \notin job'.todo
    BY <2>2 DEF Fresh
  <2>. QED
    BY <2>3, <2>4, <2>5 DEF Fresh
<1>2. Onboards'
  BY DEF Turns, Onboards
<1>3. OutstandingActive'
  BY DEF Turns, OutstandingActive
<1>. QED
  BY <1>1, <1>2, <1>3 DEF Turns

(* No run changes the user's status: sends fail, but learn of no opt-out,  *)
(* and no survey sets the status.                                          *)
RunsKeepStatus == "blacklisted" \notin Outcomes /\ \A s \in Setters : Assign[s].attribute # "status"

(* What waits is active; an execution that acts is the user's current one. *)
Steady ==
    /\ \A e \in Schedules : execs[e].state # None => execs[e].active
    /\ Endless
    /\ UpToDate
    /\ pc \in {"act", "resend"} => user.current = job.at

(* An exception ended the run, and its handler but for the onboarding.     *)
Left == pc' = "idle" \/ (pc' = "loop" /\ UNCHANGED job /\ job.kind = "onboard")

LEMMA FailLeaves == Fail => Left
  BY DEF Fail, Stop, Left

(* What the steps of a run change: nothing,                                *)
LEMMA ActionStep ==
    ASSUME RunsKeepStatus, Types, TurnSetAttribute \/ TurnSendMessage \/ TestConditional
    PROVE  /\ UNCHANGED <<now, cohortActive, execs, responses>> /\ pc = "act" /\ agenda # <<>>
           /\ Head(agenda).node \notin Questions
           /\ user'.onboarded = user.onboarded /\ user'.current = user.current /\ user'.status = user.status
           /\ UNCHANGED <<pc, job>> \/ ("error" \in Outcomes /\ Left)
<1>1. /\ UNCHANGED <<now, cohortActive, responses>> /\ pc = "act" /\ agenda # <<>>
      /\ Head(agenda).node \in Setters \cup Messages \cup Conditionals
      /\ TurnSetAttribute => Head(agenda).node \in Setters
  BY Zenon DEF TurnSetAttribute, TurnSendMessage, TestConditional, Doing, documents
<1>2. /\ UNCHANGED execs /\ (UNCHANGED user \/ \E v : user' = [user EXCEPT !.attribute = v])
      /\ UNCHANGED <<pc, job>> \/ ("error" \in Outcomes /\ Left)
  <2>1. CASE TurnSetAttribute \/ TestConditional
    BY <1>1, <2>1, Zenon DEF TurnSetAttribute, TestConditional, RunsKeepStatus, documents
  <2>2. CASE TurnSendMessage
    <3>1. PICK outcome \in Outcomes :
              \/ outcome \in {"sent", "unsent"} /\ UNCHANGED <<user, execs, pc, job>>
              \/ outcome = "blacklisted"
              \/ outcome = "error" /\ Fail /\ UNCHANGED <<user, execs>>
      BY <2>2 DEF TurnSendMessage
    <3>. QED
      BY <3>1, FailLeaves DEF RunsKeepStatus
  <2>. QED
    BY <2>1, <2>2
<1>3. user'.onboarded = user.onboarded /\ user'.current = user.current /\ user'.status = user.status
  BY <1>2 DEF Types, DocumentTypes, Document
<1>4. Head(agenda).node \notin Questions
  BY <1>1, EngineAssumption
<1>. QED
  BY <1>1, <1>2, <1>3, <1>4

(* ... the execution that is back at its root,                             *)
LEMMA EndRunStep ==
    ASSUME Types, UpToDate, EndRun
    PROVE  /\ UNCHANGED <<now, responses>> /\ user'.onboarded = user.onboarded
           /\ pc = "act" /\ Working /\ job.at \in Schedules /\ execs \in Copies
           /\ execs' = [execs EXCEPT ![job.at] = Ended(@, None)]
           /\ pc' \in {"idle", "outstanding", "loop", "run", "refresh"}
           /\ Working' => job'.kind = job.kind /\ job'.at = job.at /\ job'.todo = job.todo /\ job.at \notin job.todo
           /\ pc' = "run" => job.resend
<1>. DEFINE e == job.at
            c == [job.copies EXCEPT ![e] = Ended(@, None)]
<1>1. /\ Running /\ Working /\ job \in Local /\ job.kind \in Kinds /\ e \in Schedules /\ job.at \notin job.todo
      /\ job.copies = execs /\ execs \in Copies /\ pc = "act" /\ UNCHANGED <<now, responses>>
      /\ Return(FALSE, c) /\ execs' = [execs EXCEPT ![e] = Ended(@, None)]
      /\ user' = [user EXCEPT !.current = None]
  BY DEF EndRun, Types, DocumentTypes, JobTypes, Running, Working, UpToDate
<1>2. c \in Copies
  BY <1>1, EndedType DEF Copies
<1>3. pc' = "run" => job.resend
  BY <1>1 DEF Return, Kinds
<1>. HIDE DEF c
<1>4. /\ pc' \in {"idle", "outstanding", "loop", "run", "refresh"}
      /\ pc' \in {"loop", "run", "refresh"} =>
             job' = [job EXCEPT !.sent = job.sent \/ FALSE, !.resend = FALSE, !.copies = c]
  BY <1>1, <1>2, ReturnTypes, Zenon
<1>5. Working' => job'.kind = job.kind /\ job'.at = job.at /\ job'.todo = job.todo
  BY <1>1, <1>4 DEF Working, Running, Local
<1>6. user'.onboarded = user.onboarded
  BY <1>1 DEF Types, DocumentTypes, Document
<1>. QED
  BY <1>1, <1>3, <1>4, <1>5, <1>6

(* ... and the execution that waits for the question asked, or asked again,*)
(* whether or not it was sent and noted.                                   *)
Waits(q) ==
    /\ execs' = [execs EXCEPT ![job.at] = Ended(@, q)]
    /\ pc' \in {"idle", "loop", "refresh"}
    /\ Working' => job'.kind = job.kind /\ job'.at = job.at /\ job'.todo = job.todo /\ job.at \notin job.todo

LEMMA QuestionStep ==
    ASSUME RunsKeepStatus, Types, Steady, TurnSendQuestion \/ TurnResendQuestion
    PROVE  LET q == IF pc = "act" THEN Head(agenda).node ELSE execs[job.at].state
           IN  /\ UNCHANGED <<now, user, cohortActive>> /\ pc \in {"act", "resend"} /\ Running /\ Working
               /\ job.at \in Schedules /\ execs \in Copies /\ user.current = job.at
               /\ q \in Questions
               /\ pc = "act" => agenda # <<>>
               /\ \/ "error" \in Outcomes /\ Left /\ UNCHANGED <<execs, responses>>
                  \/ /\ Waits(q) /\ Pause(q, execs)
                     /\ UNCHANGED responses \/ (pc = "act" /\ responses' = TurnStored(q))
<1>. DEFINE q == IF pc = "act" THEN Head(agenda).node ELSE execs[job.at].state
<1>1. /\ UNCHANGED <<now, cohortActive>> /\ pc \in {"act", "resend"} /\ Running /\ Working
      /\ job.at \in Schedules /\ execs \in Copies /\ job.at \notin job.todo
      /\ user.current = job.at /\ job.copies = execs
  BY DEF TurnSendQuestion, TurnResendQuestion, Doing, Types, DocumentTypes, JobTypes, Running, Working, Steady, UpToDate
<1>2. q \in Questions /\ (pc = "act" => agenda # <<>>)
  BY <1>1 DEF TurnSendQuestion, TurnResendQuestion, Doing, Types, JobTypes
<1>3. /\ UNCHANGED user
      /\ \/ "error" \in Outcomes /\ Left /\ UNCHANGED <<execs, responses>>
         \/ Pause(q, execs) /\ (UNCHANGED responses \/ (pc = "act" /\ responses' = TurnStored(q)))
  <2>1. CASE TurnSendQuestion
    <3>1. pc = "act"
      BY <2>1 DEF TurnSendQuestion, Doing
    <3>2. PICK outcome \in Outcomes :
              \/ outcome \in {"sent", "unsent"} /\ Pause(q, execs) /\ UNCHANGED user
                                                /\ responses' \in {responses, TurnStored(q)}
              \/ outcome = "blacklisted"
              \/ outcome = "error" /\ Fail /\ UNCHANGED <<user, execs, responses>>
      BY <2>1, <3>1 DEF TurnSendQuestion
    <3>. QED
      BY <3>1, <3>2, FailLeaves DEF RunsKeepStatus
  <2>2. CASE TurnResendQuestion
    <3>1. pc = "resend" /\ UNCHANGED responses
      BY <2>2 DEF TurnResendQuestion
    <3>2. PICK outcome \in Outcomes :
              \/ outcome \in {"sent", "unsent"} /\ Pause(q, execs) /\ UNCHANGED user
              \/ outcome = "blacklisted"
              \/ outcome = "error" /\ Fail /\ UNCHANGED <<user, execs>>
      BY <1>1, <2>2, <3>1 DEF TurnResendQuestion
    <3>. QED
      BY <3>1, <3>2, FailLeaves DEF RunsKeepStatus
  <2>. QED
    BY <2>1, <2>2
<1>. HIDE DEF q
<1>4. ASSUME Pause(q, execs) PROVE Waits(q)
  <2>1. /\ execs' = [execs EXCEPT ![job.at] = Ended(@, q)]
        /\ pc' \in {"idle", "loop", "refresh"}
        /\ pc' \in {"loop", "refresh"} => job'.kind = job.kind /\ job'.at = job.at /\ job'.todo = job.todo
    BY <1>1, <1>2, <1>4, PauseTypes
  <2>2. Working' => pc' \in {"loop", "refresh"}
    BY <2>1 DEF Working, Running
  <2>. QED
    BY <1>1, <2>1, <2>2 DEF Waits
<1>. QED
  BY <1>1, <1>2, <1>3, <1>4 DEF q

(* The start of a run changes none of them.                                *)
LEMMA BeginRunStep ==
    ASSUME Types, UpToDate, BeginRun
    PROVE  /\ UNCHANGED <<now, execs, responses>> /\ user'.onboarded = user.onboarded
           /\ pc = "run" /\ Working /\ job.at \in Schedules /\ execs \in Copies
           /\ Working' => job'.kind = job.kind /\ job'.at = job.at /\ job'.todo = job.todo
           /\ pc' = "act" => /\ job' = job /\ (job.resend => execs[job.at].state = None)
                             /\ ~Expired(execs[job.at], now)
           /\ pc' \notin {"act", "resend"} => UNCHANGED user
           /\ pc' \in {"idle", "outstanding"} => Expired(execs[job.at], now)
<1>1. /\ pc = "run" /\ Running /\ Working /\ job \in Local /\ job.kind \in Kinds /\ job.at \in Schedules
      /\ job.at \notin job.todo /\ job.copies \in Copies /\ job.copies = execs /\ IsActive
      /\ UNCHANGED <<now, execs, responses>>
  BY Zenon DEF BeginRun, Types, JobTypes, Running, Working, UpToDate
<1>2. CASE Return(FALSE, job.copies) /\ UNCHANGED user /\ Expired(job.copies[job.at], now)
  <2>1. /\ pc' \in {"idle", "outstanding", "loop", "run", "refresh"}
        /\ pc' \in {"loop", "run", "refresh"} =>
             job' = [job EXCEPT !.sent = job.sent \/ FALSE, !.resend = FALSE, !.copies = job.copies]
    BY <1>1, <1>2, ReturnTypes, Zenon
  <2>2. Working' => job'.kind = job.kind /\ job'.at = job.at /\ job'.todo = job.todo
    BY <1>1, <2>1 DEF Working, Running, Local
  <2>. QED
    BY <1>1, <1>2, <2>1, <2>2
<1>3. CASE /\ user' = [user EXCEPT !.current = job.at] /\ ~Expired(job.copies[job.at], now)
           /\ pc' = IF job.copies[job.at].state # None /\ job.resend THEN "resend" ELSE "act"
           /\ UNCHANGED job
  <2>1. user'.onboarded = user.onboarded
    BY <1>3 DEF Types, DocumentTypes, Document
  <2>. QED
    BY <1>1, <1>3, <2>1
<1>. QED
  BY <1>1, <1>2, <1>3, Zenon DEF BeginRun

(* run() has returned, with the executions that the database has.          *)
LEMMA ReturnUpToDate ==
    ASSUME Types, UpToDate, Running, NEW c \in Copies, NEW paused \in BOOLEAN, Return(paused, c), execs' = c,
           UNCHANGED cohortActive, user'.status = user.status
    PROVE  UpToDate' /\ pc' \notin {"act", "resend"}
<1>1. /\ job \in Local /\ job.kind \in Kinds /\ job.at \in Schedules /\ job.at \notin job.todo /\ IsActive
  BY DEF Types, JobTypes, UpToDate, Working
<1>2. /\ pc' \in {"idle", "outstanding", "loop", "run", "refresh"}
      /\ pc' \in {"loop", "run", "refresh"} =>
             job' = [job EXCEPT !.sent = job.sent \/ paused, !.resend = FALSE, !.copies = c]
  BY <1>1, ReturnTypes, Zenon
<1>3. Working' => job'.copies = c
  BY <1>1, <1>2 DEF Local, Working, Running
<1>. QED
  BY <1>1, <1>2, <1>3 DEF UpToDate, IsActive

(* The runs.                                                               *)
LEMMA RunSteady ==
    ASSUME RunsKeepStatus, Types, Steady, TurnRun
    PROVE  Steady'
<1>0. execs \in Copies /\ UpToDate
  BY DEF Types, DocumentTypes, Steady
<1>1. CASE BeginRun
  <2>1. /\ UNCHANGED <<cohortActive, execs>> /\ Running /\ job.copies = execs /\ IsActive
        /\ \/ Return(FALSE, job.copies) /\ UNCHANGED user
           \/ user' = [user EXCEPT !.current = job.at] /\ UNCHANGED job
    BY <1>0, <1>1, Zenon DEF BeginRun, UpToDate, Working, Running
  <2>2. CASE Return(FALSE, job.copies) /\ UNCHANGED user
    <3>1. UpToDate' /\ pc' \notin {"act", "resend"}
      BY <1>0, <2>1, <2>2, ReturnUpToDate
    <3>. QED
      BY <2>1, <3>1 DEF Steady, Endless
  <2>3. CASE user' = [user EXCEPT !.current = job.at] /\ UNCHANGED job
    <3>1. user'.current = job.at /\ user'.status = user.status
      BY <2>3 DEF Types, DocumentTypes, Document
    <3>. QED
      BY <2>1, <2>3, <3>1 DEF Steady, Endless, UpToDate, IsActive
  <2>. QED
    BY <2>1, <2>2, <2>3
<1>2. CASE TurnSetAttribute \/ TurnSendMessage \/ TestConditional
  <2>1. /\ UNCHANGED <<cohortActive, execs>> /\ pc = "act" /\ user'.current = user.current
        /\ user'.status = user.status /\ (UNCHANGED <<pc, job>> \/ Left)
    BY <1>2, ActionStep
  <2>2. CASE UNCHANGED <<pc, job>>
    BY <2>1, <2>2 DEF Steady, Endless, UpToDate, IsActive, Working, Running
  <2>3. CASE Left
    BY <2>1, <2>3 DEF Steady, Endless, UpToDate, IsActive, Left, Working, Running
  <2>. QED
    BY <2>1, <2>2, <2>3
<1>3. CASE EndRun
  <2>. DEFINE c == [execs EXCEPT ![job.at] = Ended(@, None)]
  <2>1. /\ UNCHANGED cohortActive /\ Running /\ job.copies = execs /\ job.at \in Schedules
        /\ Return(FALSE, c) /\ execs' = c /\ user' = [user EXCEPT !.current = None]
    BY <1>0, <1>3 DEF EndRun, UpToDate, Working, Running, Types, JobTypes
  <2>2. /\ c \in Copies /\ c[job.at] = Ended(execs[job.at], None)
        /\ \A e \in Schedules \ {job.at} : c[e] = execs[e]
    BY <1>0, <2>1, EndedType DEF Copies
  <2>. HIDE DEF c
  <2>3. user'.status = user.status
    BY <2>1 DEF Types, DocumentTypes, Document
  <2>4. UpToDate' /\ pc' \notin {"act", "resend"}
    BY <1>0, <2>1, <2>2, <2>3, ReturnUpToDate
  <2>5. /\ c[job.at].state = None /\ c[job.at].end = execs[job.at].end
    BY <1>0, <2>1, <2>2, EndedType DEF Copies
  <2>. QED
    BY <2>1, <2>2, <2>4, <2>5 DEF Steady, Endless
<1>4. CASE TurnSendQuestion \/ TurnResendQuestion
  <2>. DEFINE q == IF pc = "act" THEN Head(agenda).node ELSE execs[job.at].state
              c == [execs EXCEPT ![job.at] = Ended(@, q)]
  <2>1. /\ UNCHANGED <<user, cohortActive>> /\ Running /\ Working /\ job.at \in Schedules /\ q \in Questions
        /\ (Left /\ UNCHANGED execs) \/ Pause(q, execs)
    BY <1>4, QuestionStep
  <2>. HIDE DEF q
  <2>2. CASE Left /\ UNCHANGED execs
    BY <2>1, <2>2 DEF Steady, Endless, UpToDate, IsActive, Left, Working, Running
  <2>3. CASE Pause(q, execs)
    <3>1. job.copies = execs /\ Return(TRUE, c) /\ execs' = c
      BY <1>0, <2>1, <2>3 DEF Pause, UpToDate
    <3>2. /\ c \in Copies /\ c[job.at] = Ended(execs[job.at], q)
          /\ \A e \in Schedules \ {job.at} : c[e] = execs[e]
      BY <1>0, <2>1, EndedType DEF Copies
    <3>. HIDE DEF c
    <3>3. UpToDate' /\ pc' \notin {"act", "resend"}
      BY <1>0, <2>1, <3>1, <3>2, ReturnUpToDate
    <3>4. c[job.at].active /\ c[job.at].end = execs[job.at].end
      BY <1>0, <2>1, <3>2, EndedType, NoneApart DEF Copies
    <3>. QED
      BY <3>1, <3>2, <3>3, <3>4 DEF Steady, Endless
  <2>. QED
    BY <2>1, <2>2, <2>3
<1>. QED
  BY <1>1, <1>2, <1>3, <1>4 DEF TurnRun

(* Handlers start, and go on.                                              *)
LEMMA HandlerSteady ==
    ASSUME Types, Steady, Hourly \/ TurnOnboarding \/ Outstanding \/ EndLoop
    PROVE  Steady'
<1>0. /\ execs \in Copies /\ now \in Nat /\ \A e \in Schedules : Config[e] \in Calendar
      /\ Working \/ pc = "outstanding" => IsActive
      /\ Working => job.copies = execs
  BY EngineAssumption DEF Types, DocumentTypes, Steady, UpToDate
<1>1. ASSUME NEW kind \in Kinds, NEW todo \in SUBSET Schedules, job' = Job(kind, todo), pc' = "loop",
             IsActive, UNCHANGED <<execs, cohortActive>>, user'.status = user.status
      PROVE  Steady'
  <2>1. job'.copies = execs
    BY <1>0, <1>1, NewJob
  <2>. QED
    BY <1>1, <2>1 DEF Steady, Endless, UpToDate, IsActive
<1>2. CASE EveryHour
  <2>1. CASE SetStatus("inactive") /\ pc = "idle" /\ UNCHANGED pc
    <3>1. execs' = execs \/ execs' = Cleared
      BY <2>1 DEF SetStatus, ClearedBy
    <3>2. \A e \in Schedules : /\ execs'[e].end = execs[e].end
                               /\ execs'[e].state # None => execs'[e].active
      BY <1>0, <3>1, ClearedType DEF Steady
    <3>. QED
      BY <2>1, <3>2 DEF Steady, Endless, UpToDate, Working, Running
  <2>2. CASE IsActive /\ pc' = "loop" /\ job' = Job("hour", Schedules) /\ UNCHANGED <<user, execs, cohortActive>>
    BY <1>1, <2>2 DEF Kinds
  <2>. QED
    BY <1>2, <2>1, <2>2 DEF EveryHour
<1>3. CASE TurnOnboard
  <2>. DEFINE todo == {e \in Schedules : Config[e].subtype = "on_user_creation"}
  <2>1. IsActive /\ pc' = "loop" /\ job' = Job("onboard", todo) /\ UNCHANGED <<execs, cohortActive>>
    BY <1>3 DEF TurnOnboard
  <2>2. user'.status = user.status
    BY <1>3 DEF TurnOnboard, Types, DocumentTypes, Document
  <2>3. todo \in SUBSET Schedules /\ "onboard" \in Kinds
    BY DEF Kinds
  <2>. HIDE DEF todo
  <2>. QED
    BY <1>1, <2>1, <2>2, <2>3
<1>4. CASE RunOutstanding
  <2>. DEFINE todo == {e \in Schedules : execs[e].active}
  <2>1. /\ IsActive /\ pc' = "loop" /\ job' = Job("outstanding", todo)
        /\ UNCHANGED <<user, execs, cohortActive>>
    BY <1>0, <1>4 DEF RunOutstanding, documents
  <2>2. todo \in SUBSET Schedules /\ "outstanding" \in Kinds
    BY DEF Kinds
  <2>. HIDE DEF todo
  <2>. QED
    BY <1>1, <2>1, <2>2
<1>5. CASE EndLoop
  <2>1. UNCHANGED execs /\ pc' = "idle"
    BY <1>5 DEF EndLoop, Stop, documents
  <2>. QED
    BY <2>1 DEF Steady, Endless, UpToDate, Working, Running
<1>6. ASSUME UNCHANGED <<user, cohortActive>>, Working, pc' \in {"loop", "run", "refresh"},
             job'.copies = execs',
             \A e \in Schedules :
                 /\ execs'[e].state # None => execs'[e].active
                 /\ Config[e].subtype = "on_user_creation" => execs'[e].end = None
      PROVE  Steady'
  BY <1>0, <1>6 DEF Steady, Endless, UpToDate, IsActive
<1>7. CASE Refresh
  <2>1. /\ UNCHANGED <<user, cohortActive>> /\ pc = "refresh" /\ pc' = "loop" /\ job.at \in Schedules
    BY <1>7, RefreshStep
  <2>2. PICK e \in Schedules : e = job.at
    BY <2>1
  <2>3. PICK saved \in Execution(Questions), kept \in Execution(Questions) :
               /\ job'.copies = [job.copies EXCEPT ![e] = kept]
               /\ execs' = [execs EXCEPT ![e] = saved]
               /\ job.copies[e] = execs[e] => saved = kept
               /\ saved = execs[e] \/ saved = NewPeriod(execs[e], Config[e], now, FALSE)
    BY <1>7, <2>2, RefreshStep, Zenon
  <2>4. /\ job.copies = execs /\ execs'[e] = saved /\ \A f \in Schedules \ {e} : execs'[f] = execs[f]
        /\ job'.copies = execs'
    BY <1>0, <2>1, <2>3 DEF Copies, Working, Running
  <2>5. /\ saved.state # None => saved.active
        /\ Config[e].subtype = "on_user_creation" => saved.end = None
    <3>1. execs[e] \in Execution(Questions) /\ Config[e] \in Calendar /\ now \in Nat /\ FALSE \in BOOLEAN
      BY <1>0 DEF Copies
    <3>2. \A active \in BOOLEAN :
              LET n == NewPeriod(execs[e], Config[e], now, active)
              IN  /\ n.state # None => n.state = execs[e].state /\ n.active = execs[e].active
                  /\ Config[e].subtype = "on_user_creation" => n.end = None
      BY <3>1, NewPeriodKeeps
    <3>. QED
      BY <2>3, <3>2 DEF Steady, Endless
  <2>6. \A f \in Schedules :
            /\ execs'[f].state # None => execs'[f].active
            /\ Config[f].subtype = "on_user_creation" => execs'[f].end = None
    BY <2>4, <2>5 DEF Steady, Endless
  <2>. QED
    BY <1>6, <2>1, <2>4, <2>6 DEF Working, Running
<1>8. ASSUME NEW e \in Schedules, VisitPeriod(e) PROVE Steady'
  <2>1. /\ UNCHANGED <<user, cohortActive>> /\ pc = "loop" /\ pc' \in {"run", "refresh"}
    BY <1>8, VisitPeriodStep
  <2>2. PICK kept \in Execution(Questions), saved \in Execution(Questions) :
                  /\ kept.end = PeriodSet(e).end
                  /\ kept.active = PeriodSet(e).active /\ kept.state = PeriodSet(e).state
                  /\ job'.copies = [job.copies EXCEPT ![e] = kept]
                  /\ execs' = [execs EXCEPT ![e] = saved]
                  /\ job.copies[e] = execs[e] => saved = kept
    BY <1>8, VisitPeriodStep, Zenon
  <2>3. /\ job.copies = execs /\ execs'[e] = kept /\ \A f \in Schedules \ {e} : execs'[f] = execs[f]
        /\ job'.copies = execs'
    BY <1>0, <2>1, <2>2 DEF Copies, Working
  <2>4. /\ PeriodSet(e).state # None => /\ PeriodSet(e).state = execs[e].state
                                       /\ PeriodSet(e).active = execs[e].active
        /\ Config[e].subtype = "on_user_creation" => PeriodSet(e).end = None
    BY <2>3, PeriodSetReplies DEF Steady
  <2>5. \A f \in Schedules :
            /\ execs'[f].state # None => execs'[f].active
            /\ Config[f].subtype = "on_user_creation" => execs'[f].end = None
    BY <2>2, <2>3, <2>4 DEF Steady, Endless
  <2>. QED
    BY <1>6, <2>1, <2>3, <2>5 DEF Working
<1>9. ASSUME NEW e \in Schedules, VisitOnCreation(e) PROVE Steady'
  <2>1. /\ UNCHANGED <<user, cohortActive>> /\ pc = "loop" /\ pc' \in {"loop", "run"}
        /\ job'.copies = [job.copies EXCEPT ![e] = [job.copies[e] EXCEPT !.active = TRUE]]
        /\ execs' = [execs EXCEPT ![e] = [execs[e] EXCEPT !.active = TRUE]]
    BY <1>9, VisitOnCreationStep
  <2>2. job.copies = execs
    BY <1>0, <2>1 DEF Working
  <2>3. \A f \in Schedules : /\ execs[f].active => execs'[f].active
                             /\ execs'[f].state = execs[f].state /\ execs'[f].end = execs[f].end
    BY <1>0, <2>1 DEF Copies, Execution
  <2>. QED
    BY <1>6, <2>1, <2>2, <2>3 DEF Working, Steady, Endless
<1>10. ASSUME NEW e \in Schedules, VisitOutstanding(e) PROVE Steady'
  <2>1. UNCHANGED <<user, cohortActive, execs>> /\ pc = "loop" /\ pc' = "run" /\ job'.copies = job.copies
    BY <1>10, VisitOutstandingStep
  <2>. QED
    BY <1>0, <1>6, <2>1 DEF Working, Steady, Endless
<1>. QED
  BY <1>2, <1>3, <1>4, <1>5, <1>7, <1>8, <1>9, <1>10 DEF Hourly, TurnOnboarding, Outstanding

(* Texts, pages and the clock.                                             *)
LEMMA BetweenSteady ==
    ASSUME Types, Steady, Text \/ TurnAdmin \/ TurnNoticeBlacklisted \/ NextHour
    PROVE  Steady'
<1>1. execs \in Copies /\ pc = "idle"
  BY DEF Types, DocumentTypes, Text, TextStop, TextStart, TextUnsolicited, TextInvalid, TextUnexpected,
         TextAnswer, TurnAdmin, TurnChangeCohortStatus, TurnSetUserStatus, TurnNoticeBlacklisted, NextHour
<1>2. ASSUME execs' = execs \/ execs' = Cleared, UNCHANGED pc PROVE Steady'
  <2>1. \A e \in Schedules : /\ execs'[e].end = execs[e].end
                             /\ execs'[e].state # None => execs'[e].active
    BY <1>1, <1>2, ClearedType DEF Steady
  <2>. QED
    BY <1>1, <1>2, <2>1 DEF Steady, Endless, UpToDate, Working, Running
<1>3. ASSUME UNCHANGED <<user, cohortActive, execs>>, Solicited, user.current \in Schedules,
             NEW a \in Parsed, GoOn(a)
      PROVE  Steady'
  <2>1. pc' = "run" /\ job'.copies = execs
    BY <1>3, GoOnStep
  <2>. QED
    BY <1>3, <2>1 DEF Steady, Endless, UpToDate, Solicited, IsActive
<1>4. ASSUME NEW s, SetStatus(s) PROVE execs' = execs \/ execs' = Cleared
  BY <1>4 DEF SetStatus, ClearedBy
<1>5. CASE TextStop \/ TextStart \/ TextUnsolicited \/ TextUnexpected
  BY <1>2, <1>4, <1>5 DEF TextStop, TextStart, TextUnsolicited, TextUnexpected
<1>6. CASE TextInvalid
  <2>1. /\ (execs' = execs \/ execs' = Cleared) /\ Solicited /\ UNCHANGED cohortActive
        /\ \/ UNCHANGED <<pc, job>>
           \/ user.current \in Schedules /\ GoOn(None) /\ UNCHANGED <<user, execs>>
    BY <1>4, <1>6, TextInvalidStep
  <2>2. None \in Parsed
    BY DEF Parsed
  <2>. QED
    BY <1>2, <1>3, <2>1, <2>2
<1>7. ASSUME NEW a \in Answers \cup {Skip}, TextAnswer(a) PROVE Steady'
  <2>1. a \in Parsed
    BY DEF Parsed
  <2>. QED
    BY <1>3, <1>7, <2>1, TextAnswerStep
<1>8. CASE TurnAdmin
  BY <1>2, <1>4, <1>8 DEF TurnAdmin, TurnChangeCohortStatus, TurnSetUserStatus
<1>9. CASE TurnNoticeBlacklisted \/ NextHour
  BY <1>2, <1>4, <1>9 DEF TurnNoticeBlacklisted, NextHour, documents
<1>. QED
  BY <1>5, <1>6, <1>7, <1>8, <1>9 DEF Text

(* Every step keeps it, where runs keep the status.                        *)
LEMMA NextSteady == ASSUME RunsKeepStatus, Types, Steady, [TurnNext]_vars PROVE Steady'
<1>1. CASE UNCHANGED vars
  <2>1. UNCHANGED <<user, cohortActive, execs, pc, job>>
    BY <1>1 DEF vars
  <2>. QED
    BY <2>1 DEF Steady, Endless, UpToDate, IsActive, Working, Running
<1>. QED
  BY <1>1, RunSteady, HandlerSteady, BetweenSteady DEF TurnNext

(* The initial states satisfy it.                                          *)
LEMMA InitSteady == Init => Steady
<1>. SUFFICES ASSUME Init PROVE Steady
  OBVIOUS
<1>1. Endless /\ UpToDate /\ pc = "idle"
  BY InitReplies DEF Replies, Init
<1>2. \A e \in Schedules : execs[e].state = None
  BY MakeExecutionType, EngineAssumption DEF Init
<1>. QED
  BY <1>1, <1>2 DEF Steady

(* The runs.                                                               *)
LEMMA RunTurns ==
    ASSUME RunsKeepStatus, Types, Types', Steady, Turns, TurnRun
    PROVE  Turns'
<1>0. UpToDate
  BY DEF Steady
<1>1. CASE BeginRun
  <2>1. ResendFromRoot'
    BY <1>0, <1>1, BeginRunStep DEF ResendFromRoot
  <2>. QED
    BY <1>0, <1>1, <2>1, BeginRunStep, TurnsKept DEF Working, Running
<1>2. CASE TurnSetAttribute \/ TurnSendMessage \/ TestConditional
  <2>1. /\ UNCHANGED execs /\ pc = "act" /\ user'.onboarded = user.onboarded
        /\ UNCHANGED <<pc, job>> \/ Left
    BY <1>2, ActionStep
  <2>2. ResendFromRoot'
    BY <2>1 DEF Turns, ResendFromRoot, Left
  <2>. QED
    BY <2>1, <2>2, TurnsKept DEF Working, Running, Left
<1>3. CASE EndRun
  <2>1. /\ user'.onboarded = user.onboarded
        /\ pc = "act" /\ Working /\ job.at \in Schedules /\ execs \in Copies
        /\ execs' = [execs EXCEPT ![job.at] = Ended(@, None)]
        /\ pc' \in {"idle", "outstanding", "loop", "run", "refresh"}
        /\ Working' => job'.kind = job.kind /\ job'.at = job.at /\ job'.todo = job.todo /\ job.at \notin job.todo
    BY <1>0, <1>3, EndRunStep
  <2>2. \A e \in Schedules : /\ execs'[e].active => execs[e].active
                            /\ e # job.at => execs'[e].active = execs[e].active
    BY <2>1, EndedType DEF Copies
  <2>3. ResendFromRoot'
    BY <2>1 DEF ResendFromRoot
  <2>4. job.todo \subseteq Schedules
    BY DEF Types, JobTypes, Local
  <2>. QED
    BY <2>1, <2>2, <2>3, <2>4, TurnsKept DEF Working, Running
<1>4. CASE TurnSendQuestion \/ TurnResendQuestion
  <2>. DEFINE q == IF pc = "act" THEN Head(agenda).node ELSE execs[job.at].state
  <2>1. /\ UNCHANGED user /\ pc \in {"act", "resend"} /\ Working
        /\ job.at \in Schedules /\ execs \in Copies
        /\ (Left /\ UNCHANGED execs) \/ Waits(q)
    BY <1>4, QuestionStep
  <2>. HIDE DEF q
  <2>2. job.todo \subseteq Schedules
    BY DEF Types, JobTypes, Local
  <2>3. ResendFromRoot'
    BY <2>1 DEF ResendFromRoot, Left, Waits
  <2>4. CASE Left /\ UNCHANGED execs
    BY <2>1, <2>3, <2>4, TurnsKept DEF Working, Running, Left
  <2>5. CASE Waits(q)
    <3>1. \A e \in Schedules : e # job.at => execs'[e].active = execs[e].active
      BY <2>1, <2>5 DEF Copies, Waits
    <3>. QED
      BY <2>1, <2>2, <2>3, <2>5, <3>1, TurnsKept DEF Working, Running, Waits
  <2>. QED
    BY <2>1, <2>4, <2>5
<1>. QED
  BY <1>1, <1>2, <1>3, <1>4 DEF TurnRun

(* Handlers start.                                                         *)
LEMMA StartTurns ==
    ASSUME Types, Types', Turns, NonActive, EveryHour \/ TurnOnboard \/ RunOutstanding
    PROVE  Turns'
<1>1. execs \in Copies
  BY DEF Types, DocumentTypes
<1>2. CASE EveryHour
  <2>1. CASE SetStatus("inactive") /\ UNCHANGED <<pc, job>> /\ pc = "idle"
    <3>1. /\ execs' = execs \/ execs' = Cleared
          /\ user'.onboarded = user.onboarded
      <4>1. user' = WithStatus(user, "inactive") /\ (execs' = execs \/ execs' = Cleared)
        BY <2>1 DEF SetStatus, ClearedBy
      <4>. QED
        BY <4>1 DEF WithStatus, Types, DocumentTypes, Document
    <3>. QED
      BY <1>1, <2>1, <3>1, ClearedType, TurnsKept DEF Working, Running, ResendFromRoot
  <2>2. CASE UNCHANGED <<user, execs>> /\ pc' = "loop" /\ job' = Job("hour", Schedules)
    <3>1. job'.kind = "hour"
      BY <1>1, <2>2, NewJob DEF Kinds
    <3>. QED
      BY <2>2, <3>1, TurnsKept DEF ResendFromRoot
  <2>. QED
    BY <1>2, <2>1, <2>2 DEF EveryHour
<1>3. CASE TurnOnboard
  <2>. DEFINE todo == {e \in Schedules : Config[e].subtype = "on_user_creation"}
  <2>1. /\ pc = "idle" /\ ~user.onboarded /\ pc' = "loop" /\ UNCHANGED execs
        /\ user' = [user EXCEPT !.onboarded = TRUE] /\ job' = Job("onboard", todo)
    BY <1>3 DEF TurnOnboard
  <2>2. job'.kind = "onboard" /\ job'.todo = todo
    BY <1>1, <2>1, NewJob DEF Kinds
  <2>3. user'.onboarded
    BY <2>1 DEF Types, DocumentTypes, Document
  <2>4. Unmet'
    BY <2>1, <2>2, <2>3 DEF Turns, Unmet, Fresh
  <2>. QED
    BY <2>1, <2>2, <2>3, <2>4 DEF Turns, Onboards, OutstandingActive, ResendFromRoot
<1>4. CASE RunOutstanding
  <2>. DEFINE todo == {e \in Schedules : execs[e].active}
  <2>1. /\ pc = "outstanding" /\ pc' = "loop" /\ UNCHANGED <<user, execs>> /\ job' = Job("outstanding", todo)
    BY <1>4 DEF RunOutstanding, documents
  <2>2. job'.kind = "outstanding" /\ job'.todo = todo
    BY <1>1, <2>1, NewJob DEF Kinds
  <2>3. Unmet'
    BY <2>1, <2>2 DEF Turns, Unmet, Fresh, Working, Running
  <2>. QED
    BY <2>1, <2>2, <2>3 DEF Turns, Onboards, OutstandingActive, ResendFromRoot
<1>. QED
  BY <1>2, <1>3, <1>4

(* What a pass of the hourly job makes active, or runs, has a period.      *)
LEMMA SetPeriodRuns ==
    ASSUME now \in Nat, NEW e \in Schedules, NEW x \in Execution(Questions),
           Config[e].subtype = "on_user_creation" => x.end = None
    PROVE  LET set == SetPeriod(x, Config[e], now, FALSE)
           IN  /\ Config[e].subtype = "on_user_creation" =>
                      set = x /\ ~StartsPeriod(x, Config[e], now) /\ (ResendDue(set, now) => x.active)
               /\ ResendDue(set, now) => set.active
  BY DEF SetPeriod, StartsPeriod, Resets, ResendDue

(* The passes and the turns of the handlers.                               *)
LEMMA LoopTurns ==
    ASSUME Types, Types', Steady, Turns,
           EndLoop \/ Refresh \/ \E e \in Schedules : VisitPeriod(e) \/ VisitOnCreation(e) \/ VisitOutstanding(e)
    PROVE  Turns'
<1>0. execs \in Copies /\ now \in Nat /\ job \in Local
  BY DEF Types, DocumentTypes, JobTypes
<1>1. CASE EndLoop
  <2>1. UNCHANGED <<user, execs>> /\ pc' = "idle"
    BY <1>1, StopTypes DEF EndLoop, documents
  <2>. QED
    BY <2>1, TurnsKept DEF Working, Running, ResendFromRoot
<1>2. CASE Refresh
  <2>1. /\ UNCHANGED user /\ pc = "refresh" /\ pc' = "loop" /\ job.at \in Schedules /\ job.kind = "hour"
        /\ job'.kind = "hour"
        /\ \E saved \in Execution(Questions) :
               /\ execs' = [execs EXCEPT ![job.at] = saved]
               /\ saved = execs[job.at] \/ saved = NewPeriod(execs[job.at], Config[job.at], now, FALSE)
    BY <1>2, RefreshStep
  <2>2. PICK saved \in Execution(Questions) :
               /\ execs' = [execs EXCEPT ![job.at] = saved]
               /\ saved = execs[job.at] \/ saved = NewPeriod(execs[job.at], Config[job.at], now, FALSE)
    BY <2>1
  <2>3. Config[job.at].subtype = "on_user_creation" => ~NewPeriod(execs[job.at], Config[job.at], now, FALSE).active
    BY DEF NewPeriod, Period
  <2>4. \A e \in Schedules : Config[e].subtype = "on_user_creation" /\ execs'[e].active => execs[e].active
    BY <1>0, <2>1, <2>2, <2>3 DEF Copies
  <2>. QED
    BY <2>1, <2>4, TurnsKept DEF ResendFromRoot
<1>3. ASSUME NEW e \in Schedules, VisitPeriod(e) PROVE Turns'
  <2>1. /\ UNCHANGED user /\ pc = "loop" /\ job.kind = "hour" /\ job'.kind = "hour" /\ job'.at = e
        /\ pc' = IF IsDue(e) \/ (Starts(e) /\ ~job.sent) THEN "run" ELSE "refresh"
        /\ PeriodSet(e) \in Execution(Questions)
        /\ \E kept \in Execution(Questions), saved \in Execution(Questions) :
                  /\ kept.start = PeriodSet(e).start /\ kept.end = PeriodSet(e).end
                  /\ kept.active = PeriodSet(e).active /\ kept.state = PeriodSet(e).state
                  /\ job'.copies = [job.copies EXCEPT ![e] = kept]
                  /\ execs' = [execs EXCEPT ![e] = saved]
                  /\ job.copies[e] = execs[e] => saved = kept
    BY <1>3, VisitPeriodStep
  <2>2. job.copies = execs
    BY <2>1 DEF Steady, UpToDate, Working
  <2>3. PICK kept \in Execution(Questions) :
            kept.active = PeriodSet(e).active /\ execs' = [execs EXCEPT ![e] = kept]
    BY <2>1, <2>2
  <2>4. Config[e].subtype = "on_user_creation" =>
            PeriodSet(e) = execs[e] /\ ~Starts(e) /\ (IsDue(e) => execs[e].active)
    <3>1. execs[e] \in Execution(Questions) /\ (Config[e].subtype = "on_user_creation" => execs[e].end = None)
      BY <1>0 DEF Copies, Steady, Endless
    <3>. QED
      BY <1>0, <2>2, <3>1, SetPeriodRuns DEF PeriodSet, IsDue, Starts
  <2>5. \A f \in Schedules : Config[f].subtype = "on_user_creation" /\ execs'[f].active => execs[f].active
    BY <1>0, <2>3, <2>4 DEF Copies
  <2>6. pc' = "run" => Config[job'.at].subtype # "on_user_creation" \/ execs[job'.at].active
    BY <2>1, <2>4
  <2>. QED
    BY <2>1, <2>5, <2>6, TurnsKept DEF ResendFromRoot
<1>4. ASSUME NEW e \in Schedules, VisitOnCreation(e) PROVE Turns'
  <2>1. /\ UNCHANGED user /\ pc = "loop" /\ pc' \in {"loop", "run"}
        /\ e \in job.todo /\ job.kind = "onboard" /\ job'.kind = "onboard" /\ job'.at = e
        /\ job'.todo = job.todo \ {e}
        /\ execs' = [execs EXCEPT ![e] = [execs[e] EXCEPT !.active = TRUE]]
    BY <1>4, VisitOnCreationStep
  <2>2. user.onboarded
    BY <2>1 DEF Turns, Onboards, Working
  <2>3. Unmet'
    BY <1>0, <2>1, <2>2 DEF Turns, Unmet, Fresh, Working, Running, Copies
  <2>4. Onboards'
    BY <2>1, <2>2 DEF Turns, Onboards, Working
  <2>. QED
    BY <2>1, <2>3, <2>4 DEF Turns, OutstandingActive, ResendFromRoot
<1>5. ASSUME NEW e \in Schedules, VisitOutstanding(e) PROVE Turns'
  <2>1. /\ UNCHANGED <<user, execs>> /\ pc = "loop" /\ pc' = "run" /\ e \in job.todo /\ job.kind = "outstanding"
        /\ job'.kind = job.kind /\ job'.at = e /\ job'.todo = job.todo \ {e}
    BY <1>5, VisitOutstandingStep
  <2>2. execs[e].active
    BY <2>1 DEF Turns, OutstandingActive, Working
  <2>. QED
    BY <2>1, <2>2, TurnsKept DEF Working, ResendFromRoot
<1>. QED
  BY <1>1, <1>2, <1>3, <1>4, <1>5

(* Texts, pages and the clock.                                             *)
LEMMA BetweenTurns ==
    ASSUME Types, Types', Steady, Turns, Text \/ TurnAdmin \/ TurnNoticeBlacklisted \/ NextHour
    PROVE  Turns'
<1>1. execs \in Copies /\ pc = "idle" /\ user \in Document
  BY DEF Types, DocumentTypes, Text, TextStop, TextStart, TextUnsolicited, TextInvalid, TextUnexpected,
         TextAnswer, TurnAdmin, TurnChangeCohortStatus, TurnSetUserStatus, TurnNoticeBlacklisted, NextHour
<1>2. ASSUME execs' = execs \/ execs' = Cleared, UNCHANGED pc, user'.onboarded = user.onboarded PROVE Turns'
  BY <1>1, <1>2, ClearedType, TurnsKept DEF Working, Running, ResendFromRoot
<1>3. ASSUME UNCHANGED <<user, execs>>, Solicited, Answerable, NEW a \in Parsed, GoOn(a) PROVE Turns'
  <2>0. user.current \in Schedules
    BY <1>1, <1>3 DEF Document, Solicited
  <2>1. pc' = "run" /\ job'.at = user.current /\ job'.kind = "reply"
    BY <1>3, <2>0, GoOnStep
  <2>2. execs[user.current].active
    BY <1>3, <2>0 DEF Steady, Answerable, Asked
  <2>. QED
    BY <1>3, <2>0, <2>1, <2>2, TurnsKept DEF ResendFromRoot
<1>4. ASSUME NEW s, SetStatus(s) PROVE (execs' = execs \/ execs' = Cleared) /\ user'.onboarded = user.onboarded
  <2>1. user' = WithStatus(user, s) /\ (execs' = execs \/ execs' = Cleared)
    BY <1>4 DEF SetStatus, ClearedBy
  <2>. QED
    BY <1>1, <2>1 DEF WithStatus, Document
<1>5. CASE TextStop \/ TextStart \/ TextUnsolicited \/ TextUnexpected
  BY <1>2, <1>4, <1>5 DEF TextStop, TextStart, TextUnsolicited, TextUnexpected
<1>6. CASE TextInvalid
  <2>1. /\ (execs' = execs \/ execs' = Cleared) /\ user'.onboarded = user.onboarded
        /\ Solicited /\ Answerable
        /\ UNCHANGED <<pc, job>> \/ (GoOn(None) /\ UNCHANGED <<user, execs>>)
    BY <1>4, <1>6, TextInvalidStep
  <2>2. None \in Parsed
    BY DEF Parsed
  <2>. QED
    BY <1>2, <1>3, <2>1, <2>2
<1>7. ASSUME NEW a \in Answers \cup {Skip}, TextAnswer(a) PROVE Turns'
  <2>1. a \in Parsed
    BY DEF Parsed
  <2>. QED
    BY <1>3, <1>7, <2>1, TextAnswerStep
<1>8. CASE TurnAdmin
  <2>1. CASE TurnChangeCohortStatus
    <3>1. user'.onboarded = user.onboarded
      BY <1>1, <2>1 DEF TurnChangeCohortStatus, Document
    <3>. QED
      BY <1>2, <2>1, <3>1 DEF TurnChangeCohortStatus
  <2>. QED
    BY <1>2, <1>4, <1>8, <2>1 DEF TurnAdmin, TurnSetUserStatus
<1>9. CASE TurnNoticeBlacklisted \/ NextHour
  BY <1>2, <1>4, <1>9 DEF TurnNoticeBlacklisted, NextHour, documents
<1>. QED
  BY <1>5, <1>6, <1>7, <1>8, <1>9 DEF Text

(* Every step keeps the turns.                                             *)
LEMMA NextTurns ==
    ASSUME RunsKeepStatus, Types, Types', NonActive, Steady, Turns, [TurnNext]_vars
    PROVE  Turns'
<1>1. CASE Hourly \/ TurnOnboarding \/ Outstanding \/ EndLoop
  BY <1>1, StartTurns, LoopTurns, Zenon DEF Hourly, TurnOnboarding, Outstanding
<1>2. CASE UNCHANGED vars
  <2>1. UNCHANGED <<user, execs, pc, job>>
    BY <1>2 DEF vars
  <2>2. ResendFromRoot'
    BY <2>1 DEF Turns, ResendFromRoot
  <2>. QED
    BY <2>1, <2>2, TurnsKept DEF Working, Running
<1>. QED
  BY <1>1, <1>2, RunTurns, BetweenTurns DEF TurnNext

(* No turn has come to begin with.                                         *)
LEMMA InitTurns == Init => Turns
<1>1. ASSUME Init, NEW e \in Schedules PROVE ~execs[e].active
  BY <1>1, MakeExecutionType, EngineAssumption DEF Init
<1>. QED
  BY <1>1 DEF Init, Turns, Unmet, Fresh, Onboards, OutstandingActive, ResendFromRoot, Working, Running
-----------------------------------------------------------------------------
(* The periods of the executions.                                          *)
Calendars == \A e \in Schedules : InPeriod(execs[e], Config[e], now)

(* No question of survey e has been asked in its present period.           *)
NotAsked(e) ==
    \A i \in DOMAIN responses : ~(InTree(e, responses[i].question) /\ responses[i].start = execs[e].start)

(* Execution e is active, or about to run, at its root.                    *)
AtRoot(e) == execs[e].state = None /\ (execs[e].active \/ (pc \in {"run", "act"} /\ job.at = e))

(* The onboarding has not come to schedule e.                              *)
Welcome(e) ==
    /\ Config[e].subtype = "on_user_creation"
    /\ ~user.onboarded \/ (Working /\ job.kind = "onboard" /\ e \in job.todo)

(* Questions were asked in the present period of their survey or before;   *)
(* in the present one none if the survey is at its root, and else the one  *)
(* it waits at and some before it; and none of a survey for new users      *)
(* before its turn.                                                        *)
Behind ==
    \A e \in Schedules : \A i \in DOMAIN responses : InTree(e, responses[i].question) =>
        responses[i].start \in Int /\ responses[i].start <= execs[e].start

FromRoot == \A e \in Schedules : AtRoot(e) => NotAsked(e)

AskedBefore ==
    \A e \in Schedules : execs[e].state # None =>
        \A i \in DOMAIN responses :
            InTree(e, responses[i].question) /\ responses[i].start = execs[e].start =>
                \/ responses[i].question = execs[e].state
                \/ Precedes(e, responses[i].question, execs[e].state)

NoneYet == \A e \in Schedules : Welcome(e) => \A i \in DOMAIN responses : ~InTree(e, responses[i].question)

(* The inductive invariant of NoQuestionAskedTwice.                        *)
Once == Calendars /\ Behind /\ FromRoot /\ AskedBefore /\ NoneYet

(* A step that asks nothing.                                               *)
SameAsked ==
    /\ DOMAIN responses' = DOMAIN responses
    /\ \A i \in DOMAIN responses :
           responses'[i].question = responses[i].question /\ responses'[i].start = responses[i].start

(* Such steps that leave the questions executions wait at.                 *)
LEMMA OnceKept ==
    ASSUME Types, Types', Once, SameAsked, Calendars', FromRoot',
           \A e \in Schedules :
               /\ execs[e].start <= execs'[e].start
               /\ execs'[e].state # None => execs'[e].state = execs[e].state /\ execs'[e].start = execs[e].start
               /\ Welcome(e)' => Welcome(e)
    PROVE  Once'
<1>1. \A e \in Schedules : execs[e].start \in Int /\ execs'[e].start \in Int
  BY DEF Types, DocumentTypes, Copies, Execution
<1>2. Behind'
  BY <1>1 DEF Once, Behind, SameAsked, InTree
<1>3. AskedBefore'
  BY DEF Once, AskedBefore, SameAsked, InTree, Precedes
<1>4. NoneYet'
  BY DEF Once, NoneYet, SameAsked, InTree
<1>. QED
  BY <1>2, <1>3, <1>4 DEF Once

(* ... and leave the periods.                                              *)
LEMMA PeriodsKept ==
    ASSUME Types, Types', Once, SameAsked, now' \in {now, now + 1},
           \A e \in Schedules :
               /\ execs'[e].start = execs[e].start /\ execs'[e].end = execs[e].end
               /\ execs'[e].state \in {None, execs[e].state}
               /\ AtRoot(e)' => AtRoot(e) \/ NotAsked(e)
               /\ Welcome(e)' => Welcome(e)
    PROVE  Once'
<1>1. /\ now \in Nat
      /\ \A e \in Schedules : execs[e] \in Execution(Questions) /\ execs[e].start \in Int /\ Config[e] \in Calendar
  BY EngineAssumption DEF Types, DocumentTypes, Copies, Execution
<1>2. Calendars'
  <2>. SUFFICES ASSUME NEW e \in Schedules PROVE InPeriod(execs'[e], Config[e], now')
    BY DEF Calendars
  <2>1. InPeriod(execs[e], Config[e], now)
    BY DEF Once, Calendars
  <2>2. InPeriod(execs[e], Config[e], now')
    BY <1>1, <2>1, InPeriodStill
  <2>. QED
    BY <2>2 DEF InPeriod
<1>3. FromRoot'
  <2>. SUFFICES ASSUME NEW e \in Schedules, AtRoot(e)' PROVE NotAsked(e)'
    BY DEF FromRoot
  <2>1. NotAsked(e)
    BY DEF Once, FromRoot
  <2>. QED
    BY <2>1 DEF NotAsked, SameAsked, InTree
<1>. QED
  BY <1>1, <1>2, <1>3, OnceKept

(* Clearing the executions leaves their periods.                           *)
LEMMA ClearedPeriods ==
    ASSUME execs \in Copies, execs' = execs \/ execs' = Cleared
    PROVE  \A e \in Schedules :
               /\ execs'[e].start = execs[e].start /\ execs'[e].end = execs[e].end
               /\ execs'[e].state \in {None, execs[e].state} /\ (execs'[e].active => execs[e].active)
               /\ execs'[e].active => execs'[e] = execs[e]
<1>1. CASE execs' = execs
  BY <1>1
<1>2. CASE execs' = Cleared
  <2>1. \A e \in Schedules : execs'[e] = [execs[e] EXCEPT !.active = FALSE, !.state = None]
    BY <1>2, Zenon DEF Cleared
  <2>2. \A e \in Schedules :
            /\ execs'[e].start = execs[e].start /\ execs'[e].end = execs[e].end
            /\ execs'[e].state = None /\ execs'[e].active = FALSE
    BY <2>1, Zenon DEF Copies, Execution
  <2>. QED
    BY <2>2, Zenon
<1>. QED
  BY <1>1, <1>2

(* What a run asks next is new.                                            *)
LEMMA NotAskedYet ==
    ASSUME TreesInOrder, Types, Forward, Steady, Once, pc = "act", agenda # <<>>
    PROVE  /\ user.current = job.at /\ job.at \in Schedules /\ InTree(job.at, Head(agenda).node)
           /\ execs[job.at].state # None => Precedes(job.at, execs[job.at].state, Head(agenda).node)
           /\ ~Has(responses, Head(agenda).node, execs[job.at].start)
<1>. DEFINE e == job.at
            state == execs[e].state
            q == Head(agenda).node
<1>1. user.current = e /\ e \in Schedules /\ job.copies = execs
  BY DEF Types, JobTypes, Running, Working, Steady, UpToDate
<1>2. AllAhead(e, state, agenda)
  BY <1>1 DEF Forward, AgendaPlaced
<1>3. Ahead(e, state, q)
  BY <1>1, <1>2, TailAhead
<1>4. InTree(e, q) /\ (state # None => Precedes(e, state, q))
  BY <1>3 DEF Ahead
<1>5. ASSUME NEW i \in DOMAIN responses, responses[i].question = q, responses[i].start = execs[e].start
      PROVE  FALSE
  <2>1. CASE state = None
    BY <1>1, <1>4, <1>5, <2>1 DEF Once, FromRoot, AtRoot, NotAsked
  <2>2. CASE state # None
    <3>1. Precedes(e, state, q) /\ (q = state \/ Precedes(e, q, state))
      BY <1>1, <1>4, <1>5, <2>2 DEF Once, AskedBefore
    <3>. QED
      BY <1>1, <3>1, PrecedesOrders
  <2>. QED
    BY <2>1, <2>2
<1>. QED
  BY <1>1, <1>4, <1>5 DEF Has

(* The step that asks.                                                     *)
LEMMA SendQuestionOnce ==
    ASSUME RunsKeepStatus, TreesInOrder, Types, Types', Steady, Turns, Forward, Once, TurnSendQuestion,
           Waits(Head(agenda).node)
    PROVE  Once'
<1>. DEFINE e == job.at
            q == Head(agenda).node
<1>1. /\ UNCHANGED <<now, user>> /\ pc = "act" /\ Working /\ e \in Schedules /\ execs \in Copies /\ user.current = e
      /\ q \in Questions /\ execs' = [execs EXCEPT ![e] = Ended(@, q)] /\ agenda # <<>>
      /\ responses' \in {responses, TurnStored(q)}
      /\ pc' \in {"idle", "loop", "refresh"}
      /\ Working' => job'.kind = job.kind /\ job'.at = e /\ job'.todo = job.todo
  BY QuestionStep DEF TurnSendQuestion, Doing, Waits
<1>2. InTree(e, q) /\ (execs[e].state # None => Precedes(e, execs[e].state, q)) /\ ~Has(responses, q, execs[e].start)
  BY <1>1, NotAskedYet
<1>. HIDE DEF e, q
<1>3. /\ e # None /\ q # None /\ responses \in Seq(Response)
      /\ \A f \in Schedules : execs[f] \in Execution(Questions) /\ execs[f].start \in Int
  BY <1>1, NoneApart DEF Types, DocumentTypes, Copies, Execution
<1>4. \/ UNCHANGED responses
      \/ responses' = Append(responses, [question |-> q, start |-> execs[e].start, answer |-> None])
  BY <1>1, <1>2, <1>3, RetrieveFinds DEF TurnStored, TurnPeriodStart
<1>5. \A i \in DOMAIN responses' :
          \/ i \in DOMAIN responses /\ responses'[i] = responses[i]
          \/ responses'[i].question = q /\ responses'[i].start = execs[e].start
  BY <1>3, <1>4
<1>6. /\ execs'[e].state = q /\ execs'[e].start = execs[e].start /\ execs'[e].end = execs[e].end
      /\ \A f \in Schedules \ {e} : execs'[f] = execs[f]
  BY <1>1, <1>3, EndedType DEF Copies
<1>7. \A f \in Schedules : InTree(f, q) => f = e
  BY <1>1, <1>2 DEF TreesInOrder, InTree
<1>8. \A f \in Schedules, i \in DOMAIN responses' :
          InTree(f, responses'[i].question) =>
              \/ i \in DOMAIN responses /\ responses'[i] = responses[i]
              \/ f = e /\ responses'[i].question = q /\ responses'[i].start = execs[e].start
  BY <1>5, <1>7
<1>9. \A f \in Schedules : execs'[f].start = execs[f].start /\ execs'[f].end = execs[f].end
  BY <1>6
<1>10. Calendars'
  BY <1>1, <1>9 DEF Once, Calendars, InPeriod
<1>11. Behind'
  BY <1>1, <1>3, <1>8, <1>9 DEF Once, Behind, InTree
<1>12. FromRoot'
  <2>. SUFFICES ASSUME NEW f \in Schedules, AtRoot(f)' PROVE NotAsked(f)'
    BY DEF FromRoot
  <2>1. f # e /\ AtRoot(f)
    BY <1>1, <1>3, <1>6 DEF AtRoot
  <2>2. NotAsked(f)
    BY <2>1 DEF Once, FromRoot
  <2>. QED
    BY <1>8, <1>9, <2>1, <2>2 DEF NotAsked, InTree
<1>13. AskedBefore'
  <2>. SUFFICES ASSUME NEW f \in Schedules, execs'[f].state # None, NEW i \in DOMAIN responses',
                       InTree(f, responses'[i].question), responses'[i].start = execs'[f].start
                PROVE  \/ responses'[i].question = execs'[f].state
                       \/ Precedes(f, responses'[i].question, execs'[f].state)
    BY DEF AskedBefore, InTree, Precedes
  <2>1. CASE f # e
    <3>1. i \in DOMAIN responses /\ responses'[i] = responses[i] /\ execs'[f] = execs[f]
      BY <1>6, <1>8, <2>1
    <3>. QED
      BY <3>1 DEF Once, AskedBefore
  <2>2. CASE f = e /\ i \in DOMAIN responses /\ responses'[i] = responses[i]
    <3>1. responses[i].start = execs[e].start /\ InTree(e, responses[i].question) /\ execs'[f].state = q
      BY <1>6, <2>2
    <3>2. CASE execs[e].state = None
      BY <1>1, <2>2, <3>1, <3>2 DEF Once, FromRoot, AtRoot, NotAsked, e
    <3>3. CASE execs[e].state # None
      <4>1. responses[i].question = execs[e].state \/ Precedes(e, responses[i].question, execs[e].state)
        BY <1>1, <2>2, <3>1, <3>3 DEF Once, AskedBefore
      <4>2. Precedes(e, responses[i].question, q)
        BY <1>1, <1>2, <3>3, <4>1, PrecedesOrders
      <4>. QED
        BY <2>2, <3>1, <4>2
    <3>. QED
      BY <3>2, <3>3
  <2>. QED
    BY <1>6, <1>8, <2>1, <2>2
<1>14. NoneYet'
  <2>. SUFFICES ASSUME NEW f \in Schedules, Welcome(f)', NEW i \in DOMAIN responses', InTree(f, responses'[i].question)
                PROVE  FALSE
    BY DEF NoneYet, InTree
  <2>1. Welcome(f)
    BY <1>1 DEF Welcome
  <2>2. f # e
    BY <1>1, <2>1 DEF Turns, Unmet, Fresh, Welcome, e
  <2>. QED
    BY <1>8, <2>1, <2>2 DEF Once, NoneYet
<1>. QED
  BY <1>10, <1>11, <1>12, <1>13, <1>14 DEF Once

(* The steps of a run.                                                     *)
LEMMA RunOnce ==
    ASSUME RunsKeepStatus, TreesInOrder, Types, Types', Steady, Turns, Forward, Once, TurnRun
    PROVE  Once'
<1>0. UpToDate /\ execs \in Copies
  BY DEF Steady, Types, DocumentTypes
<1>1. CASE BeginRun
  <2>1. /\ UNCHANGED <<now, execs, responses>> /\ user'.onboarded = user.onboarded /\ pc = "run" /\ Working
        /\ Working' => job'.kind = job.kind /\ job'.at = job.at /\ job'.todo = job.todo
    BY <1>0, <1>1, BeginRunStep
  <2>2. \A e \in Schedules : (AtRoot(e)' => AtRoot(e)) /\ (Welcome(e)' => Welcome(e))
    BY <2>1 DEF AtRoot, Welcome, Working, Running
  <2>. QED
    BY <2>1, <2>2, PeriodsKept DEF SameAsked
<1>2. CASE TurnSetAttribute \/ TurnSendMessage \/ TestConditional
  <2>1. /\ UNCHANGED <<now, execs, responses>> /\ user'.onboarded = user.onboarded /\ pc = "act"
        /\ UNCHANGED <<pc, job>> \/ Left
    BY <1>2, ActionStep
  <2>2. \A e \in Schedules : (AtRoot(e)' => AtRoot(e)) /\ (Welcome(e)' => Welcome(e))
    BY <2>1 DEF AtRoot, Welcome, Working, Running, Left
  <2>. QED
    BY <2>1, <2>2, PeriodsKept DEF SameAsked
<1>3. CASE EndRun
  <2>1. /\ UNCHANGED <<now, responses>> /\ user'.onboarded = user.onboarded
        /\ pc = "act" /\ Working /\ job.at \in Schedules /\ execs \in Copies
        /\ execs' = [execs EXCEPT ![job.at] = Ended(@, None)]
        /\ pc' \in {"idle", "outstanding", "loop", "run", "refresh"}
        /\ Working' => job'.kind = job.kind /\ job'.at = job.at /\ job'.todo = job.todo
        /\ pc' = "run" => job.resend
    BY <1>0, <1>3, EndRunStep
  <2>2. /\ execs'[job.at] = Ended(execs[job.at], None) /\ execs[job.at] \in Execution(Questions)
        /\ \A e \in Schedules \ {job.at} : execs'[e] = execs[e]
    BY <2>1 DEF Copies
  <2>3. \A e \in Schedules : /\ execs'[e].start = execs[e].start /\ execs'[e].end = execs[e].end
                             /\ execs'[e].state \in {None, execs[e].state}
                             /\ e = job.at => ~execs'[e].active
    BY <2>2, EndedType
  <2>4. \A e \in Schedules : Welcome(e)' => Welcome(e)
    BY <2>1 DEF Welcome
  <2>5. \A e \in Schedules : AtRoot(e)' => AtRoot(e)
    <3>1. pc' = "run" => execs[job.at].state = None
      BY <2>1 DEF Turns, ResendFromRoot
    <3>. QED
      BY <2>1, <2>2, <2>3, <3>1 DEF AtRoot, Working, Running
  <2>. QED
    BY <2>1, <2>3, <2>4, <2>5, PeriodsKept DEF SameAsked
<1>4. CASE (TurnSendQuestion \/ TurnResendQuestion) /\ Left /\ UNCHANGED <<execs, responses>>
  <2>1. UNCHANGED <<now, user>> /\ Working
    BY <1>4, QuestionStep
  <2>2. \A e \in Schedules : (AtRoot(e)' => AtRoot(e)) /\ (Welcome(e)' => Welcome(e))
    BY <1>4, <2>1 DEF AtRoot, Welcome, Working, Running, Left
  <2>. QED
    BY <1>4, <2>1, <2>2, PeriodsKept DEF SameAsked
<1>5. CASE TurnResendQuestion /\ Waits(execs[job.at].state)
  <2>. DEFINE q == execs[job.at].state
  <2>1. /\ UNCHANGED <<now, user, responses>> /\ Working /\ job.at \in Schedules
        /\ q \in Questions /\ execs' = [execs EXCEPT ![job.at] = Ended(@, q)]
        /\ pc' \in {"idle", "loop", "refresh"}
        /\ Working' => job'.kind = job.kind /\ job'.at = job.at /\ job'.todo = job.todo
    BY <1>5, QuestionStep DEF TurnResendQuestion, Waits
  <2>2. /\ execs'[job.at] = Ended(execs[job.at], q) /\ execs[job.at] \in Execution(Questions) /\ q # None
        /\ \A e \in Schedules \ {job.at} : execs'[e] = execs[e]
    BY <1>0, <2>1, NoneApart DEF Copies
  <2>. HIDE DEF q
  <2>3. /\ execs'[job.at].start = execs[job.at].start /\ execs'[job.at].end = execs[job.at].end
        /\ execs'[job.at].state = q
    BY <2>1, <2>2, EndedType
  <2>4. \A e \in Schedules : Welcome(e)' => Welcome(e)
    BY <2>1 DEF Welcome
  <2>5. \A e \in Schedules : AtRoot(e)' => AtRoot(e)
    BY <2>1, <2>2, <2>3 DEF AtRoot
  <2>6. \A e \in Schedules : /\ execs'[e].start = execs[e].start /\ execs'[e].end = execs[e].end
                             /\ execs'[e].state \in {None, execs[e].state}
    BY <2>2, <2>3 DEF q
  <2>. QED
    BY <2>1, <2>4, <2>5, <2>6, PeriodsKept DEF SameAsked
<1>6. CASE TurnSendQuestion \/ TurnResendQuestion
  <2>1. /\ TurnSendQuestion => pc = "act"
        /\ TurnResendQuestion => pc = "resend"
    BY DEF TurnSendQuestion, TurnResendQuestion, Doing
  <2>2. \/ Left /\ UNCHANGED <<execs, responses>>
        \/ Waits(IF pc = "act" THEN Head(agenda).node ELSE execs[job.at].state)
    BY <1>6, QuestionStep
  <2>3. CASE TurnSendQuestion /\ Waits(Head(agenda).node)
    BY <2>3, SendQuestionOnce
  <2>. QED
    BY <1>4, <1>5, <1>6, <2>1, <2>2, <2>3
<1>. QED
  BY <1>1, <1>2, <1>3, <1>6 DEF TurnRun

(* Handlers start.                                                         *)
LEMMA StartOnce ==
    ASSUME Types, Types', Once, EveryHour \/ TurnOnboard \/ RunOutstanding
    PROVE  Once'
<1>1. execs \in Copies
  BY DEF Types, DocumentTypes
<1>2. CASE EveryHour
  <2>1. CASE SetStatus("inactive") /\ UNCHANGED <<pc, job>> /\ pc = "idle"
    <3>1. user' = WithStatus(user, "inactive") /\ (execs' = execs \/ execs' = Cleared)
      BY <2>1 DEF SetStatus, ClearedBy
    <3>2. user'.onboarded = user.onboarded
      BY <3>1 DEF WithStatus, Types, DocumentTypes, Document
    <3>3. \A e \in Schedules : (AtRoot(e)' => AtRoot(e)) /\ (Welcome(e)' => Welcome(e))
      BY <1>1, <2>1, <3>1, <3>2, ClearedPeriods DEF AtRoot, Welcome, Working, Running
    <3>. QED
      BY <1>1, <1>2, <3>1, <3>3, ClearedPeriods, PeriodsKept DEF SameAsked, EveryHour
  <2>2. CASE UNCHANGED <<user, execs>> /\ pc' = "loop" /\ job' = Job("hour", Schedules)
    <3>1. job'.kind = "hour"
      BY <1>1, <2>2, NewJob DEF Kinds
    <3>2. \A e \in Schedules : (AtRoot(e)' => AtRoot(e)) /\ (Welcome(e)' => Welcome(e))
      BY <2>2, <3>1 DEF AtRoot, Welcome
    <3>. QED
      BY <1>2, <2>2, <3>2, PeriodsKept DEF SameAsked, EveryHour
  <2>. QED
    BY <1>2, <2>1, <2>2 DEF EveryHour
<1>3. CASE TurnOnboard
  <2>1. /\ ~user.onboarded /\ pc' = "loop" /\ UNCHANGED <<now, execs, responses>>
    BY <1>3 DEF TurnOnboard
  <2>2. user'.onboarded
    BY <1>3 DEF TurnOnboard, Types, DocumentTypes, Document
  <2>3. \A e \in Schedules : (AtRoot(e)' => AtRoot(e)) /\ (Welcome(e)' => Welcome(e))
    BY <2>1, <2>2 DEF AtRoot, Welcome
  <2>. QED
    BY <2>1, <2>3, PeriodsKept DEF SameAsked
<1>4. CASE RunOutstanding
  <2>. DEFINE todo == {e \in Schedules : execs[e].active}
  <2>1. pc' = "loop" /\ UNCHANGED <<now, user, execs, responses>> /\ job' = Job("outstanding", todo)
    BY <1>4 DEF RunOutstanding, documents
  <2>2. job'.kind = "outstanding"
    BY <1>1, <2>1, NewJob DEF Kinds
  <2>3. \A e \in Schedules : (AtRoot(e)' => AtRoot(e)) /\ (Welcome(e)' => Welcome(e))
    BY <2>1, <2>2 DEF AtRoot, Welcome
  <2>. QED
    BY <2>1, <2>3, PeriodsKept DEF SameAsked
<1>. QED
  BY <1>2, <1>3, <1>4

(* The period that follows one that is over.                               *)
LEMMA PeriodOver ==
    ASSUME now \in Nat, NEW s \in Calendar, NEW x \in Execution(Questions), NEW active \in BOOLEAN,
           InPeriod(x, s, now), Resets(x, now, FALSE), NEW n, n = NewPeriod(x, s, now, active)
    PROVE  InPeriod(n, s, now) /\ n.start \in Int /\ x.start < n.start /\ n.state = None
<1>1. x.end # None /\ now >= x.end /\ x.start < x.end /\ x.start \in Int /\ x.end \in Int \cup {None}
  BY DEF Resets, InPeriod, Execution
<1>2. InPeriod(n, s, now) /\ n.start \in Int /\ x.end <= n.start
  BY <1>1, NewPeriodLater
<1>3. x.start < n.start
  BY <1>1, <1>2
<1>4. n.state # None => n.start = x.start
  BY NewPeriodKeeps
<1>. QED
  BY <1>1, <1>2, <1>3, <1>4

(* A check of a period leaves it, or starts one that no question was asked *)
(* in.                                                                     *)
LEMMA VisitPeriodOnce ==
    ASSUME Types, Types', Steady, Once, NEW e \in Schedules, VisitPeriod(e)
    PROVE  Once'
<1>. DEFINE x == execs[e]
            n == NewPeriod(x, Config[e], now, TRUE)
<1>1. /\ UNCHANGED <<now, user, responses>> /\ pc = "loop" /\ job'.kind = "hour" /\ job'.at = e
      /\ pc' = IF IsDue(e) \/ (Starts(e) /\ ~job.sent) THEN "run" ELSE "refresh"
      /\ \E kept \in Execution(Questions), saved \in Execution(Questions) :
                /\ kept.start = PeriodSet(e).start /\ kept.end = PeriodSet(e).end
                /\ kept.active = PeriodSet(e).active /\ kept.state = PeriodSet(e).state
                /\ execs' = [execs EXCEPT ![e] = saved]
                /\ job.copies[e] = execs[e] => saved = kept
  BY VisitPeriodStep, Zenon
<1>2. job.copies = execs /\ execs \in Copies /\ now \in Nat /\ Config[e] \in Calendar
  BY <1>1, EngineAssumption DEF Steady, UpToDate, Working, Types, DocumentTypes
<1>3. /\ \A f \in Schedules \ {e} : execs'[f] = execs[f]
      /\ execs'[e].start = PeriodSet(e).start /\ execs'[e].end = PeriodSet(e).end
      /\ execs'[e].active = PeriodSet(e).active /\ execs'[e].state = PeriodSet(e).state
  BY <1>1, <1>2 DEF Copies
<1>4. x \in Execution(Questions) /\ x.start \in Int /\ x.end \in Int \cup {None} /\ InPeriod(x, Config[e], now)
  BY <1>2 DEF Copies, Execution, Once, Calendars
<1>5. \A f \in Schedules : Welcome(f)' => Welcome(f)
  BY <1>1 DEF Welcome
<1>6. \A f \in Schedules \ {e} : AtRoot(f)' => AtRoot(f)
  BY <1>1, <1>3 DEF AtRoot
<1>. HIDE DEF x
<1>7. CASE ~Resets(x, now, FALSE)
  <2>1. PeriodSet(e) = x /\ ~Starts(e)
    BY <1>2, <1>7 DEF PeriodSet, SetPeriod, Starts, StartsPeriod, x
  <2>2. pc' = "run" => x.active
    BY <1>1, <2>1 DEF IsDue, ResendDue
  <2>3. AtRoot(e)' => AtRoot(e)
    BY <1>1, <1>3, <2>1, <2>2 DEF AtRoot, x
  <2>. QED
    BY <1>1, <1>3, <1>5, <1>6, <2>1, <2>3, PeriodsKept DEF SameAsked, x
<1>8. CASE Resets(x, now, FALSE)
  <2>1. PeriodSet(e) = n
    BY <1>2, <1>8 DEF PeriodSet, SetPeriod, x
  <2>. HIDE DEF n
  <2>2. n = NewPeriod(x, Config[e], now, TRUE) /\ TRUE \in BOOLEAN
    BY DEF n
  <2>3. InPeriod(n, Config[e], now) /\ n.start \in Int /\ x.start < n.start /\ n.state = None
    BY <1>2, <1>4, <1>8, <2>2, PeriodOver
  <2>4. Calendars'
    BY <1>1, <1>3, <2>1, <2>3 DEF Once, Calendars, InPeriod
  <2>5. NotAsked(e)'
    <3>. SUFFICES ASSUME NEW i \in DOMAIN responses, InTree(e, responses[i].question) PROVE responses[i].start # n.start
      BY <1>1, <1>3, <2>1 DEF NotAsked, InTree
    <3>1. responses[i].start \in Int /\ responses[i].start <= x.start
      BY DEF Once, Behind, x
    <3>. QED
      BY <1>4, <2>3, <3>1
  <2>6. FromRoot'
    BY <1>1, <1>3, <1>6, <2>5 DEF Once, FromRoot, NotAsked, InTree
  <2>7. \A f \in Schedules : execs[f].start <= execs'[f].start
    BY <1>2, <1>3, <1>4, <2>1, <2>3 DEF Copies, Execution, x
  <2>. QED
    BY <1>1, <1>3, <1>5, <2>1, <2>3, <2>4, <2>6, <2>7, OnceKept DEF SameAsked
<1>. QED
  BY <1>7, <1>8

(* An update makes nothing active.                                         *)
LEMMA NewPeriodRests ==
    ASSUME NEW t \in Nat, NEW s \in Calendar, NEW x \in Execution(Questions),
           NEW active \in BOOLEAN, active = FALSE
    PROVE  ~x.active => ~NewPeriod(x, s, t, active).active
<1>1. s.subtype \in Subtypes /\ Due(s) \in Nat
  BY DueType DEF Calendar
<1>2. CASE s.subtype = "one_time" /\ t >= Due(s)
  BY <1>2, OneTimeDue DEF Period
<1>3. CASE s.subtype = "one_time" /\ t < Due(s)
  <2>1. x = [start |-> x.start, end |-> x.end, resends |-> x.resends, active |-> x.active, state |-> x.state]
    BY DEF Execution
  <2>2. NewPeriod(x, s, t, active) =
            [start |-> x.start, end |-> Due(s), resends |-> {}, active |-> x.active, state |-> x.state]
    BY <1>3, <2>1, OneTimeNotDue
  <2>. QED
    BY <2>2
<1>4. CASE s.subtype = "recurring"
  BY <1>4 DEF NewPeriod, Period
<1>5. CASE s.subtype = "daily_limit"
  BY <1>5 DEF NewPeriod, Period
<1>6. CASE s.subtype = "on_user_creation"
  BY <1>6 DEF NewPeriod, Period
<1>. QED
  BY <1>1, <1>2, <1>3, <1>4, <1>5, <1>6 DEF Subtypes

(* An update of a period touches only executions at rest.                  *)
LEMMA RefreshOnce ==
    ASSUME Types, Types', Steady, Once, Refresh
    PROVE  Once'
<1>. SUFFICES ASSUME NEW e \in Schedules, e = job.at PROVE Once'
  BY RefreshStep
<1>. DEFINE x == execs[e]
            n == NewPeriod(x, Config[e], now, FALSE)
<1>1. /\ UNCHANGED <<now, user, responses>> /\ pc = "refresh" /\ pc' = "loop"
      /\ job'.kind = job.kind /\ job'.todo = job.todo
      /\ \E saved \in Execution(Questions) :
             /\ execs' = [execs EXCEPT ![e] = saved]
             /\ saved = x \/ saved = n
             /\ job.copies[e].active => saved = x
  BY RefreshStep
<1>2. job.copies = execs /\ execs \in Copies /\ now \in Nat /\ Config[e] \in Calendar
  BY <1>1, EngineAssumption DEF Steady, UpToDate, Working, Running, Types, DocumentTypes
<1>3. PICK saved \in Execution(Questions) :
          /\ \A f \in Schedules \ {e} : execs'[f] = execs[f]
          /\ execs'[e] = saved /\ (saved = x \/ (saved = n /\ ~x.active))
  BY <1>1, <1>2 DEF Copies
<1>4. x \in Execution(Questions) /\ InPeriod(x, Config[e], now)
  BY <1>1, <1>2 DEF Copies, Once, Calendars
<1>5. \A f \in Schedules : Welcome(f)' => Welcome(f)
  BY <1>1 DEF Welcome, Working, Running
<1>6. \A f \in Schedules \ {e} : AtRoot(f)' => AtRoot(f)
  BY <1>1, <1>3 DEF AtRoot
<1>. HIDE DEF x
<1>7. CASE saved = x
  <2>1. \A f \in Schedules : execs'[f] = execs[f]
    BY <1>3, <1>7 DEF x
  <2>2. AtRoot(e)' => AtRoot(e)
    BY <1>1, <2>1 DEF AtRoot
  <2>. QED
    BY <1>1, <1>5, <1>6, <2>1, <2>2, PeriodsKept DEF SameAsked
<1>8. CASE saved = n /\ ~x.active
  <2>. HIDE DEF n
  <2>1. x.state = None
    BY <1>1, <1>8 DEF Steady, x
  <2>2. ~n.active /\ n.state = None
    <3>1. n.state # None => n.state = x.state
      BY <1>2, <1>4, NewPeriodKeeps DEF n
    <3>2. ~n.active
      BY <1>2, <1>4, <1>8, NewPeriodRests DEF n
    <3>. QED
      BY <2>1, <3>1, <3>2
  <2>3. InPeriod(n, Config[e], now) /\ n.start \in Int /\ x.start <= n.start
    BY <1>2, <1>4, NewPeriodLater DEF n
  <2>4. Calendars'
    BY <1>1, <1>3, <1>8, <2>3 DEF Once, Calendars, InPeriod
  <2>5. ~AtRoot(e)'
    BY <1>1, <1>3, <1>8, <2>2 DEF AtRoot
  <2>6. FromRoot'
    BY <1>1, <1>3, <1>6, <2>5 DEF Once, FromRoot, NotAsked, InTree
  <2>7. \A f \in Schedules : execs[f].start <= execs'[f].start
    BY <1>2, <1>3, <1>8, <2>3 DEF Copies, Execution, x
  <2>. QED
    BY <1>1, <1>3, <1>5, <1>8, <2>2, <2>4, <2>6, <2>7, OnceKept DEF SameAsked
<1>. QED
  BY <1>3, <1>7, <1>8

(* The turns of the other handlers.                                        *)
LEMMA LoopOnce ==
    ASSUME Types, Types', Steady, Turns, Once,
           EndLoop \/ Refresh \/ \E e \in Schedules : VisitPeriod(e) \/ VisitOnCreation(e) \/ VisitOutstanding(e)
    PROVE  Once'
<1>0. execs \in Copies /\ now \in Nat
  BY DEF Types, DocumentTypes
<1>1. CASE EndLoop
  <2>1. UNCHANGED <<now, user, execs, responses>> /\ pc' = "idle"
    BY <1>1, StopTypes DEF EndLoop, documents
  <2>2. \A e \in Schedules : (AtRoot(e)' => AtRoot(e)) /\ (Welcome(e)' => Welcome(e))
    BY <2>1 DEF AtRoot, Welcome, Working, Running
  <2>. QED
    BY <2>1, <2>2, PeriodsKept DEF SameAsked
<1>2. ASSUME NEW e \in Schedules, VisitOnCreation(e) PROVE Once'
  <2>1. /\ UNCHANGED <<now, user, responses>> /\ pc = "loop" /\ pc' \in {"loop", "run"}
        /\ e \in job.todo /\ job.kind = "onboard" /\ job'.kind = "onboard" /\ job'.at = e
        /\ job'.todo = job.todo \ {e}
        /\ execs' = [execs EXCEPT ![e] = [execs[e] EXCEPT !.active = TRUE]]
    BY <1>2, VisitOnCreationStep
  <2>2. \A f \in Schedules : /\ execs'[f].start = execs[f].start /\ execs'[f].end = execs[f].end
                             /\ execs'[f].state = execs[f].state
                             /\ f # e => execs'[f].active = execs[f].active
    BY <1>0, <2>1 DEF Copies, Execution
  <2>3. Config[e].subtype = "on_user_creation"
    BY <2>1 DEF Turns, Onboards, Working
  <2>4. NotAsked(e)
    BY <2>1, <2>3 DEF Once, NoneYet, Welcome, Working, NotAsked
  <2>5. \A f \in Schedules : AtRoot(f)' => AtRoot(f) \/ NotAsked(f)
    BY <2>1, <2>2, <2>4 DEF AtRoot
  <2>6. \A f \in Schedules : Welcome(f)' => Welcome(f)
    BY <2>1 DEF Welcome, Working
  <2>. QED
    BY <2>1, <2>2, <2>5, <2>6, PeriodsKept DEF SameAsked
<1>3. ASSUME NEW e \in Schedules, VisitOutstanding(e) PROVE Once'
  <2>1. /\ UNCHANGED <<now, user, execs, responses>> /\ pc = "loop" /\ pc' = "run"
        /\ e \in job.todo /\ job.kind = "outstanding" /\ job'.kind = job.kind /\ job'.at = e
    BY <1>3, VisitOutstandingStep
  <2>2. execs[e].active
    BY <2>1 DEF Turns, OutstandingActive, Working
  <2>3. \A f \in Schedules : (AtRoot(f)' => AtRoot(f)) /\ (Welcome(f)' => Welcome(f))
    BY <2>1, <2>2 DEF AtRoot, Welcome
  <2>. QED
    BY <2>1, <2>3, PeriodsKept DEF SameAsked
<1>. QED
  BY <1>1, <1>2, <1>3, VisitPeriodOnce, RefreshOnce

(* An answer does not change what was asked.                               *)
LEMMA AnsweredSame ==
    ASSUME Types,
           \/ UNCHANGED responses
           \/ \E k \in DOMAIN responses : \E v : responses' = [responses EXCEPT ![k].answer = v]
    PROVE  SameAsked
<1>1. responses \in Seq(Response)
  BY DEF Types, DocumentTypes
<1>2. ASSUME NEW k \in DOMAIN responses, NEW v, responses' = [responses EXCEPT ![k].answer = v]
      PROVE  SameAsked
  <2>1. responses[k] \in Response
    BY <1>1
  <2>2. /\ DOMAIN responses' = DOMAIN responses
        /\ \A i \in DOMAIN responses :
               responses'[i] = IF i = k THEN [responses[k] EXCEPT !.answer = v] ELSE responses[i]
    BY <1>1, <1>2
  <2>. QED
    BY <2>1, <2>2 DEF SameAsked, Response
<1>. QED
  BY <1>2 DEF SameAsked

(* Texts, pages and the clock.                                             *)
LEMMA BetweenOnce ==
    ASSUME Types, Types', Steady, Once, Text \/ TurnAdmin \/ TurnNoticeBlacklisted \/ NextHour
    PROVE  Once'
<1>1. execs \in Copies /\ pc = "idle" /\ user \in Document
  BY DEF Types, DocumentTypes, Text, TextStop, TextStart, TextUnsolicited, TextInvalid, TextUnexpected,
         TextAnswer, TurnAdmin, TurnChangeCohortStatus, TurnSetUserStatus, TurnNoticeBlacklisted, NextHour
<1>2. ASSUME execs' = execs \/ execs' = Cleared, UNCHANGED <<pc, responses>>, user'.onboarded = user.onboarded,
             now' \in {now, now + 1}
      PROVE  Once'
  <2>1. \A e \in Schedules : (AtRoot(e)' => AtRoot(e)) /\ (Welcome(e)' => Welcome(e))
    BY <1>1, <1>2, ClearedPeriods DEF AtRoot, Welcome, Working, Running
  <2>. QED
    BY <1>1, <1>2, <2>1, ClearedPeriods, PeriodsKept DEF SameAsked
<1>3. ASSUME UNCHANGED <<now, user, execs>>, Solicited, Answerable, NEW a \in Parsed, GoOn(a),
             \/ UNCHANGED responses
             \/ /\ AskedResponse \in DOMAIN responses /\ responses' \in Seq(Response)
                /\ \E v : responses' = [responses EXCEPT ![AskedResponse].answer = v]
      PROVE  Once'
  <2>1. user.current \in Schedules /\ execs[user.current].state # None
    BY <1>1, <1>3 DEF Solicited, Answerable, Asked, Document
  <2>2. pc' = "run" /\ job'.at = user.current /\ job'.kind = "reply"
    BY <1>3, <2>1, GoOnStep
  <2>3. SameAsked
    BY <1>3, AnsweredSame
  <2>4. \A e \in Schedules : (AtRoot(e)' => AtRoot(e)) /\ (Welcome(e)' => Welcome(e))
    BY <1>3, <2>1, <2>2 DEF AtRoot, Welcome
  <2>. QED
    BY <1>3, <2>3, <2>4, PeriodsKept
<1>4. ASSUME NEW s, SetStatus(s) PROVE (execs' = execs \/ execs' = Cleared) /\ user'.onboarded = user.onboarded
  <2>1. user' = WithStatus(user, s) /\ (execs' = execs \/ execs' = Cleared)
    BY <1>4 DEF SetStatus, ClearedBy
  <2>. QED
    BY <1>1, <2>1 DEF WithStatus, Document
<1>5. CASE TextStop \/ TextStart \/ TextUnsolicited \/ TextUnexpected
  BY <1>2, <1>4, <1>5 DEF TextStop, TextStart, TextUnsolicited, TextUnexpected
<1>6. CASE TextInvalid
  <2>1. /\ (execs' = execs \/ execs' = Cleared) /\ user'.onboarded = user.onboarded /\ UNCHANGED now
        /\ Solicited /\ Answerable
        /\ \/ UNCHANGED responses
           \/ /\ AskedResponse \in DOMAIN responses /\ responses' \in Seq(Response)
              /\ responses' = [responses EXCEPT ![AskedResponse].answer = LimitReached]
        /\ \/ UNCHANGED <<pc, job>>
           \/ user.current \in Schedules /\ GoOn(None) /\ UNCHANGED <<user, execs>>
    BY <1>4, <1>6, TextInvalidStep
  <2>2. None \in Parsed
    BY DEF Parsed
  <2>3. CASE UNCHANGED <<pc, job>>
    <3>1. UNCHANGED responses
      BY <1>1, <1>6, <2>3 DEF TextInvalid, GoOn
    <3>. QED
      BY <1>2, <2>1, <2>3, <3>1
  <2>4. CASE user.current \in Schedules /\ GoOn(None) /\ UNCHANGED <<user, execs>>
    BY <1>3, <2>1, <2>2, <2>4
  <2>. QED
    BY <2>1, <2>3, <2>4
<1>7. ASSUME NEW a \in Answers \cup {Skip}, TextAnswer(a) PROVE Once'
  <2>1. a \in Parsed
    BY DEF Parsed
  <2>. QED
    BY <1>3, <1>7, <2>1, TextAnswerStep
<1>8. CASE TurnAdmin
  <2>1. CASE TurnChangeCohortStatus
    <3>1. user'.onboarded = user.onboarded
      BY <1>1, <2>1 DEF TurnChangeCohortStatus, Document
    <3>. QED
      BY <1>2, <2>1, <3>1 DEF TurnChangeCohortStatus
  <2>. QED
    BY <1>2, <1>4, <1>8, <2>1 DEF TurnAdmin, TurnSetUserStatus
<1>9. CASE TurnNoticeBlacklisted \/ NextHour
  BY <1>2, <1>4, <1>9 DEF TurnNoticeBlacklisted, NextHour, documents
<1>. QED
  BY <1>5, <1>6, <1>7, <1>8, <1>9 DEF Text

(* Every step keeps it.                                                    *)
LEMMA NextOnce ==
    ASSUME RunsKeepStatus, TreesInOrder, Types, Types', Steady, Turns, Forward, Once, [TurnNext]_vars
    PROVE  Once'
<1>1. CASE Hourly \/ TurnOnboarding \/ Outstanding \/ EndLoop
  BY <1>1, StartOnce, LoopOnce, Zenon DEF Hourly, TurnOnboarding, Outstanding
<1>2. CASE UNCHANGED vars
  <2>1. UNCHANGED <<now, user, execs, responses, pc, job>>
    BY <1>2 DEF vars
  <2>2. \A e \in Schedules : (AtRoot(e)' => AtRoot(e)) /\ (Welcome(e)' => Welcome(e))
    BY <2>1 DEF AtRoot, Welcome, Working, Running
  <2>. QED
    BY <2>1, <2>2, PeriodsKept DEF SameAsked
<1>. QED
  BY <1>1, <1>2, RunOnce, BetweenOnce DEF TurnNext

(* A new execution is in a period, too.                                    *)
LEMMA FirstPeriod ==
    ASSUME NEW s \in Calendar
    PROVE  InPeriod(MakeExecution(s, 0), s, 0)
<1>1. \A active \in BOOLEAN :
          LET n == NewPeriod(Blank, s, 0, active) IN n \in Execution(Questions) /\ InPeriod(n, s, 0)
  <2>1. Blank \in Execution(Questions) /\ Blank.start = 0
    BY DEF Execution, Blank
  <2>2. Due(s) \in Nat /\ 0 \in Nat
    BY DueType
  <2>3. s.subtype = "one_time" /\ 0 < Due(s) => Blank.start < Due(s)
    BY <2>1
  <2>. TAKE active \in BOOLEAN
  <2>. QED
    BY <2>1, <2>2, <2>3, NewInPeriod, NewPeriodType
<1>2. PICK n \in Execution(Questions) :
          InPeriod(n, s, 0) /\ MakeExecution(s, 0) = [n EXCEPT !.active = FALSE]
  BY <1>1, MakeExecutionType
<1>3. MakeExecution(s, 0).start = n.start /\ MakeExecution(s, 0).end = n.end
  BY <1>2 DEF Execution
<1>. QED
  BY <1>2, <1>3 DEF InPeriod

(* Nothing was asked to begin with.                                        *)
LEMMA InitOnce == Init => Once
<1>. SUFFICES ASSUME Init PROVE Once
  OBVIOUS
<1>1. ASSUME NEW e \in Schedules PROVE InPeriod(execs[e], Config[e], 0) /\ execs[e].state = None
  BY FirstPeriod, MakeExecutionType, EngineAssumption DEF Init
<1>2. DOMAIN responses = {} /\ now = 0
  BY DEF Init
<1>3. Calendars
  BY <1>1, <1>2 DEF Calendars
<1>. QED
  BY <1>1, <1>2, <1>3 DEF Once, Behind, FromRoot, NotAsked, AskedBefore, NoneYet
-----------------------------------------------------------------------------
(* The rest of TypeOK: the clock and the counters keep their bounds,       *)
Counters ==
    /\ now \in 0..MaxNow
    /\ polled \in BOOLEAN
    /\ unanswered \in 0..InactiveLimit
    /\ retries \in 0..ResendLimit

(* ... the custom attribute holds an answer, if anything,                  *)
Attribute == user.attribute \in Values

(* ... and what a handler leaves behind.                                   *)
Rests ==
    /\ pc \in {"idle", "outstanding"} => job.kind = None
    /\ agenda # <<>> => pc = "act"

Bounds == Counters /\ Attribute /\ Rests

(* What they are set to is in their bounds.                                *)
LEMMA CountsInBounds ==
    ASSUME Counters
    PROVE  /\ CountText \in 0..InactiveLimit /\ 0 \in 0..InactiveLimit /\ 0 \in 0..ResendLimit
           /\ \A s : CountAfter(user, s) \in 0..InactiveLimit
           /\ (IF InactiveLimit = 0 THEN 0 ELSE 1) \in 0..InactiveLimit
           /\ CanResend => retries + 1 \in 0..ResendLimit
  BY EngineAssumption DEF Counters, CountText, CountAfter, CanResend

(* Every step keeps the counters.                                          *)
LEMMA NextCounters == ASSUME Counters, [TurnNext]_vars PROVE Counters'
<1>1. ASSUME UNCHANGED <<now, polled>>, unanswered' \in 0..InactiveLimit, retries' \in 0..ResendLimit
      PROVE  Counters'
  BY <1>1 DEF Counters
<1>2. unanswered \in 0..InactiveLimit /\ retries \in 0..ResendLimit /\ now \in 0..MaxNow
  BY DEF Counters
<1>3. ASSUME UNCHANGED <<now, polled, unanswered, retries>> PROVE Counters'
  BY <1>1, <1>2, <1>3
<1>4. ASSUME NEW s, SetStatus(s), UNCHANGED <<now, polled, retries>> PROVE Counters'
  BY <1>1, <1>2, <1>4, CountsInBounds DEF SetStatus
<1>5. CASE TurnRun
  <2>1. CASE BeginRun \/ EndRun \/ TestConditional
    BY <1>3, <2>1, Zenon DEF BeginRun, EndRun, TestConditional, documents
  <2>2. CASE TurnSetAttribute \/ TurnSendMessage
    BY <1>3, <1>4, <2>2 DEF TurnSetAttribute, TurnSendMessage
  <2>3. CASE TurnSendQuestion
    <3>1. UNCHANGED <<now, polled>>
      BY <2>3 DEF TurnSendQuestion
    <3>2. unanswered' \in {CountText, unanswered, CountAfter(user, "disabled")} /\ retries' \in {0, retries}
      BY <2>3 DEF TurnSendQuestion
    <3>. QED
      BY <1>1, <1>2, <3>1, <3>2, CountsInBounds
  <2>4. CASE TurnResendQuestion
    <3>1. UNCHANGED <<now, polled>>
      BY <2>4 DEF TurnResendQuestion
    <3>2. unanswered' \in {CountText, unanswered, CountAfter(user, "disabled")} /\ retries' \in {0, retries}
      BY <2>4 DEF TurnResendQuestion
    <3>. QED
      BY <1>1, <1>2, <3>1, <3>2, CountsInBounds
  <2>. QED
    BY <1>5, <2>1, <2>2, <2>3, <2>4 DEF TurnRun
<1>6. CASE EveryHour
  <2>1. polled' = TRUE /\ UNCHANGED <<now, retries>> /\ unanswered' \in {unanswered, CountAfter(user, "inactive")}
    BY <1>6 DEF EveryHour, SetStatus
  <2>. QED
    BY <1>2, <2>1, CountsInBounds DEF Counters
<1>7. CASE Refresh \/ EndLoop \/ \E e \in Schedules : VisitPeriod(e)
  BY <1>3, <1>7, Zenon DEF Refresh, EndLoop, VisitPeriod, documents
<1>8. CASE TurnOnboarding \/ Outstanding
  BY <1>3, <1>8, Zenon DEF TurnOnboarding, Outstanding, TurnOnboard, VisitOnCreation, RunOutstanding, VisitOutstanding, documents
<1>9. CASE Text
  <2>1. CASE TextStop \/ TextStart
    BY <1>3, <1>4, <2>1 DEF TextStop, TextStart
  <2>2. CASE TextUnsolicited \/ TextUnexpected \/ \E a \in Answers \cup {Skip} : TextAnswer(a)
    <3>1. UNCHANGED <<now, polled, retries>> /\ (unanswered' = 0 \/ SetStatus("active"))
      BY <2>2 DEF TextUnsolicited, TextUnexpected, TextAnswer
    <3>. QED
      BY <1>1, <1>2, <1>4, <3>1, CountsInBounds
  <2>3. CASE TextInvalid
    <3>1. UNCHANGED <<now, polled>>
      BY <2>3 DEF TextInvalid
    <3>2. /\ unanswered' \in {0, IF InactiveLimit = 0 THEN 0 ELSE 1, CountAfter(user, "disabled")}
          /\ retries' = retries \/ (retries' = retries + 1 /\ CanResend)
      BY <2>3 DEF TextInvalid, SetStatus
    <3>. QED
      BY <1>1, <1>2, <3>1, <3>2, CountsInBounds
  <2>. QED
    BY <1>9, <2>1, <2>2, <2>3 DEF Text
<1>10. CASE TurnAdmin \/ TurnNoticeBlacklisted
  BY <1>3, <1>4, <1>10 DEF TurnAdmin, TurnChangeCohortStatus, TurnSetUserStatus, TurnNoticeBlacklisted
<1>11. CASE NextHour
  <2>1. now < MaxNow /\ now' = now + 1 /\ polled' = FALSE /\ UNCHANGED <<unanswered, retries>>
    BY <1>11 DEF NextHour, documents
  <2>2. now + 1 \in 0..MaxNow
    <3>1. MaxNow \in Nat
      BY EngineAssumption
    <3>. QED
      BY <1>2, <2>1, <3>1
  <2>. QED
    BY <1>2, <2>1, <2>2 DEF Counters
<1>12. CASE UNCHANGED vars
  BY <1>3, <1>12 DEF vars
<1>. QED
  BY <1>5, <1>6, <1>7, <1>8, <1>9, <1>10, <1>11, <1>12 DEF TurnNext, Hourly

(* Every step keeps the attribute, or sets it to a value.                  *)
LEMMA NextAttribute == ASSUME Types, Forward, Attribute, [TurnNext]_vars PROVE Attribute'
<1>1. user \in Document
  BY DEF Types, DocumentTypes
<1>2. CASE UNCHANGED user
  BY <1>2 DEF Attribute
<1>3. ASSUME NEW s, SetStatus(s) \/ user' = WithStatus(user, s) PROVE Attribute'
  <2>1. user'.attribute = user.attribute
    BY <1>1, <1>3 DEF SetStatus, WithStatus, Document
  <2>. QED
    BY <2>1 DEF Attribute
<1>4. ASSUME NEW v, \/ user' = [user EXCEPT !.current = v]
                    \/ user' = [user EXCEPT !.onboarded = v]
      PROVE  Attribute'
  <2>1. user'.attribute = user.attribute
    BY <1>1, <1>4 DEF Document
  <2>. QED
    BY <2>1 DEF Attribute
<1>5. CASE TurnSetAttribute
  <2>. DEFINE set == Assign[Head(agenda).node]
              answer == Head(agenda).answer
  <2>1. \/ UNCHANGED user
        \/ SetStatus(set.value)
        \/ /\ set.attribute # "status" /\ ~(set.value = "answer" /\ answer \in {None, Skip})
           /\ user' = [user EXCEPT !.attribute = IF set.value = "answer" THEN answer ELSE set.value]
    BY <1>5 DEF TurnSetAttribute
  <2>2. Head(agenda).node \in Setters /\ pc = "act" /\ agenda # <<>>
    BY <1>5 DEF TurnSetAttribute, Doing
  <2>3. answer \in Parsed
    <3>1. agenda \in Seq(Item)
      BY <2>2 DEF Forward, AgendaPlaced, AllAhead
    <3>2. Head(agenda) \in Item
      BY <2>2, <3>1
    <3>. QED
      BY <3>2 DEF Item
  <2>4. set.attribute # "status" => set.value \in Answers \cup {"answer"}
    BY <2>2, EngineAssumption
  <2>. HIDE DEF set, answer
  <2>5. CASE /\ set.attribute # "status" /\ ~(set.value = "answer" /\ answer \in {None, Skip})
             /\ user' = [user EXCEPT !.attribute = IF set.value = "answer" THEN answer ELSE set.value]
    <3>1. (IF set.value = "answer" THEN answer ELSE set.value) \in Answers
      BY <2>3, <2>4, <2>5 DEF Parsed
    <3>2. user'.attribute = IF set.value = "answer" THEN answer ELSE set.value
      BY <1>1, <2>5 DEF Document
    <3>. QED
      BY <3>1, <3>2 DEF Attribute, Values
  <2>. QED
    BY <1>2, <1>3, <2>1, <2>5
<1>6. CASE BeginRun \/ EndRun \/ TurnSendMessage \/ TestConditional \/ TurnSendQuestion \/ TurnResendQuestion
  BY <1>2, <1>3, <1>4, <1>6, Zenon DEF BeginRun, EndRun, TurnSendMessage, TestConditional, TurnSendQuestion, TurnResendQuestion, documents
<1>7. CASE Hourly \/ TurnOnboarding \/ Outstanding \/ EndLoop
  BY <1>2, <1>3, <1>4, <1>7, Zenon DEF Hourly, EveryHour, Refresh, VisitPeriod, TurnOnboarding, TurnOnboard, VisitOnCreation,
     Outstanding, RunOutstanding, VisitOutstanding, EndLoop, documents
<1>8. CASE Text
  BY <1>2, <1>3, <1>8 DEF Text, TextStop, TextStart, TextUnsolicited, TextInvalid, TextUnexpected, TextAnswer
<1>9. CASE TurnAdmin \/ TurnNoticeBlacklisted \/ NextHour
  BY <1>2, <1>3, <1>4, <1>9 DEF TurnAdmin, TurnChangeCohortStatus, TurnSetUserStatus, TurnNoticeBlacklisted, NextHour, documents
<1>10. CASE UNCHANGED vars
  BY <1>2, <1>10 DEF vars
<1>. QED
  BY <1>5, <1>6, <1>7, <1>8, <1>9, <1>10 DEF TurnNext, TurnRun

(* Every step leaves an agenda only to a run, and a handler to none.       *)
LEMMA NextRests == ASSUME Types, Types', Rests, [TurnNext]_vars PROVE Rests'
<1>0. /\ execs \in Copies
      /\ Running => job \in Local /\ job.kind \in Kinds /\ job.at \in Schedules /\ job.at \notin job.todo
                    /\ job.copies \in Copies
  BY DEF Types, DocumentTypes, JobTypes, Working
<1>1. CASE UNCHANGED <<pc, job, agenda>>
  BY <1>1 DEF Rests
<1>2. ASSUME pc' \notin {"idle", "outstanding", "act"}, UNCHANGED agenda, pc # "act" PROVE Rests'
  BY <1>2 DEF Rests
<1>3. NoJob.kind = None
  BY DEF NoJob
<1>4. CASE Stop
  BY <1>3, <1>4 DEF Stop, Rests
<1>5. CASE Fail
  BY <1>3, <1>5 DEF Fail, Stop, Rests
<1>6. ASSUME Running, NEW paused \in BOOLEAN, NEW c \in Copies, Return(paused, c) PROVE Rests'
  <2>1. pc' \in {"idle", "outstanding"} => job' = NoJob
    BY <1>0, <1>6, ReturnTypes, Zenon
  <2>2. agenda' = <<>>
    BY <1>6 DEF Return
  <2>. QED
    BY <1>3, <2>1, <2>2 DEF Rests
<1>7. ASSUME Running, NEW q \in Questions \cup {None}
      PROVE  [job.copies EXCEPT ![job.at] = Ended(@, q)] \in Copies
  <2>1. job.copies[job.at] \in Execution(Questions)
    BY <1>0, <1>7 DEF Copies
  <2>2. Ended(job.copies[job.at], q) \in Execution(Questions)
    BY <1>7, <2>1, EndedType
  <2>. QED
    BY <1>0, <1>7, <2>2 DEF Copies
<1>8. CASE BeginRun
  <2>1. pc = "run" /\ Running
    BY <1>8, Zenon DEF BeginRun, Running
  <2>2. \/ Return(FALSE, job.copies)
        \/ pc' = "resend" /\ agenda' = <<>>
        \/ pc' = "act"
    BY <1>8, Zenon DEF BeginRun
  <2>. QED
    BY <1>0, <1>6, <2>1, <2>2, Zenon DEF Rests
<1>9. CASE EndRun
  <2>1. pc = "act" /\ Running /\ Return(FALSE, [job.copies EXCEPT ![job.at] = Ended(@, None)])
    BY <1>9 DEF EndRun, Running
  <2>. QED
    BY <1>6, <1>7, <2>1
<1>10. CASE TurnSetAttribute \/ TurnSendMessage \/ TestConditional
  <2>1. pc = "act"
    BY <1>10, Zenon DEF TurnSetAttribute, TurnSendMessage, TestConditional, Doing
  <2>2. UNCHANGED <<pc, job>> \/ Fail
    BY <1>10, Zenon DEF TurnSetAttribute, TurnSendMessage, TestConditional
  <2>. QED
    BY <1>5, <2>1, <2>2 DEF Rests
<1>11. CASE TurnSendQuestion \/ TurnResendQuestion
  <2>1. pc \in {"act", "resend"} /\ Running
    BY <1>11 DEF TurnSendQuestion, TurnResendQuestion, Doing, Running
  <2>2. Fail \/ \E q \in Questions : \E db : Pause(q, db)
    <3>1. pc = "resend" => job.copies[job.at].state \in Questions
      BY DEF Types, JobTypes
    <3>2. ASSUME NEW q, \E outcome \in Outcomes : Pause(q, execs) \/ Pause(q, ClearedBy(user, "disabled")) \/ Fail
          PROVE  Fail \/ \E db : Pause(q, db)
      BY <3>2
    <3>3. CASE TurnSendQuestion
      BY <3>3 DEF TurnSendQuestion, Doing
    <3>4. CASE TurnResendQuestion
      BY <3>1, <3>4 DEF TurnResendQuestion
    <3>. QED
      BY <1>11, <3>3, <3>4
  <2>. QED
    BY <1>5, <1>6, <1>7, <2>1, <2>2 DEF Pause
<1>12. CASE EveryHour \/ TurnOnboard \/ RunOutstanding
  <2>1. pc # "act" /\ UNCHANGED agenda /\ (pc' = "loop" \/ UNCHANGED <<pc, job>>)
    BY <1>12 DEF EveryHour, TurnOnboard, RunOutstanding
  <2>. QED
    BY <1>1, <1>2, <2>1
<1>13. CASE Refresh \/ \E e \in Schedules : VisitPeriod(e) \/ VisitOnCreation(e) \/ VisitOutstanding(e)
  <2>1. pc # "act" /\ UNCHANGED agenda /\ pc' \in {"loop", "run", "refresh"}
    BY <1>13, Zenon DEF Refresh, VisitPeriod, VisitOnCreation, VisitOutstanding
  <2>. QED
    BY <1>2, <2>1
<1>14. CASE EndLoop
  BY <1>4, <1>14 DEF EndLoop
<1>15. CASE Text
  <2>1. pc = "idle" /\ UNCHANGED agenda /\ (pc' = "run" \/ UNCHANGED <<pc, job>>)
    BY <1>15, Zenon DEF Text, TextStop, TextStart, TextUnsolicited, TextInvalid, TextUnexpected, TextAnswer, GoOn
  <2>. QED
    BY <1>1, <1>2, <2>1
<1>16. CASE TurnAdmin \/ TurnNoticeBlacklisted \/ NextHour
  BY <1>1, <1>16 DEF TurnAdmin, TurnChangeCohortStatus, TurnSetUserStatus, TurnNoticeBlacklisted, NextHour
<1>17. CASE UNCHANGED vars
  BY <1>1, <1>17 DEF vars
<1>. QED
  BY <1>8, <1>9, <1>10, <1>11, <1>12, <1>13, <1>14, <1>15, <1>16, <1>17
     DEF TurnNext, TurnRun, Hourly, TurnOnboarding, Outstanding

(* The bounds, together.                                                   *)
LEMMA NextBounds == ASSUME Types, Types', Forward, Bounds, [TurnNext]_vars PROVE Bounds'
  BY NextCounters, NextAttribute, NextRests DEF Bounds

(* They hold to begin with.                                                *)
LEMMA InitBounds == Init => Bounds
<1>. SUFFICES ASSUME Init PROVE Bounds
  OBVIOUS
<1>1. Counters
  <2>1. InactiveLimit \in Nat /\ ResendLimit \in Nat /\ MaxNow \in Nat
    BY EngineAssumption
  <2>2. now = 0 /\ polled = FALSE /\ unanswered = 0 /\ retries = ResendLimit
    BY DEF Init
  <2>3. now \in 0..MaxNow /\ unanswered \in 0..InactiveLimit /\ retries \in 0..ResendLimit
    BY <2>1, <2>2
  <2>4. polled \in BOOLEAN
    BY <2>2, Zenon
  <2>. QED
    BY <2>3, <2>4 DEF Counters
<1>2. user.attribute = None
  BY DEF Init
<1>3. job.kind = None /\ pc = "idle" /\ agenda = <<>>
  BY DEF Init, NoJob
<1>. QED
  BY <1>1, <1>2, <1>3 DEF Bounds, Attribute, Values, Rests

(* What the steps keep, where runs keep the status and the trees are trees.*)
AskInvariant ==
    /\ Alone /\ Types /\ MissedQuestions
    /\ Steady /\ Turns /\ Forward /\ Once /\ Bounds

(* It gives the property.                                                  *)
LEMMA AskedOnce ==
    ASSUME TreesInOrder, AskInvariant
    PROVE  NoQuestionAskedTwice
<1>0. Alone /\ Types /\ MissedQuestions /\ Steady /\ Forward /\ Once /\ Bounds
  BY DEF AskInvariant
<1>1. TypeOK
  <2>1. now \in 0..MaxNow /\ polled \in BOOLEAN /\ unanswered \in 0..InactiveLimit /\ retries \in 0..ResendLimit
    BY <1>0 DEF Bounds, Counters
  <2>2. user \in UserType /\ cohortActive \in BOOLEAN
    BY <1>0 DEF Types, DocumentTypes, Document, UserType, Restorable, Bounds, Attribute
  <2>3. \A e \in Schedules :
            /\ execs[e].start \in Int /\ execs[e].end \in Int \cup {None}
            /\ execs[e].active \in BOOLEAN /\ execs[e].state \in Questions \cup {None}
    BY <1>0 DEF Types, DocumentTypes, Copies, Execution
  <2>4. \A i \in DOMAIN responses : responses[i] \in Response
    BY <1>0 DEF Types, DocumentTypes
  <2>5. None \notin Kinds
    BY EngineAssumption
  <2>6. pc \in {"idle", "loop", "run", "act", "resend", "refresh", "outstanding"}
        /\ ((pc \in {"idle", "outstanding"}) <=> (job.kind = None)) /\ (agenda # <<>> => pc = "act")
    BY <1>0, <2>5 DEF Types, JobTypes, Working, Running, Bounds, Rests
  <2>7. job \in JobType /\ NoJob \in JobType
    <3>1. NoJob \in JobType
      BY DEF NoJob, JobType, Parsed
    <3>. QED
      BY <1>0, <3>1 DEF Types, JobTypes, Local, JobType, Copies
  <2>8. ThreadTypes([pc |-> pc, job |-> job, agenda |-> agenda, loaded |-> loaded])
    <3>1. loaded = IF pc \in {"act", "resend"} THEN user ELSE None
      BY <1>0 DEF Alone, OneThread
    <3>. QED
      BY <2>2, <2>6, <2>7, <3>1 DEF ThreadTypes
  <2>9. ThreadTypes(other)
    <3>1. other = NoThread /\ NoJob.kind = None
      BY <1>0 DEF Alone, OneThread, NoJob
    <3>. QED
      BY <2>7, <3>1 DEF ThreadTypes, NoThread
  <2>10. pages \subseteq {"welcome", "clear"} /\ \A e \in Schedules : missed[e] \in Questions \cup {None}
    BY <1>0 DEF Alone, OneThread, MissedQuestions
  <2>. QED
    BY <2>1, <2>2, <2>3, <2>4, <2>8, <2>9, <2>10 DEF TypeOK, Response
<1>2. ASSUME Doing(Questions) PROVE Retrieve(Head(agenda).node, PeriodStart) = 0
  <2>1. pc = "act" /\ agenda # <<>>
    BY <1>2 DEF Doing
  <2>2. user.current = job.at /\ job.at \in Schedules /\ ~Has(responses, Head(agenda).node, execs[job.at].start)
    BY <1>0, <2>1, NotAskedYet
  <2>3. PeriodStart = execs[job.at].start
    BY <1>0, <2>1, <2>2, NoneApart DEF PeriodStart, Alone, OneThread
  <2>. QED
    BY <1>0, <2>2, <2>3, RetrieveFinds
<1>. QED
  BY <1>1, <1>2 DEF NoQuestionAskedTwice

(* They hold from the start.                                               *)
LEMMA InitAsk == Init => AskInvariant
  BY InitAlone, InitTypes, InitSteady, InitTurns, InitForward, InitOnce, InitBounds
     DEF AskInvariant, Init, MissedQuestions

(* Every step keeps what they keep.                                        *)
LEMMA NextAsk ==
    ASSUME ~Overlap, RunsKeepStatus, TreesInOrder, AskInvariant, [Next]_vars
    PROVE  AskInvariant' /\ [TurnNext]_vars
<1>1. /\ Alone /\ Types /\ NonActive /\ MissedQuestions /\ Steady /\ Turns /\ Forward /\ Once /\ Bounds
      /\ now \in Nat
  BY AloneRests DEF AskInvariant, Types, DocumentTypes
<1>2. Alone' /\ [TurnNext]_vars
  BY <1>1, OneThreadStep
<1>3. Types' /\ MissedQuestions'
  BY <1>1, <1>2, NextTypes, MissedBySending
<1>. QED
  BY <1>1, <1>2, <1>3, NextSteady, NextTurns, NextForward, NextOnce, NextBounds DEF AskInvariant

(* Over trees, of a handler that has the user to itself, whether or not    *)
(* texts are sent, and unless a run sets the user's status or learns of an *)
(* opt-out: no question is sent afresh when its period has a Response to   *)
(* it, so that Response.store never warns; in every state, which has its   *)
(* types (NoQuestionAskedTwice).                                           *)
THEOREM NoQuestionIsAskedTwice ==
    ASSUME ~Overlap, RunsKeepStatus, TreesInOrder
    PROVE  Spec => []NoQuestionAskedTwice
<1>1. AskInvariant /\ [Next]_vars => AskInvariant'
  BY NextAsk
<1>2. AskInvariant => NoQuestionAskedTwice
  BY AskedOnce
<1>. QED
  BY <1>1, <1>2, InitAsk, PTL DEF Spec
-----------------------------------------------------------------------------
(* A run that takes the answer of the user to execution e.                 *)
Answering(e) == pc \in {"run", "act"} /\ job.at = e /\ job.kind = "reply"

Awaits(e) == execs[e].state # None /\ ~Expired(execs[e], now) /\ ~Answering(e)

(* A question that an execution waits at has no answer yet, but while its  *)
(* answer is under way.                                                    *)
Open ==
    \A e \in Schedules : Awaits(e) =>
        \A i \in DOMAIN responses :
            responses[i].question = execs[e].state /\ responses[i].start = execs[e].start
                => responses[i].answer = None

(* An answer is under way until its run is over.                           *)
ReplyRuns == Working /\ job.kind = "reply" => pc \in {"run", "act"} /\ ~job.resend

(* The inductive invariant of AnswersStand.                                *)
Pending == Open /\ ReplyRuns

(* Steps that leave the responses, and the executions that wait.           *)
LEMMA PendingKept ==
    ASSUME Pending, UNCHANGED responses, ReplyRuns',
           \A e \in Schedules :
               Awaits(e)' => Awaits(e) /\ execs'[e].state = execs[e].state /\ execs'[e].start = execs[e].start
    PROVE  Pending'
<1>1. Open'
  BY DEF Pending, Open
<1>. QED
  BY <1>1 DEF Pending

(* The run that takes an answer goes on, but for an expired execution.     *)
LEMMA BeginRunAnswers ==
    ASSUME Types, UpToDate, ReplyRuns, BeginRun, job.kind = "reply"
    PROVE  \/ pc' = "act" /\ UNCHANGED job
           \/ pc' \in {"idle", "outstanding"} /\ Expired(execs[job.at], now)
<1>1. /\ pc = "run" /\ job.copies = execs /\ IsActive /\ ~job.resend
  BY Zenon DEF BeginRun, UpToDate, Working, Running, ReplyRuns
<1>2. CASE Return(FALSE, job.copies) /\ Expired(job.copies[job.at], now)
  <2>1. pc' \in {"idle", "outstanding"}
    BY <1>2 DEF Return
  <2>. QED
    BY <1>1, <1>2, <2>1
<1>3. CASE pc' = (IF job.copies[job.at].state # None /\ job.resend THEN "resend" ELSE "act") /\ UNCHANGED job
  BY <1>1, <1>3
<1>. QED
  BY <1>1, <1>2, <1>3, Zenon DEF BeginRun

(* A new question has no answer, and it is the only response to it.        *)
LEMMA SendQuestionPending ==
    ASSUME RunsKeepStatus, "error" \notin Outcomes, TreesInOrder, Types, Steady, Forward, Once, Pending,
           TurnSendQuestion
    PROVE  Pending'
<1>. DEFINE e == job.at
            q == Head(agenda).node
<1>1. /\ UNCHANGED <<now, user>> /\ pc = "act" /\ Working /\ e \in Schedules /\ execs \in Copies /\ user.current = e
      /\ q \in Questions /\ execs' = [execs EXCEPT ![e] = Ended(@, q)] /\ agenda # <<>>
      /\ responses' \in {responses, TurnStored(q)}
      /\ pc' \in {"idle", "loop", "refresh"}
      /\ Working' => job'.kind = job.kind /\ job'.at = e
      /\ Pause(q, execs)
  BY QuestionStep DEF TurnSendQuestion, Doing, Waits
<1>2. InTree(e, q) /\ ~Has(responses, q, execs[e].start)
  BY <1>1, NotAskedYet
<1>3. \A f \in Schedules \ {e} : ~Answering(f)
  BY DEF Answering
<1>4. ReplyRuns'
  <2>1. job.kind = "reply" => pc' \in {"idle", "outstanding"}
    <3>1. \E db, c : Return(TRUE, c)
      BY <1>1 DEF Pause
    <3>. QED
      BY <3>1 DEF Return
  <2>. QED
    BY <1>1, <2>1 DEF ReplyRuns, Working, Running
<1>. HIDE DEF e, q
<1>5. e # None /\ q # None /\ responses \in Seq(Response) /\ execs[e] \in Execution(Questions)
  BY <1>1, NoneApart DEF Types, DocumentTypes, Copies
<1>6. \/ UNCHANGED responses
      \/ responses' = Append(responses, [question |-> q, start |-> execs[e].start, answer |-> None])
  BY <1>1, <1>2, <1>5, RetrieveFinds DEF TurnStored, TurnPeriodStart
<1>7. \A i \in DOMAIN responses' :
          IF i \in DOMAIN responses THEN responses'[i] = responses[i] ELSE responses'[i].answer = None
  BY <1>5, <1>6
<1>8. /\ execs'[e].state = q /\ execs'[e].start = execs[e].start
      /\ \A f \in Schedules \ {e} : execs'[f] = execs[f]
  BY <1>1, <1>5, EndedType DEF Copies
<1>9. ASSUME NEW f \in Schedules, Awaits(f)', NEW i \in DOMAIN responses',
             responses'[i].question = execs'[f].state, responses'[i].start = execs'[f].start
      PROVE  responses'[i].answer = None
  <2>1. CASE i \notin DOMAIN responses
    BY <1>7, <2>1
  <2>2. CASE i \in DOMAIN responses /\ f = e
    BY <1>2, <1>7, <1>8, <1>9, <2>2 DEF Has
  <2>3. CASE i \in DOMAIN responses /\ f # e
    <3>1. Awaits(f)
      BY <1>1, <1>3, <1>8, <1>9, <2>3 DEF Awaits
    <3>. QED
      BY <1>7, <1>8, <1>9, <2>3, <3>1 DEF Pending, Open
  <2>. QED
    BY <2>1, <2>2, <2>3
<1>. QED
  BY <1>4, <1>9 DEF Pending, Open

(* The runs.                                                               *)
LEMMA RunPending ==
    ASSUME RunsKeepStatus, "error" \notin Outcomes, TreesInOrder, Types, Types', Steady, Forward, Once, Pending,
           TurnRun
    PROVE  Pending'
<1>0. UpToDate /\ execs \in Copies /\ ReplyRuns
  BY DEF Steady, Types, DocumentTypes, Pending
<1>1. CASE BeginRun
  <2>1. /\ UNCHANGED <<now, execs, responses>> /\ pc = "run" /\ Working
        /\ Working' => job'.kind = job.kind /\ job'.at = job.at
    BY <1>0, <1>1, BeginRunStep
  <2>2. job.kind = "reply" =>
            \/ pc' = "act" /\ UNCHANGED job
            \/ pc' \in {"idle", "outstanding"} /\ Expired(execs[job.at], now)
    BY <1>0, <1>1, BeginRunAnswers
  <2>3. ReplyRuns'
    BY <1>0, <2>1, <2>2 DEF ReplyRuns, Working, Running
  <2>4. \A e \in Schedules : Awaits(e)' => Awaits(e)
    BY <2>1, <2>2 DEF Awaits, Answering
  <2>. QED
    BY <2>1, <2>3, <2>4, PendingKept
<1>2. CASE TurnSetAttribute \/ TurnSendMessage \/ TestConditional
  <2>1. UNCHANGED <<now, execs, responses, pc, job>>
    BY <1>2, ActionStep
  <2>2. ReplyRuns'
    BY <1>0, <2>1 DEF ReplyRuns, Working, Running
  <2>3. \A e \in Schedules : Awaits(e)' => Awaits(e)
    BY <2>1 DEF Awaits, Answering
  <2>. QED
    BY <2>1, <2>2, <2>3, PendingKept
<1>3. CASE EndRun
  <2>1. /\ UNCHANGED <<now, responses>> /\ pc = "act" /\ Working /\ job.at \in Schedules
        /\ execs' = [execs EXCEPT ![job.at] = Ended(@, None)]
        /\ Working' => job'.kind = job.kind
    BY <1>0, <1>3, EndRunStep
  <2>2. job.kind = "reply" => pc' \in {"idle", "outstanding"}
    BY <1>3 DEF EndRun, Return
  <2>3. ReplyRuns'
    BY <2>1, <2>2 DEF ReplyRuns, Working, Running
  <2>4. execs'[job.at].state = None /\ \A e \in Schedules \ {job.at} : execs'[e] = execs[e]
    BY <1>0, <2>1 DEF Ended, Copies, Execution
  <2>5. \A e \in Schedules :
            Awaits(e)' => Awaits(e) /\ execs'[e].state = execs[e].state /\ execs'[e].start = execs[e].start
    BY <2>1, <2>4 DEF Awaits, Answering
  <2>. QED
    BY <2>1, <2>3, <2>5, PendingKept
<1>4. CASE TurnResendQuestion
  <2>. DEFINE q == execs[job.at].state
  <2>1. /\ UNCHANGED <<now, responses>> /\ pc = "resend" /\ Working /\ job.at \in Schedules
        /\ q \in Questions /\ execs' = [execs EXCEPT ![job.at] = Ended(@, q)]
        /\ pc' \in {"idle", "loop", "refresh"}
        /\ Working' => job'.kind = job.kind
    BY <1>4, QuestionStep DEF TurnResendQuestion, Waits
  <2>2. /\ execs'[job.at] = Ended(execs[job.at], q) /\ execs[job.at] \in Execution(Questions)
        /\ \A e \in Schedules \ {job.at} : execs'[e] = execs[e]
    BY <1>0, <2>1 DEF Copies
  <2>. HIDE DEF q
  <2>3. /\ execs'[job.at].start = execs[job.at].start /\ execs'[job.at].end = execs[job.at].end
        /\ execs'[job.at].state = q
    BY <2>1, <2>2, EndedType
  <2>4. ReplyRuns'
    BY <1>0, <2>1 DEF ReplyRuns, Working, Running
  <2>5. \A e \in Schedules :
            Awaits(e)' => Awaits(e) /\ execs'[e].state = execs[e].state /\ execs'[e].start = execs[e].start
    BY <2>1, <2>2, <2>3 DEF Awaits, Answering, Expired, q
  <2>. QED
    BY <2>1, <2>4, <2>5, PendingKept
<1>. QED
  BY <1>1, <1>2, <1>3, <1>4, SendQuestionPending DEF TurnRun

(* The handlers outside of runs.                                           *)
LEMMA HandlerPending ==
    ASSUME Types, Types', Steady, Once, Pending, Hourly \/ TurnOnboarding \/ Outstanding \/ EndLoop
    PROVE  Pending'
<1>0. execs \in Copies /\ now \in Nat /\ ReplyRuns /\ (pc = "refresh" => job.kind = "hour")
      /\ (Working => job.copies = execs)
  BY DEF Types, DocumentTypes, JobTypes, Pending, Steady, UpToDate
<1>1. ASSUME pc \notin {"run", "act"}, UNCHANGED <<now, responses>>,
             Working' /\ job'.kind = "reply" => Working /\ job.kind = "reply",
             \A e \in Schedules : execs'[e].state # None =>
                 execs'[e].state = execs[e].state /\ execs'[e].start = execs[e].start /\ execs'[e].end = execs[e].end
      PROVE  Pending'
  <2>1. ReplyRuns'
    BY <1>0, <1>1 DEF ReplyRuns
  <2>2. \A e \in Schedules : Awaits(e)' => Awaits(e)
    BY <1>1 DEF Awaits, Answering, Expired
  <2>. QED
    BY <1>1, <2>1, <2>2, PendingKept DEF Awaits
<1>2. CASE EveryHour
  <2>1. /\ pc = "idle" /\ UNCHANGED <<now, responses>> /\ (execs' = execs \/ execs' = Cleared)
        /\ UNCHANGED <<pc, job>> \/ job' = Job("hour", Schedules)
    BY <1>2 DEF EveryHour, SetStatus, ClearedBy
  <2>2. Job("hour", Schedules).kind = "hour"
    BY <1>0, NewJob DEF Kinds
  <2>. QED
    BY <1>0, <1>1, <2>1, <2>2, ClearedPeriods DEF Working, Running
<1>3. CASE TurnOnboard
  <2>. DEFINE todo == {e \in Schedules : Config[e].subtype = "on_user_creation"}
  <2>1. pc = "idle" /\ UNCHANGED <<now, responses, execs>> /\ job' = Job("onboard", todo)
    BY <1>3 DEF TurnOnboard
  <2>2. Job("onboard", todo).kind = "onboard"
    BY <1>0, NewJob DEF Kinds
  <2>. QED
    BY <1>1, <2>1, <2>2
<1>4. CASE RunOutstanding
  <2>. DEFINE todo == {e \in Schedules : execs[e].active}
  <2>1. pc = "outstanding" /\ UNCHANGED <<now, responses, execs>> /\ job' = Job("outstanding", todo)
    BY <1>4 DEF RunOutstanding, documents
  <2>2. Job("outstanding", todo).kind = "outstanding"
    BY <1>0, NewJob DEF Kinds
  <2>. QED
    BY <1>1, <2>1, <2>2
<1>5. CASE EndLoop
  <2>1. pc = "loop" /\ pc' = "idle" /\ UNCHANGED <<now, responses, execs>>
    BY <1>5 DEF EndLoop, Stop, documents
  <2>. QED
    BY <1>1, <2>1 DEF Working, Running
<1>6. CASE Refresh
  <2>1. /\ UNCHANGED <<now, responses>> /\ pc = "refresh" /\ job.at \in Schedules /\ job'.kind = "hour"
        /\ \E saved \in Execution(Questions) :
               /\ execs' = [execs EXCEPT ![job.at] = saved]
               /\ saved = execs[job.at] \/ saved = NewPeriod(execs[job.at], Config[job.at], now, FALSE)
               /\ job.copies[job.at].active => saved = execs[job.at]
    BY <1>6, RefreshStep
  <2>2. PICK e \in Schedules : e = job.at
    BY <2>1
  <2>3. PICK saved \in Execution(Questions) :
               /\ execs' = [execs EXCEPT ![e] = saved]
               /\ saved = execs[e] \/ (saved = NewPeriod(execs[e], Config[e], now, FALSE) /\ ~execs[e].active)
    BY <1>0, <2>1, <2>2 DEF Working, Running
  <2>4. execs'[e] = saved /\ \A f \in Schedules \ {e} : execs'[f] = execs[f]
    BY <1>0, <2>3 DEF Copies
  <2>5. CASE saved # execs[e]
    <3>1. execs[e].state = None /\ execs[e] \in Execution(Questions) /\ Config[e] \in Calendar
      BY <1>0, <2>3, <2>5, EngineAssumption DEF Steady, Copies
    <3>2. saved.state = None
      <4>1. \A active \in BOOLEAN : NewPeriod(execs[e], Config[e], now, active).state = None
        BY <1>0, <3>1, NewPeriodKeeps
      <4>. QED
        BY <2>3, <2>5, <4>1
    <3>. QED
      BY <1>1, <2>1, <2>4, <3>2
  <2>6. CASE saved = execs[e]
    BY <1>1, <2>1, <2>4, <2>6
  <2>. QED
    BY <2>5, <2>6
<1>7. ASSUME NEW e \in Schedules, VisitPeriod(e) PROVE Pending'
  <2>1. /\ UNCHANGED <<now, responses>> /\ pc = "loop" /\ job'.kind = "hour"
        /\ \E kept \in Execution(Questions), saved \in Execution(Questions) :
                  /\ kept.start = PeriodSet(e).start /\ kept.end = PeriodSet(e).end
                  /\ kept.state = PeriodSet(e).state
                  /\ execs' = [execs EXCEPT ![e] = saved]
                  /\ job.copies[e] = execs[e] => saved = kept
    BY <1>7, VisitPeriodStep, Zenon
  <2>2. /\ job.copies = execs /\ execs[e] \in Execution(Questions) /\ Config[e] \in Calendar
        /\ InPeriod(execs[e], Config[e], now)
    BY <1>0, <2>1, EngineAssumption DEF Working, Copies, Once, Calendars
  <2>3. /\ execs'[e].start = PeriodSet(e).start /\ execs'[e].end = PeriodSet(e).end
        /\ execs'[e].state = PeriodSet(e).state
        /\ \A f \in Schedules \ {e} : execs'[f] = execs[f]
    BY <1>0, <2>1, <2>2 DEF Copies
  <2>4. CASE Resets(execs[e], now, FALSE)
    <3>1. \A active \in BOOLEAN : NewPeriod(execs[e], Config[e], now, active).state = None
      BY <1>0, <2>2, <2>4, PeriodOver
    <3>2. PeriodSet(e) = NewPeriod(execs[e], Config[e], now, ~FALSE)
      BY <2>2, <2>4 DEF PeriodSet, SetPeriod
    <3>3. execs'[e].state = None
      BY <2>3, <3>1, <3>2
    <3>. QED
      BY <1>1, <2>1, <2>3, <3>3
  <2>5. CASE ~Resets(execs[e], now, FALSE)
    <3>1. PeriodSet(e) = execs[e]
      BY <2>2, <2>5 DEF PeriodSet, SetPeriod
    <3>. QED
      BY <1>1, <2>1, <2>3, <3>1
  <2>. QED
    BY <2>4, <2>5
<1>8. ASSUME NEW e \in Schedules, VisitOnCreation(e) PROVE Pending'
  <2>1. /\ UNCHANGED <<now, responses>> /\ pc = "loop" /\ job'.kind = "onboard"
        /\ execs' = [execs EXCEPT ![e] = [execs[e] EXCEPT !.active = TRUE]]
    BY <1>8, VisitOnCreationStep
  <2>2. \A f \in Schedules : /\ execs'[f].start = execs[f].start /\ execs'[f].end = execs[f].end
                             /\ execs'[f].state = execs[f].state
    BY <1>0, <2>1 DEF Copies, Execution
  <2>. QED
    BY <1>1, <2>1, <2>2
<1>9. ASSUME NEW e \in Schedules, VisitOutstanding(e) PROVE Pending'
  <2>1. UNCHANGED <<now, execs, responses>> /\ pc = "loop" /\ job'.kind = "outstanding"
    BY <1>9, VisitOutstandingStep
  <2>. QED
    BY <1>1, <2>1
<1>. QED
  BY <1>2, <1>3, <1>4, <1>5, <1>6, <1>7, <1>8, <1>9 DEF Hourly, TurnOnboarding, Outstanding

(* The Response that a text answers is one to the question asked.          *)
LEMMA AskedResponseOf ==
    ASSUME Types, Answerable
    PROVE  /\ AskedResponse \in DOMAIN responses
           /\ responses[AskedResponse].question = Asked
           /\ responses[AskedResponse].start = execs[user.current].start
<1>. DEFINE found == {i \in DOMAIN responses : responses[i].question = Asked
                                               /\ responses[i].start = execs[user.current].start}
<1>1. found # {} /\ AskedResponse = Min(found)
  BY DEF Answerable, Retrieve, AskedResponse
<1>2. found \subseteq Nat
  BY DEF Types, DocumentTypes
<1>3. AskedResponse \in found
  BY <1>1, <1>2, LeastIsMember
<1>. QED
  BY <1>3

(* An answer is one to the question its execution waits at alone, and is   *)
(* under way from then on.                                                 *)
LEMMA AnswerPending ==
    ASSUME TreesInOrder, Types, Forward, Pending, pc = "idle", UNCHANGED <<now, execs>>,
           Solicited, Answerable, NEW a \in Parsed, GoOn(a),
           \/ UNCHANGED responses
           \/ \E v : responses' = [responses EXCEPT ![AskedResponse].answer = v]
    PROVE  Pending'
<1>1. /\ user.current \in Schedules /\ execs[user.current].state = Asked /\ Asked # None
      /\ responses \in Seq(Response) /\ execs \in Copies
  BY DEF Types, DocumentTypes, Document, Solicited, Answerable, Asked
<1>2. PICK c \in Schedules : c = user.current
  BY <1>1
<1>3. pc' = "run" /\ job'.at = c /\ job'.kind = "reply" /\ ~job'.resend
  <2>1. pc' = "run" /\ job'.at = c /\ job'.kind = "reply"
    BY <1>2, GoOnStep
  <2>2. "reply" \in Kinds /\ {} \in SUBSET Schedules
    BY DEF Kinds
  <2>3. Job("reply", {}) \in Local /\ ~Job("reply", {}).resend
    BY <1>1, <2>2, NewJob
  <2>4. ~job'.resend
    BY <2>3 DEF GoOn, Local
  <2>. QED
    BY <2>1, <2>4
<1>4. ReplyRuns'
  BY <1>3 DEF ReplyRuns
<1>5. \A i \in DOMAIN responses' : i \in DOMAIN responses /\
          (responses'[i] = responses[i] \/ (i = AskedResponse /\ responses'[i].question = Asked))
  <2>1. AskedResponse \in DOMAIN responses /\ responses[AskedResponse].question = Asked
        /\ responses[AskedResponse] \in Response
    BY <1>1, AskedResponseOf
  <2>. QED
    BY <1>1, <2>1 DEF Response
<1>6. ASSUME NEW f \in Schedules, Awaits(f)', NEW i \in DOMAIN responses',
             responses'[i].question = execs'[f].state, responses'[i].start = execs'[f].start
      PROVE  responses'[i].answer = None
  <2>1. f # c /\ Awaits(f)
    BY <1>3, <1>6 DEF Awaits, Answering
  <2>2. InTree(f, execs[f].state) /\ InTree(c, Asked)
    BY <1>1, <1>2, <2>1 DEF Forward, Placed, Awaits
  <2>3. execs[f].state # Asked
    BY <2>1, <2>2 DEF TreesInOrder, InTree
  <2>4. i \in DOMAIN responses /\ responses'[i] = responses[i]
    BY <1>5, <1>6, <2>3
  <2>. QED
    BY <1>6, <2>1, <2>4 DEF Pending, Open
<1>. QED
  BY <1>4, <1>6 DEF Pending, Open

(* Texts, pages and the clock.                                             *)
LEMMA BetweenPending ==
    ASSUME TreesInOrder, Types, Forward, Pending, Text \/ TurnAdmin \/ TurnNoticeBlacklisted \/ NextHour
    PROVE  Pending'
<1>1. /\ execs \in Copies /\ pc = "idle" /\ now \in Nat
      /\ \A e \in Schedules : execs[e].end \in Int \cup {None}
  BY DEF Types, DocumentTypes, Copies, Execution, Text, TextStop, TextStart, TextUnsolicited, TextInvalid,
         TextUnexpected, TextAnswer, TurnAdmin, TurnChangeCohortStatus, TurnSetUserStatus, TurnNoticeBlacklisted, NextHour
<1>2. ASSUME execs' = execs \/ execs' = Cleared, UNCHANGED <<pc, responses>>, now' \in {now, now + 1}
      PROVE  Pending'
  <2>1. ReplyRuns'
    BY <1>1, <1>2 DEF ReplyRuns, Working, Running
  <2>2. \A e \in Schedules : execs'[e].start = execs[e].start /\ execs'[e].end = execs[e].end
                             /\ execs'[e].state \in {None, execs[e].state}
    BY <1>1, <1>2, ClearedPeriods
  <2>3. \A e \in Schedules : Awaits(e)' => Awaits(e)
    BY <1>1, <1>2, <2>2 DEF Awaits, Answering, Expired
  <2>. QED
    BY <1>2, <2>1, <2>2, <2>3, PendingKept DEF Awaits
<1>3. ASSUME NEW s, SetStatus(s) PROVE execs' = execs \/ execs' = Cleared
  BY <1>3 DEF SetStatus, ClearedBy
<1>4. CASE TextStop \/ TextStart \/ TextUnsolicited \/ TextUnexpected
  BY <1>2, <1>3, <1>4 DEF TextStop, TextStart, TextUnsolicited, TextUnexpected
<1>5. CASE TextInvalid
  <2>1. /\ (execs' = execs \/ execs' = Cleared) /\ UNCHANGED now /\ Solicited /\ Answerable
        /\ \/ UNCHANGED responses
           \/ responses' = [responses EXCEPT ![AskedResponse].answer = LimitReached]
        /\ \/ UNCHANGED <<pc, job>>
           \/ GoOn(None) /\ UNCHANGED <<user, execs>>
    BY <1>3, <1>5, TextInvalidStep
  <2>2. None \in Parsed
    BY DEF Parsed
  <2>3. CASE UNCHANGED <<pc, job>>
    <3>1. UNCHANGED responses
      BY <1>1, <1>5, <2>3 DEF TextInvalid, GoOn
    <3>. QED
      BY <1>2, <2>1, <2>3, <3>1
  <2>4. CASE GoOn(None) /\ UNCHANGED <<user, execs>>
    BY <1>1, <2>1, <2>2, <2>4, AnswerPending
  <2>. QED
    BY <2>1, <2>3, <2>4
<1>6. ASSUME NEW a \in Answers \cup {Skip}, TextAnswer(a) PROVE Pending'
  <2>1. a \in Parsed
    BY DEF Parsed
  <2>. QED
    BY <1>1, <1>6, <2>1, TextAnswerStep, AnswerPending
<1>7. CASE TurnAdmin
  BY <1>2, <1>3, <1>7 DEF TurnAdmin, TurnChangeCohortStatus, TurnSetUserStatus
<1>8. CASE TurnNoticeBlacklisted \/ NextHour
  BY <1>2, <1>3, <1>8 DEF TurnNoticeBlacklisted, NextHour, documents
<1>. QED
  BY <1>4, <1>5, <1>6, <1>7, <1>8 DEF Text

(* Every step keeps it.                                                    *)
LEMMA NextPending ==
    ASSUME RunsKeepStatus, "error" \notin Outcomes, TreesInOrder, Types, Types', Steady, Forward, Once, Pending,
           [TurnNext]_vars
    PROVE  Pending'
<1>1. CASE UNCHANGED vars
  <2>1. UNCHANGED <<now, execs, responses, pc, job>>
    BY <1>1 DEF vars
  <2>2. ReplyRuns' /\ \A e \in Schedules : Awaits(e)' => Awaits(e)
    BY <2>1 DEF Pending, ReplyRuns, Working, Running, Awaits, Answering
  <2>. QED
    BY <2>1, <2>2, PendingKept
<1>. QED
  BY <1>1, RunPending, HandlerPending, BetweenPending DEF TurnNext

(* No execution waits to begin with.                                       *)
LEMMA InitPending == Init => Pending
  BY DEF Init, Pending, Open, ReplyRuns, Working, Running

(* Only a text changes an answer, and only the one that is awaited, which  *)
(* has none unless its execution has expired.                              *)
LEMMA AnswersKept ==
    ASSUME Types, Pending, [TurnNext]_vars, NEW i \in DOMAIN responses,
           responses[i].answer # None, responses'[i].answer # responses[i].answer
    PROVE  Expired(execs[user.current], now)
<1>0. responses \in Seq(Response)
  BY DEF Types, DocumentTypes
<1>1. responses' # responses
  OBVIOUS
<1>2. ASSUME pc = "idle", Solicited, Answerable,
             \E v : responses' = [responses EXCEPT ![AskedResponse].answer = v]
      PROVE  Expired(execs[user.current], now)
  <2>1. /\ AskedResponse \in DOMAIN responses
        /\ responses[AskedResponse].question = Asked
        /\ responses[AskedResponse].start = execs[user.current].start
    BY <1>2, AskedResponseOf
  <2>2. i = AskedResponse
    BY <1>0, <1>2, <2>1
  <2>3. user.current \in Schedules /\ execs[user.current].state = Asked /\ Asked # None
    BY <1>2 DEF Types, DocumentTypes, Document, Solicited, Answerable, Asked
  <2>4. ~Answering(user.current)
    BY <1>2 DEF Answering
  <2>. QED
    BY <2>1, <2>2, <2>3, <2>4 DEF Pending, Open, Awaits
<1>3. CASE TextInvalid \/ \E a \in Answers \cup {Skip} : TextAnswer(a)
  BY <1>1, <1>2, <1>3 DEF TextInvalid, TextAnswer
<1>4. CASE TurnSendQuestion
  <2>1. \E q : responses' = TurnStored(q) \/ responses' = responses
    BY <1>4 DEF TurnSendQuestion
  <2>2. PICK q : responses' = Append(responses, [question |-> q, start |-> TurnPeriodStart, answer |-> None])
    BY <1>1, <2>1 DEF TurnStored
  <2>. QED
    BY <1>0, <2>2
<1>5. UNCHANGED responses \/ TurnSendQuestion \/ TextInvalid \/ \E a \in Answers \cup {Skip} : TextAnswer(a)
  <2>1. TurnRun => UNCHANGED responses \/ TurnSendQuestion
    BY Zenon DEF TurnRun, BeginRun, EndRun, TurnSetAttribute, TurnSendMessage, TestConditional, TurnResendQuestion, documents
  <2>2. Hourly \/ TurnOnboarding \/ Outstanding \/ EndLoop => UNCHANGED responses
    BY Zenon DEF Hourly, EveryHour, Refresh, VisitPeriod, TurnOnboarding, TurnOnboard, VisitOnCreation,
           Outstanding, RunOutstanding, VisitOutstanding, EndLoop, documents
  <2>3. Text => UNCHANGED responses \/ TextInvalid \/ \E a \in Answers \cup {Skip} : TextAnswer(a)
    BY DEF Text, TextStop, TextStart, TextUnsolicited, TextUnexpected
  <2>4. TurnAdmin \/ TurnNoticeBlacklisted \/ NextHour \/ UNCHANGED vars => UNCHANGED responses
    BY DEF TurnAdmin, TurnChangeCohortStatus, TurnSetUserStatus, TurnNoticeBlacklisted, NextHour, documents, vars
  <2>. QED
    BY <2>1, <2>2, <2>3, <2>4 DEF TurnNext
<1>. QED
  BY <1>1, <1>3, <1>4, <1>5

(* Under the same conditions, where moreover no exception ends a run: a    *)
(* later text overwrites an answer only for an execution that has expired  *)
(* (AnswersStand).  The question an execution waits at is one it has just  *)
(* asked, and which has no answer but the one under way.                   *)
THEOREM AnswersAreKept ==
    ASSUME ~Overlap, RunsKeepStatus, "error" \notin Outcomes, TreesInOrder
    PROVE  Spec => AnswersStand
<1>1. Init => AskInvariant /\ Pending
  BY InitAsk, InitPending
<1>2. AskInvariant /\ Pending /\ [Next]_vars => AskInvariant' /\ Pending'
  <2>. SUFFICES ASSUME AskInvariant, Pending, [Next]_vars PROVE AskInvariant' /\ Pending'
    OBVIOUS
  <2>1. AskInvariant' /\ [TurnNext]_vars
    BY NextAsk
  <2>. QED
    BY <2>1, NextPending DEF AskInvariant
<1>3. AskInvariant /\ Pending /\ [Next]_vars =>
          \A i \in DOMAIN responses :
              responses[i].answer # None /\ responses'[i].answer # responses[i].answer
                  => Expired(execs[user.current], now)
  BY NextAsk, AnswersKept DEF AskInvariant
<1>. QED
  BY <1>1, <1>2, <1>3, PTL DEF Spec, AnswersStand
=============================================================================
