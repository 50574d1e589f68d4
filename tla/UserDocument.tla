----------------------------- MODULE UserDocument -----------------------------
(***************************************************************************)
(* The User document in the database and the copies of it that the hourly  *)
(* job, the handlers of texts, administrator pages and onboarding threads  *)
(* have in memory.  update writes one field; save, and set_status with it  *)
(* (database/tracking/users.py:159), write the whole copy.      *)
(*                                                                         *)
(* The hourly job and the texts take the UserLock of the number (module    *)
(* UserLock), but the job loads the user before it does, and pages and     *)
(* onboarding take no lock.  A step is what lies between a load, a text    *)
(* being sent (five seconds of sleep and a call of Twilio) and a save.     *)
(* Of the document only the fields that decide who is written to appear.   *)
(***************************************************************************)
CONSTANTS
    None,
    Hours,          \* threads of the hourly job
    Texts,          \* handlers of incoming texts
    Pages,          \* requests of administrators
    Onboards,       \* onboarding threads: the bound on those that run at a time
    InitialStatuses \* statuses the user may be created with

Procs == Hours \cup Texts \cup Pages \cup Onboards
Statuses == {"active", "paused", "completed", "inactive", "disabled", "pending", "deleted"}

VARIABLES
    doc,     \* the document
    copy,    \* the copy each process has in memory, None for none
    pc,      \* where each process is
    lock,    \* the process that has the UserLock, or None
    optedOut \* whether the last control word of the user was a stop word

vars == <<doc, copy, pc, lock, optedOut>>

(* last is the latest entry of status_log, restore the latest that START   *)
(* goes back to from disabled.                                             *)
Docs == [status : Statuses, last : Statuses,
         restore : {"active", "paused", "completed", "deleted", None}, onboarded : BOOLEAN]

ASSUME DocumentAssumption ==
    /\ None \notin Docs
    /\ InitialStatuses \subseteq {"active", "pending"}
    /\ (Hours \cup Texts \cup Pages) \cap Onboards = {}

Created(s) == [status |-> s, last |-> s, restore |-> IF s = "pending" THEN None ELSE s,
               onboarded |-> FALSE]

Init ==
    /\ \E s \in InitialStatuses : doc = Created(s)
    /\ copy = [p \in Procs |-> None]
    /\ pc = [p \in Procs |-> "idle"]
    /\ lock = None
    /\ optedOut = FALSE

(* User.set_status, on a copy.                                             *)
StatusSet(d, s) ==
    IF s = d.status THEN d
    ELSE [d EXCEPT !.status  = s,
                   !.last    = s,
                   !.restore = IF s \in {"disabled", "inactive", "pending"} THEN @ ELSE s]

(* Slip: save writes the status alone.                                     *)
SaveStatus(d) == doc' = [doc EXCEPT !.status = d.status]

(* DatabaseObject.save                                                     *)
Save(d) == doc' = d

(* set_status returns at once, and does not save, for the status the copy  *)
(* has.                                                                    *)
SaveStatusSet(d, s) == IF s = d.status THEN UNCHANGED doc ELSE Save(StatusSet(d, s))

SetStatus(p, s) ==
    /\ SaveStatusSet(copy[p], s)
    /\ copy' = [copy EXCEPT ![p] = StatusSet(@, s)]

Goto(p, place) == pc' = [pc EXCEPT ![p] = place]

(* The process ends: its copy is gone, and the lock if it has it.          *)
End(p) ==
    /\ Goto(p, "idle")
    /\ copy' = [copy EXCEPT ![p] = None]
    /\ lock' = IF lock = p THEN None ELSE lock
-----------------------------------------------------------------------------
(* every_hour: Users.active() is read when the pool asks for more tasks,   *)
(* long before a thread gets to the user.                                  *)
HourLoad(p) ==
    /\ p \in Hours /\ pc[p] = "idle"
    /\ doc.status = "active"
    /\ copy' = [copy EXCEPT ![p] = doc]
    /\ Goto(p, "waiting")
    /\ UNCHANGED <<doc, lock, optedOut>>

(* every_hour_core takes the lock.                                         *)
HourEnter(p) ==
    /\ p \in Hours /\ pc[p] = "waiting"
    /\ lock = None
    /\ lock' = p
    /\ Goto(p, "hour")
    /\ UNCHANGED <<doc, copy, optedOut>>

(* inactive_user: whether enough texts went unanswered is up to the other  *)
(* documents; a stop word is no answer, it is stored as a ControlMessage.  *)
HourInactive(p) ==
    /\ pc[p] = "hour"
    /\ SetStatus(p, "inactive")
    /\ Goto(p, "notice")
    /\ UNCHANGED <<lock, optedOut>>

(* run_schedules runs the surveys that are due, if any.                    *)
HourSchedules(p) ==
    /\ pc[p] = "hour"
    /\ \/ Goto(p, "run") /\ UNCHANGED <<copy, lock>>
       \/ End(p)
    /\ UNCHANGED <<doc, optedOut>>
-----------------------------------------------------------------------------
(* on_receive_core takes the lock and then loads the user; User.retrieve   *)
(* finds no deleted one.                                                   *)
TextLoad(p) ==
    /\ p \in Texts /\ pc[p] = "idle"
    /\ lock = None /\ doc.status # "deleted"
    /\ lock' = p
    /\ copy' = [copy EXCEPT ![p] = doc]
    /\ Goto(p, "text")
    /\ UNCHANGED <<doc, optedOut>>

(* control_message_handler, for a stop word.                               *)
TextStop(p) ==
    /\ pc[p] = "text"
    /\ SaveStatusSet(copy[p], "disabled")
    /\ optedOut' = TRUE
    /\ End(p)

(* handle_message: an answer goes on with the survey, another text may be  *)
(* replied to.                                                             *)
Handled(p) ==
    /\ \/ copy[p].status = "active" /\ Goto(p, "run")
       \/ Goto(p, "notice")
    /\ UNCHANGED <<doc, copy, lock>>

(* control_message_handler, for a start word; a user disabled while        *)
(* pending has nothing to go back to, and the handler raises.              *)
TextStart(p) ==
    /\ pc[p] = "text"
    /\ optedOut' = FALSE
    /\ \/ /\ copy[p].status = "inactive"
          /\ SetStatus(p, "active")
          /\ Goto(p, "notice")
          /\ UNCHANGED lock
       \/ /\ copy[p].status = "disabled"
          /\ IF copy[p].restore = None THEN UNCHANGED doc
             ELSE SaveStatusSet(copy[p], copy[p].restore)
          /\ End(p)
       \/ /\ copy[p].status \in {"active", "paused", "completed"}
          /\ Handled(p)

(* A start word of a pending user whose cohort is enableable_from_sms:     *)
(* onboard_user starts a thread with the user object.                      *)
TextJoin(p) ==
    /\ pc[p] = "text"
    /\ copy[p].status = "pending"
    /\ optedOut' = FALSE
    /\ SaveStatusSet(copy[p], "active")
    /\ \E o \in Onboards :
           /\ pc[o] = "idle"
           /\ pc' = [pc EXCEPT ![p] = "idle", ![o] = "notice"]
           /\ copy' = [copy EXCEPT ![p] = None, ![o] = StatusSet(copy[p], "active")]
    /\ lock' = None

(* Slip: any text of a user who gets no surveys reactivates them.          *)
TextReactivateAny(p) ==
    /\ pc[p] = "text"
    /\ copy[p].status \in {"inactive", "disabled"}
    /\ SetStatus(p, "active")
    /\ Goto(p, "notice")
    /\ UNCHANGED <<lock, optedOut>>

(* reactivate_user                                                         *)
TextReactivate(p) ==
    /\ pc[p] = "text"
    /\ copy[p].status = "inactive"
    /\ SetStatus(p, "active")
    /\ Goto(p, "notice")
    /\ UNCHANGED <<lock, optedOut>>

(* Any other text, of an inactive user too if the cohort does not allow    *)
(* them to be reactivated.                                                 *)
TextMessage(p) ==
    /\ pc[p] = "text"
    /\ Handled(p)
    /\ UNCHANGED optedOut
-----------------------------------------------------------------------------
(* ScheduleExecution.run loads the user again.                             *)
BeginRun(p) ==
    /\ pc[p] = "run"
    /\ \/ /\ doc.status = "active"
          /\ copy' = [copy EXCEPT ![p] = doc]
          /\ Goto(p, "running")
          /\ UNCHANGED lock
       \/ doc.status # "active" /\ End(p)
    /\ UNCHANGED <<doc, optedOut>>

(* An action of the tree: set_attribute saves the copy, set_status may be  *)
(* called on it, and twilio_send disables a blacklisted user.  In between  *)
(* texts are sent.                                                         *)
RunAction(p) ==
    /\ pc[p] = "running"
    /\ \/ Save(copy[p]) /\ UNCHANGED copy
       \/ \E s \in {"active", "paused", "completed", "disabled"} : SetStatus(p, s)
    /\ UNCHANGED <<pc, lock, optedOut>>

(* The next execution, or the end.                                         *)
EndRun(p) ==
    /\ pc[p] = "running"
    /\ \/ Goto(p, "run") /\ UNCHANGED <<copy, lock>>
       \/ End(p)
    /\ UNCHANGED <<doc, optedOut>>

(* A control message: the notice of a new status, the welcome, a reply.    *)
(* It is sent, or comes back blacklisted.                                  *)
Notice(p) ==
    /\ pc[p] = "notice"
    /\ \/ p \in Onboards /\ Goto(p, "welcomed") /\ UNCHANGED <<doc, copy, lock>>
       \/ p \in Onboards /\ Goto(p, "welcomed") /\ SetStatus(p, "disabled") /\ UNCHANGED lock
       \/ p \notin Onboards /\ End(p) /\ UNCHANGED doc
       \/ /\ p \notin Onboards /\ copy[p].status # "disabled"
          /\ SetStatus(p, "disabled")
          /\ UNCHANGED <<pc, lock>>
    /\ UNCHANGED optedOut

(* _onboard_user_core, after the welcome.                                  *)
Onboarded(p) ==
    /\ pc[p] = "welcomed"
    /\ doc' = [doc EXCEPT !.onboarded = TRUE]
    /\ copy' = [copy EXCEPT ![p].onboarded = TRUE]
    /\ Goto(p, "run")
    /\ UNCHANGED <<lock, optedOut>>
-----------------------------------------------------------------------------
PageLoad(p) ==
    /\ p \in Pages /\ pc[p] = "idle"
    /\ copy' = [copy EXCEPT ![p] = doc]
    /\ Goto(p, "page")
    /\ UNCHANGED <<doc, lock, optedOut>>

(* set_user_attribute for any other field, custom attributes, uploads.     *)
PageEdit(p) ==
    /\ pc[p] = "page"
    /\ Save(copy[p])
    /\ End(p)
    /\ UNCHANGED optedOut

(* set_user_attribute with the attribute "status", to any that the page    *)
(* offers.  Only the browser tests the present status, on a table that may *)
(* be old, and for a deletion it tests nothing.  set_status saves ...      *)
PageStatus(p) ==
    /\ pc[p] = "page"
    /\ \E s \in {"active", "paused", "completed", "deleted"} : SetStatus(p, s)
    /\ Goto(p, "saving")
    /\ UNCHANGED <<lock, optedOut>>

(* ... or raises, for a deleted user whose phone a newer one has.          *)
PageConflict(p) ==
    /\ pc[p] = "page" /\ copy[p].status = "deleted"
    /\ End(p)
    /\ UNCHANGED <<doc, optedOut>>

(* The page then saves once more, after onboard_user has started the    *)
(* onboarding of an active user who was not; that thread first sleeps.     *)
StartsOnboarding(d) == d.status = "active" /\ ~d.onboarded

PageSave(p) ==
    /\ pc[p] = "saving"
    /\ Save(copy[p])
    /\ \/ /\ StartsOnboarding(copy[p])
          /\ \E o \in Onboards :
                 /\ pc[o] = "idle"
                 /\ pc' = [pc EXCEPT ![p] = "notice", ![o] = "notice"]
                 /\ copy' = [copy EXCEPT ![o] = copy[p]]
       \/ /\ ~StartsOnboarding(copy[p])
          /\ Goto(p, "notice")
          /\ UNCHANGED copy
    /\ UNCHANGED <<lock, optedOut>>

Hour(p) == HourLoad(p) \/ HourEnter(p) \/ HourInactive(p) \/ HourSchedules(p)
Text(p) == TextLoad(p) \/ TextStop(p) \/ TextStart(p) \/ TextJoin(p)
               \/ TextReactivate(p) \/ TextMessage(p)
Run(p) == BeginRun(p) \/ RunAction(p) \/ EndRun(p) \/ Notice(p) \/ Onboarded(p)
Page(p) == PageLoad(p) \/ PageEdit(p) \/ PageStatus(p) \/ PageConflict(p) \/ PageSave(p)

Next == \E p \in Procs : Hour(p) \/ Text(p) \/ Run(p) \/ Page(p)

Spec == Init /\ [][Next]_vars
-----------------------------------------------------------------------------
TypeOK ==
    /\ doc \in Docs
    /\ copy \in [Procs -> Docs \cup {None}]
    /\ pc \in [Procs -> {"idle", "waiting", "hour", "text", "run", "running", "notice",
                         "welcomed", "page", "saving"}]
    /\ lock \in Procs \cup {None}
    /\ optedOut \in BOOLEAN

(* The document's status is the latest that was logged, whoever overwrites *)
(* whom: inactive_user warns of "Non-Active Last Status Detected"          *)
(* (processing.py:157), and START relies on the log.                       *)
StatusIsLastLogged == doc.status = doc.last

(* Nobody holds a copy of the document that says otherwise, and no survey  *)
(* is running that an administrator made to set the status.                *)
Uncontradicted ==
    \A p \in Procs : copy[p] # None => copy[p].status = "disabled" /\ pc[p] # "running"

(* A disabled user comes back only by texting START or by an administrator *)
(* who sets that user's status (set_user_attribute asks nobody what it     *)
(* is), as long as nothing contradicts it: whatever else undoes an opt-out *)
(* is a save of an older copy, an edit of another field included, or of a  *)
(* survey that was under way (user.save and set_status,                    *)
(* database/tracking/users.py:159).                                        *)
OnlyOlderCopiesUndoOptOut ==
    [][doc.status = "disabled" /\ doc'.status # "disabled" /\ Uncontradicted
           => (\E p \in Texts : TextStart(p)) \/ (\E p \in Pages : PageStatus(p))]_vars

(* "their Status is set to Disabled, and they cannot be sent any more      *)
(* Messages", "unless the Recipient makes it so" (docs.html:1809): from    *)
(* the stop word to the next start word the user is disabled.              *)
OptOutStands == optedOut => doc.status = "disabled"
=============================================================================
