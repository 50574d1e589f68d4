----------------------------- MODULE Enrollment -----------------------------
(***************************************************************************)
(* How users come into a cohort: by a first text, by a page, by an         *)
(* uploaded file; the numbers of the cohort they are given; the executions *)
(* of its schedules they get; the onboarding thread; what the cohort's     *)
(* pages do at the same time (database/tracking/users.py,                  *)
(* database/backbone/cohorts.py, backend/incoming/new_user.py,             *)
(* frontend/pages/admin_portal/).                                          *)
(*                                                                         *)
(* Every request is a process of its own; a step lies between two of its   *)
(* database calls when another request may come between them to some       *)
(* effect.  Only texts and the hourly job take the UserLock of the phone.  *)
(***************************************************************************)
EXTENDS Naturals, Sequences, FiniteSets, FiniteSetsExt, SequencesExt

CONSTANTS
    Phones,       \* the phone numbers users text from
    Numbers,      \* the Twilio numbers one may buy
    FirstNumber,  \* the number the cohort has from the start, if it was ever active
    Schedules,    \* schedules administrators may create
    CohortLimit,  \* COHORT_USER_LIMIT, 0 for none
    NumberLimit,  \* PHONENUM_USER_LIMIT
    Kinds,        \* the kinds of requests there are
    MaxRequests,  \* bound on the requests made
    None

ASSUME EnrollmentAssumption ==
    /\ FirstNumber \in Numbers /\ None \notin Numbers \cup Phones \cup {"alone"}
    /\ CohortLimit \in Nat /\ NumberLimit \in Nat \ {0} /\ MaxRequests \in Nat
    /\ Kinds \subseteq {"text", "page", "upload", "schedule", "status", "modify",
                        "close", "rephone", "delete", "hour"}

VARIABLES
    cohort,      \* the Cohort document
    users,       \* the User documents, in the order of their creation
    schedules,   \* the Schedule documents
    execs,       \* how many ScheduleExecutions each user has of each schedule
    owned,       \* the numbers bought from Twilio ...
    released,    \* ... and those given back
    procs,       \* the requests and threads: where each is, and what it has in memory
    requests,    \* how many requests were made
    welcomed,    \* the users send_welcome was called for
    aborted,     \* whether an exception ended a request
    overwritten  \* whether saving a whole document undid another's change

documents == <<cohort, users, schedules, execs, owned, released>>
ghosts == <<requests, welcomed, aborted, overwritten>>
vars == <<documents, procs, ghosts>>

Done == [kind |-> "done", at |-> "done"]

(* A request: rows are the phones of an upload, new is what the user or the *)
(* cohort is to become; cohort and user are the copies loaded, id the       *)
(* user's, todo what a loop has left.                                       *)
Request(kind, at, rows, number, new) ==
    [kind |-> kind, at |-> at, rows |-> rows, phone |-> None, number |-> number,
     new |-> new, cohort |-> None, user |-> None, id |-> 0, todo |-> {}]

Hourly == Request("hour", "idle", {}, None, None)

Init ==
    /\ \E s \in {"pending", "active"} :
           /\ cohort = [status |-> s, numbers |-> IF s = "pending" THEN <<>> ELSE <<FirstNumber>>]
           /\ owned = IF s = "pending" THEN {} ELSE {FirstNumber}
    /\ users = <<>> /\ execs = <<>>
    /\ schedules = {}
    /\ released = {}
    /\ procs = <<Hourly>>
    /\ requests = 0
    /\ welcomed = {}
    /\ aborted = FALSE /\ overwritten = FALSE
-----------------------------------------------------------------------------
(* The queries.                                                            *)
Ids == DOMAIN users
LiveIds == {u \in Ids : users[u].status # "deleted"}
WithPhone(p) == {u \in LiveIds : users[u].phone = p}
Load(n) == Cardinality({u \in Ids : users[u].number = n /\ users[u].status = "active"})
IsActive(u) == users[u].status = "active" /\ cohort.status = "active"
NotOnboarded == {u \in Ids : ~users[u].onboarded /\ users[u].status = "active"}
Room(n) == Load(n) < NumberLimit
CohortFull == CohortLimit # 0 /\ Len(users) >= CohortLimit

(* Slip: the lock is not taken.                                             *)
LockedNever(p) == FALSE

(* Whether a text or the hourly job holds the lock of a phone.              *)
Locked(p) == \E k \in DOMAIN procs : procs[k].kind \in {"text", "hour"} /\ procs[k].phone = p

AtRest == \A k \in DOMAIN procs : procs[k].kind = "done" \/ procs[k].at = "idle"

Goto(k, at) == procs' = [procs EXCEPT ![k].at = at]
Ended(k) == IF k = 1 THEN Hourly ELSE Done
End(k) == procs' = [procs EXCEPT ![k] = Ended(k)]

(* A step that only reads: process k goes on as r.                          *)
Becomes(k, r) ==
    /\ procs' = [procs EXCEPT ![k] = r]
    /\ UNCHANGED <<documents, ghosts>>

(* An exception ends the request or the thread.                            *)
Raise(k) ==
    /\ End(k)
    /\ aborted' = TRUE
    /\ UNCHANGED <<documents, requests, welcomed, overwritten>>

(* cohort.save(), of the whole copy c, loaded as the document was           *)
SaveCohort(c, loaded) ==
    /\ cohort' = c
    /\ overwritten' = (overwritten \/ cohort # loaded)
-----------------------------------------------------------------------------
(* Requests begin.                                                         *)
Begin(request) ==
    /\ requests < MaxRequests
    /\ request.kind \in Kinds
    /\ procs' = Append([procs EXCEPT ![1].new = None], request)
    /\ requests' = requests + 1
    /\ UNCHANGED <<documents, welcomed, aborted, overwritten>>

Text(p, n, s) ==
    /\ n \in owned \ released
    /\ ~Locked(p)
    /\ Begin([Request("text", "lookup", {}, n, s) EXCEPT !.phone = p])

Page(p) == Begin([Request("page", "lookup", {}, None, "active") EXCEPT !.phone = p])

(* A bound: uploads meet neither one another nor the hourly job.            *)
NoUpload == \A k \in DOMAIN procs : procs[k].kind # "upload"

Upload(rows) == NoUpload /\ Begin(Request("upload", "lookup", rows, None, "active"))

CreateSchedule(s) ==
    /\ \A k \in DOMAIN procs : procs[k].kind = "schedule" => procs[k].new # s
    /\ Begin(Request("schedule", "create", {}, None, s))

EditUser(kind, u, p) == Begin([Request(kind, "load", {}, None, p) EXCEPT !.id = u])
EditCohort(kind, s) == Begin(Request(kind, "load", {}, None, s))

Arrive ==
    \/ \E p \in Phones, n \in Numbers, s \in {"active", "pending"} : Text(p, n, s)
    \/ \E p \in Phones : Page(p)
    \/ \E rows \in SUBSET Phones \ {{}} : Upload(rows)
    \/ \E s \in Schedules \ schedules : CreateSchedule(s)
    \/ \E s \in {"active", "paused"} : EditCohort("status", s)
    \/ EditCohort("modify", None) \/ EditCohort("close", "completed")
    \/ \E u \in LiveIds, p \in Phones : EditUser("rephone", u, p)
    \/ \E u \in LiveIds : EditUser("delete", u, None)
-----------------------------------------------------------------------------
(***************************************************************************)
(* Creation of a user.                                                     *)
(***************************************************************************)
(* Cohort.get_ic_number of copy c: a number, None, or "buy".                *)
IcNumber(c) ==
    IF c.status = "pending" \/ CohortFull THEN None
    ELSE LET free == {i \in DOMAIN c.numbers : Room(c.numbers[i])}
         IN  IF free = {} THEN "buy" ELSE c.numbers[Min(free)]

(* User.create begins: the cohort is loaded, and a number found in it.      *)
Creating(r) ==
    IF IcNumber(cohort) = "buy" THEN [r EXCEPT !.at = "buy", !.cohort = cohort]
    ELSE [r EXCEPT !.at = "count", !.number = IcNumber(cohort)]

(* A text: by phone and number, then by phone in the cohort that has the    *)
(* number.  A user who is found goes on in SurveyEngine.                    *)
TextLookup(k) ==
    LET r == procs[k]
        here == {u \in WithPhone(r.phone) : users[u].number = r.number}
        found == IF here # {} THEN here ELSE WithPhone(r.phone)
    IN  /\ r.kind = "text" /\ r.at = "lookup"
        /\ IF Cardinality(found) > 1 \/ (here = {} /\ r.number \notin Range(cohort.numbers))
           THEN Raise(k)
           ELSE Becomes(k, IF found # {} THEN Done ELSE Creating(r))

(* The page.  Its test of COHORT_USER_LIMIT compares a string with ids, and *)
(* stops nobody.                                                            *)
PageLookup(k) ==
    LET r == procs[k]
    IN  /\ r.kind = "page" /\ r.at = "lookup"
        /\ Becomes(k, IF cohort.status = "completed" \/ WithPhone(r.phone) # {} THEN Done
                      ELSE Creating(r))

(* The next row of a file, or its end; of a user found, a copy is edited.   *)
NextRow(k) ==
    LET r == procs[k]
    IN  /\ r.kind = "upload" /\ r.at = "lookup"
        /\ \/ r.rows = {} /\ Becomes(k, Done)
           \/ \E p \in r.rows :
                 LET row == [r EXCEPT !.rows = @ \ {p}, !.phone = p]
                 IN  \/ Cardinality(WithPhone(p)) > 1 /\ Raise(k)
                     \/ WithPhone(p) = {} /\ Becomes(k, Creating(row))
                     \/ \E u \in WithPhone(p) :
                           /\ WithPhone(p) = {u}
                           /\ Becomes(k, [row EXCEPT !.at = "save", !.id = u, !.user = users[u]])

(* Slip: the number is not appended.                                        *)
BoughtUnsaved(c, n) == c

Bought(c, n) == [c EXCEPT !.numbers = Append(@, n)]

(* create_new_phonenum, and the save of the copy that has the number.       *)
Buy(k) ==
    /\ procs[k].at = "buy"
    /\ \/ Raise(k)
       \/ \E n \in Numbers \ owned :
            /\ owned' = owned \cup {n}
            /\ SaveCohort(Bought(procs[k].cohort, n), procs[k].cohort)
            /\ procs' = [procs EXCEPT ![k].at = "count", ![k].number = n, ![k].cohort = None]
            /\ UNCHANGED <<users, schedules, execs, released, requests, welcomed, aborted>>

Count(k) ==
    /\ procs[k].at = "count"
    /\ IF WithPhone(procs[k].phone) # {} THEN Raise(k)
       ELSE Becomes(k, [procs[k] EXCEPT !.at = "insert"])

Insert(k) ==
    LET doc == [phone |-> procs[k].phone, number |-> procs[k].number, onboarded |-> FALSE,
                status |-> procs[k].new, by |-> procs[k].kind]
    IN  /\ procs[k].at = "insert"
        /\ users' = Append(users, doc)
        /\ execs' = Append(execs, [s \in Schedules |-> 0])
        /\ procs' = [procs EXCEPT ![k].at = "schedules", ![k].user = doc, ![k].id = Len(users) + 1]
        /\ UNCHANGED <<cohort, schedules, owned, released, ghosts>>

AllMade(r) == r.at = "make" /\ r.todo = {}

(* What is saved.  by says who gave the user the phone: the creator, a page *)
(* since, or an upload that brought back what it had loaded.                *)
Saved(r) ==
    CASE r.kind = "rephone" -> [r.user EXCEPT !.phone = r.new, !.by = "page"]
      [] r.kind = "upload" /\ r.user # users[r.id] -> [r.user EXCEPT !.by = "upload"]
      [] OTHER -> r.user

(* user.save(), of the whole copy: what was changed since is undone.        *)
SaveUser(k) ==
    LET r == procs[k]
    IN  /\ r.at = "save" \/ (r.kind = "text" /\ AllMade(r))
        /\ users' = [users EXCEPT ![r.id] = Saved(r)]
        /\ overwritten' = (overwritten \/ r.user # users[r.id])
        /\ CASE r.kind = "text" -> Goto(k, "onboard")
             [] r.kind = "upload" -> Goto(k, "lookup")
             [] OTHER -> End(k)
        /\ UNCHANGED <<cohort, schedules, execs, owned, released, requests, welcomed, aborted>>
-----------------------------------------------------------------------------
(***************************************************************************)
(* Executions: a new user gets one of each schedule, a new schedule one    *)
(* for each user, and the hourly job and the onboarding thread add those   *)
(* that are missing.  make_execution tests, and then creates.              *)
(***************************************************************************)
(* Slip: the users are listed before the schedule is there.                 *)
InsertScheduleLast(k) ==
    \/ /\ procs[k].kind = "schedule" /\ procs[k].at = "create"
       /\ Becomes(k, [procs[k] EXCEPT !.at = "insert schedule",
                                      !.todo = {<<u, procs[k].new>> : u \in LiveIds}])
    \/ /\ procs[k].at = "insert schedule"
       /\ schedules' = schedules \cup {procs[k].new}
       /\ Goto(k, "make")
       /\ UNCHANGED <<cohort, users, execs, owned, released, ghosts>>

InsertSchedule(k) ==
    /\ procs[k].kind = "schedule" /\ procs[k].at = "create"
    /\ schedules' = schedules \cup {procs[k].new}
    /\ Goto(k, "schedules")
    /\ UNCHANGED <<cohort, users, execs, owned, released, ghosts>>

(* Slip: the hourly job does not look for missing executions.               *)
ToMakeAtCreation(r) ==
    IF r.kind = "schedule" THEN {<<u, r.new>> : u \in LiveIds}
    ELSE IF r.kind = "hour" THEN {}
    ELSE {<<r.id, s>> : s \in {s \in schedules : execs[r.id][s] = 0}}

(* What is to be made: for a schedule, an execution for every user; for a   *)
(* user, one of every schedule it has none of.                              *)
ToMake(r) ==
    IF r.kind = "schedule" THEN {<<u, r.new>> : u \in LiveIds}
    ELSE {<<r.id, s>> : s \in {s \in schedules : execs[r.id][s] = 0}}

ListMissing(k) ==
    /\ procs[k].at = "schedules"
    /\ Becomes(k, [procs[k] EXCEPT !.at = "make", !.todo = ToMake(procs[k])])

TestExecution(k) ==
    /\ procs[k].at = "make" /\ procs[k].todo # {}
    /\ \E t \in procs[k].todo :
          IF execs[t[1]][t[2]] > 0 THEN Raise(k)
          ELSE Becomes(k, [procs[k] EXCEPT !.at = "create execution", !.number = t])

CreateExecution(k) ==
    LET t == procs[k].number
    IN  /\ procs[k].at = "create execution"
        /\ execs' = [execs EXCEPT ![t[1]][t[2]] = @ + 1]
        /\ procs' = [procs EXCEPT ![k].at = "make", ![k].number = None, ![k].todo = @ \ {t}]
        /\ UNCHANGED <<cohort, users, schedules, owned, released, ghosts>>

MakingDone(k) ==
    /\ AllMade(procs[k]) /\ procs[k].kind \in {"schedule", "thread", "hour"}
    /\ Becomes(k, Ended(k))

(* The hourly job comes to a user; new notes whether it is alone so far.   *)
Hour(u) ==
    /\ "hour" \in Kinds /\ procs[1].at = "idle"
    /\ IsActive(u)
    /\ NoUpload
    /\ ~Locked(users[u].phone)
    /\ Becomes(1, [procs[1] EXCEPT !.at = "schedules", !.phone = users[u].phone, !.id = u,
                                   !.new = IF AtRest THEN "alone" ELSE None])
-----------------------------------------------------------------------------
(***************************************************************************)
(* Onboarding.                                                             *)
(***************************************************************************)
Thread(u, parent) ==
    [Request("thread", "welcome", {}, None, parent) EXCEPT !.id = u]

(* onboard_user: the status of the copy, but the cohort's as it is now.     *)
Onboard(k) ==
    LET r == procs[k]
        next == [procs EXCEPT ![k] = IF r.kind = "text" THEN Done ELSE [r EXCEPT !.at = "save"]]
    IN  /\ r.at = "onboard" \/ (r.kind \in {"page", "upload"} /\ AllMade(r))
        /\ procs' = IF r.user.status = "active" /\ cohort.status = "active"
                    THEN Append(next, Thread(r.id, k)) ELSE next
        /\ UNCHANGED <<documents, ghosts>>

Welcome(k) ==
    /\ procs[k].at = "welcome"
    /\ welcomed' = welcomed \cup {procs[k].id}
    /\ Goto(k, "mark")
    /\ UNCHANGED <<documents, requests, aborted, overwritten>>

(* The user object is the one the creator still has.                       *)
MarkOnboarded(k) ==
    LET u == procs[k].id
        creator == procs[k].new
    IN  /\ procs[k].at = "mark"
        /\ users' = [users EXCEPT ![u].onboarded = TRUE]
        /\ procs' = [i \in DOMAIN procs |->
               IF i = k THEN [procs[i] EXCEPT !.at = "schedules"]
               ELSE IF i = creator /\ procs[i].kind # "done" /\ procs[i].id = u /\ procs[i].user # None
               THEN [procs[i] EXCEPT !.user.onboarded = TRUE]
               ELSE procs[i]]
        /\ UNCHANGED <<cohort, schedules, execs, owned, released, ghosts>>
-----------------------------------------------------------------------------
(***************************************************************************)
(* The cohort's pages.                                                     *)
(***************************************************************************)
LoadCohort(k) ==
    /\ procs[k].at = "load" /\ procs[k].kind \in {"status", "modify", "close"}
    /\ Becomes(k, [procs[k] EXCEPT !.cohort = cohort, !.at = procs[k].kind])

(* modify_cohort changes fields that nothing here looks at.                 *)
ModifyCohort(k) ==
    /\ procs[k].at = "modify"
    /\ SaveCohort(procs[k].cohort, procs[k].cohort)
    /\ End(k)
    /\ UNCHANGED <<users, schedules, execs, owned, released, requests, welcomed, aborted>>

(* complete_cohort, delete_cohort: the copy's numbers go back to Twilio.    *)
CloseCohort(k) ==
    /\ procs[k].at = "close"
    /\ released' = released \cup (owned \cap Range(procs[k].cohort.numbers))
    /\ Goto(k, "status")
    /\ UNCHANGED <<cohort, users, schedules, execs, owned, requests, welcomed, aborted, overwritten>>

(* Slip: the users are listed before the status is saved.                   *)
SetCohortStatusLast(k) ==
    LET r == procs[k]
    IN  \/ /\ r.at = "status" /\ r.kind = "status"
           /\ Becomes(k, [r EXCEPT !.at = "save status", !.todo = NotOnboarded])
        \/ /\ r.at = "save status"
           /\ SaveCohort([r.cohort EXCEPT !.status = r.new], r.cohort)
           /\ procs' = [procs EXCEPT ![k].at = "loop", ![k].todo = IF r.new = "active" THEN @ ELSE {}]
           /\ UNCHANGED <<users, schedules, execs, owned, released, requests, welcomed, aborted>>

(* Cohort.set_status; the first activation gives numbers to who has none.   *)
SetCohortStatus(k) ==
    LET r == procs[k]
        c == [r.cohort EXCEPT !.status = r.new]
        first == r.cohort.status = "pending" /\ r.new = "active"
    IN  /\ r.at = "status"
        /\ IF c = r.cohort THEN UNCHANGED <<cohort, overwritten>> ELSE SaveCohort(c, r.cohort)
        /\ IF r.kind = "close" THEN End(k)
           ELSE procs' = [procs EXCEPT
                    ![k].at = IF first THEN "assign" ELSE "list",
                    ![k].cohort = c,
                    ![k].todo = IF first THEN {u \in Ids : users[u].number = None} ELSE {}]
        /\ UNCHANGED <<users, schedules, execs, owned, released, requests, welcomed, aborted>>

(* user.update(ic_number=self.get_ic_number()) for the next of them         *)
AssignNumber(k) ==
    LET r == procs[k]
        n == IcNumber(r.cohort)
    IN  /\ r.at = "assign" /\ r.todo # {}
        /\ \E u \in r.todo :
              IF n = "buy"
              THEN \E bought \in Numbers \ owned :
                     /\ owned' = owned \cup {bought}
                     /\ SaveCohort(Bought(r.cohort, bought), r.cohort)
                     /\ users' = [users EXCEPT ![u].number = bought]
                     /\ procs' = [procs EXCEPT ![k].todo = @ \ {u},
                                               ![k].cohort = Bought(r.cohort, bought)]
              ELSE /\ users' = [users EXCEPT ![u].number = n]
                   /\ procs' = [procs EXCEPT ![k].todo = @ \ {u}]
                   /\ UNCHANGED <<cohort, owned, overwritten>>
        /\ UNCHANGED <<schedules, execs, released, requests, welcomed, aborted>>

AssignFails(k) ==
    /\ procs[k].at = "assign" /\ procs[k].todo # {} /\ IcNumber(procs[k].cohort) = "buy"
    /\ Raise(k)

(* change_cohort_status: who was not onboarded is, if the cohort is active. *)
ListUsers(k) ==
    /\ \/ procs[k].at = "list"
       \/ (procs[k].at = "assign" /\ procs[k].todo = {})
    /\ Becomes(k, [procs[k] EXCEPT !.at = "loop", !.cohort = None,
           !.todo = IF procs[k].new = "active" THEN NotOnboarded ELSE {}])

OnboardListed(k) ==
    /\ procs[k].at = "loop" /\ procs[k].todo # {}
    /\ \E u \in procs[k].todo :
          LET next == [procs EXCEPT ![k].todo = @ \ {u}]
          IN  procs' = IF cohort.status = "active" THEN Append(next, Thread(u, k)) ELSE next
    /\ UNCHANGED <<documents, ghosts>>

StatusDone(k) ==
    /\ procs[k].at = "loop" /\ procs[k].todo = {}
    /\ Becomes(k, Ended(k))

(* set_user_attribute: the phone number, or the deletion, of a user.        *)
LoadUser(k) ==
    LET r == procs[k]
    IN  /\ r.at = "load" /\ r.kind \in {"rephone", "delete"}
        /\ IF cohort.status = "completed"
              \/ (r.kind = "rephone" /\ \E u \in Ids : users[u].phone = r.new)
           THEN Becomes(k, Done)
           ELSE Becomes(k, [r EXCEPT !.user = users[r.id],
                                     !.at = IF r.kind = "delete" THEN "delete" ELSE "save"])

DeleteUser(k) ==
    LET r == procs[k]
    IN  /\ r.at = "delete"
        /\ users' = [users EXCEPT ![r.id] = [r.user EXCEPT !.status = "deleted"]]
        /\ overwritten' = (overwritten \/ users[r.id] # r.user)
        /\ End(k)
        /\ UNCHANGED <<cohort, schedules, execs, owned, released, requests, welcomed, aborted>>
-----------------------------------------------------------------------------
Create(k) ==
    \/ TextLookup(k) \/ PageLookup(k) \/ NextRow(k) \/ Buy(k)
    \/ Count(k) \/ Insert(k) \/ SaveUser(k)
Make(k) ==
    \/ InsertSchedule(k) \/ ListMissing(k) \/ TestExecution(k) \/ CreateExecution(k) \/ MakingDone(k)
Greet(k) == Onboard(k) \/ Welcome(k) \/ MarkOnboarded(k)
Administer(k) ==
    \/ LoadCohort(k) \/ ModifyCohort(k) \/ CloseCohort(k) \/ SetCohortStatus(k)
    \/ AssignNumber(k) \/ AssignFails(k) \/ ListUsers(k) \/ OnboardListed(k) \/ StatusDone(k)
    \/ LoadUser(k) \/ DeleteUser(k)

Step(k) == Create(k) \/ Make(k) \/ Greet(k) \/ Administer(k)

Next ==
    \/ Arrive
    \/ \E u \in Ids : Hour(u)
    \/ \E k \in DOMAIN procs : Step(k)

Spec == Init /\ [][Next]_vars
-----------------------------------------------------------------------------
Documents == [phone : Phones, number : Numbers \cup {None}, onboarded : BOOLEAN,
              status : {"active", "pending", "deleted"}, by : {"text", "page", "upload"}]

(* TypeOK: every document and every copy of one is whole; a purchased       *)
(* number is given to one cohort once.                                      *)
TypeOK ==
    /\ cohort.status \in {"pending", "active", "paused", "completed"}
    /\ cohort.numbers \in Seq(Numbers) /\ IsInjective(cohort.numbers)
    /\ users \in Seq(Documents) /\ Len(execs) = Len(users)
    /\ released \subseteq owned /\ owned \subseteq Numbers
    /\ \A k \in DOMAIN procs : procs[k].kind # "done" =>
           /\ procs[k].user \in Documents \cup {None}
           /\ procs[k].todo \subseteq IF procs[k].kind = "status" THEN Ids ELSE Ids \X Schedules

(* DuplicatesNeedAPage: User.create counts users and creates one later, so  *)
(* one phone may get two users in the cohort; but never by texts alone,     *)
(* since those of one phone take turns and the second finds the first's     *)
(* user, whichever number it comes to.  (An upload may bring a deleted user *)
(* back, whose phone has texted since.)                                     *)
DuplicatesNeedAPage ==
    \A u, v \in LiveIds :
        u # v /\ users[u].phone = users[v].phone => {users[u].by, users[v].by} # {"text"}

(* NumbersKnown: the cohort's document has every number it bought, and with *)
(* it the number of every user, unless a page or another purchase saved a   *)
(* copy of the document from before.  Texts to a number no document has are *)
(* answered by nobody.  (The state has its types.)                          *)
NumbersKnown ==
    /\ TypeOK
    /\ ~overwritten =>
          /\ owned = Range(cohort.numbers)
          /\ \A u \in Ids : users[u].number \in Range(cohort.numbers) \cup {None}

(* NoScheduleMissed: a user and a schedule created at the same time find    *)
(* one another: when all requests are done, each user has an execution of   *)
(* each schedule, unless two made the same one and the exception that ends  *)
(* the second left the rest of its list undone, or the saving of an old     *)
(* copy brought a deleted user back.                                        *)
NoScheduleMissed ==
    AtRest /\ ~aborted /\ ~overwritten => \A u \in LiveIds, s \in schedules : execs[u][s] > 0

(* ActiveUserIsWelcomed: a user who is created while the cohort is          *)
(* activated is seen by one of the two: when all requests are done, every   *)
(* active user of an active cohort has been sent the welcome, unless an     *)
(* exception or an old copy of the cohort intervened.                       *)
ActiveUserIsWelcomed ==
    AtRest /\ ~aborted /\ ~overwritten /\ cohort.status = "active" =>
        \A u \in Ids : users[u].status = "active" => u \in welcomed

(* HourlyJobRepairs: what an exception, or a copy saved late, left undone   *)
(* the hourly job does: when it leaves an active user it had to itself, the *)
(* user has an execution of every schedule.                                 *)
HourlyJobRepairs ==
    AllMade(procs[1]) /\ procs[1].new = "alone" => \A s \in schedules : execs[procs[1].id][s] > 0
=============================================================================
