# Instant Census in TLA+

Instant Census runs surveys over text messages: administrators build survey
trees, an hourly job starts them, and the texts of the users (the recipients)
answer their questions. This directory models the part of it where time,
concurrency and failure meet: who may handle a user at a time, when a survey is
due, how the conversation with one user goes on, how users come into a cohort,
and what administrators' pages do to users, attributes, surveys, accounts and
reports while all that runs. `src/` paths below are relative to the repository.

## 1. The system

| component | code | state | operations |
|---|---|---|---|
| per-phone-number lock | `utils/concurency.py` | `__active_users`, `__responders`, one condition variable | `__enter__`, `__exit__` |
| survey calendar | `utils/time.py`, `set_*_period` in `database/tracking/schedule_execution.py` | period start, end, resend times, `active` of each ScheduleExecution | `set_period`, `check_resend`, `make_execution` |
| survey engine | `backend/features/schedule_features.py`, `backend/actions/actions.py`, `ActionNode.do_actions`, `ScheduleExecution.run` | `execution_state` of each execution, `current_execution` of the user | `run_schedules`, `run_outstanding_schedules`, `run_on_user_creation_schedules`, the four actions |
| incoming texts | `backend/incoming/entry_points.py`, `processing.py`, `backend/features/response_handlers.py` | Messages, Responses | `on_receive_core`, `handle_message`, the control words |
| outgoing texts | `backend/outgoing/exit_points.py`, `utils/twilio_utils.py` | Messages, Responses, the user's status | `send_control_message`, `do_send_question`, the two resends, `twilio_send` |
| user status | `database/tracking/users.py` | `status`, `status_log` | `set_status`, `clear_executions` |
| creation and onboarding | `backend/incoming/new_user.py`, `User.create` | users, their executions, `onboarded` | `new_user_via_sms`, `new_user_via_admin_portal`, `onboard_user` |
| cohorts and numbers | `database/backbone/cohorts.py`, `cohorts_dashboard.py` | status, numbers, capacity | `get_ic_number`, `set_status`, completion, deletion |
| custom attributes | `user_management.py`, `user_managment_helpers.py`, `message_builder.py` | values of each user, defaults of the cohort, names in texts and conditionals | create, rename, set, upload, merge into a text |
| survey builder | `survey_builder.py`, `survey_builder_helpers.py`, `database/backbone/schedules.py` | Schedule, Conditional and Question documents | create, move, modify, delete, copy, test |
| administrators | `login_pages.py`, `auth.py`, `database/tracking/admins.py` | hash, login, token, signature of the terms, the session | login, password links, terms |
| reports and downloads | `data_reports.py`, `download_data_helpers.py`, `question_sorter.py`, `backend/analytics/` | none: they read everything | counts, histories, summaries, bills |
| hourly dispatch | `cron.py`, `frontend/pages/cron_dispatch.py`, `database/analytics/system_load.py` | a one-time password | `start_every_hour`, `dispatch_every_hour`, `every_hour` |
| parsers, message texts, simulator, scripts | see PROJECT.json | | not modelled |

A web worker gets each incoming text and starts a thread (`on_receive`); cron
posts to the web server once an hour, which forks a process that walks over the
active users with a pool of threads (`every_hour`). Both take the `UserLock` of
the phone number, so the handlers of one user take turns. A handler loads
documents from MongoDB into memory, sends texts (five seconds of sleep and a
call of Twilio before each) and writes documents back, either field by field
(`update`) or whole (`save`). Administrator pages and the onboarding thread
write the same documents and take no lock.

What is hard, and what makes each part correct:

* **Lock.** One condition variable for all numbers, the flags of `responder`,
  holders that die. Correct: one holder per number, nobody sleeps for a free
  number, every waiter gets in.
* **Calendar.** The hourly job recomputes every idle period; hours are missed.
  Correct: each survey day is served once, at its hour, or made up for; resends
  belong to the running period.
* **Engine.** A survey is interrupted by another, paused for an answer that may
  never come, resumed from a stored path; a send may fail in four ways; the
  status of the user changes in mid-survey. Correct: a survey moves forward, a
  question is asked once a period, every answer finds its Response, nothing is
  forgotten, a user who is not active has nothing pending.
* **User document.** Copies of the document are in several hands and are saved
  whole: changes are lost. Correct: the status agrees with its log, and a user
  who opted out stays disabled until START.
* **Enrollment.** Tests and creations are apart, a purchase of a number lies
  between a load and a save, a thread goes on after the page. Correct: one user
  per phone, every number in the cohort's document, every user welcomed and with
  an execution of every schedule, at the latest when the hourly job comes.
* **Survey trees.** A tree is many documents, edited, copied and deleted one by
  one while executions point into it. Correct: what hangs from a tree exists,
  copies share nothing, a paused survey finds its place and question.
* **Attributes.** A name stands in the cohort, in every user and in every text.
  Correct: renaming keeps them together, and answers are not lost.
* **Accounts.** Correct: a link sets one password, once, and no save undoes what
  another request wrote.
* **Reports.** Several queries of what changes meanwhile. Correct: they add up
  but for what changed, and what was there is told, once, where it belongs.

PROJECT.json lists every hazard at its line, with the properties that cover it.

## 2. Modules

| module | models |
|---|---|
| `PhoneMutex` | what the lock promises: a set of pairs (handler, number), at most one per number and per handler |
| `UserLock` | `UserLock.__enter__` and `__exit__`, cut at `wait()` |
| `SurveyTime` | pure operators: the four `set_*_period` functions, `set_period`, `check_resend`, `resend_times`, `days_in_question_period` |
| `PeriodClock` | one user, one schedule of one question, and the clock |
| `SurveyEngine` | the conversation with one user: trees, hourly job, incoming texts, statuses |
| `UserDocument` | one user's document and the copies that the hourly job, texts, pages and onboarding threads load, change and save |
| `Enrollment` | one cohort: users created by text, page and upload, numbers, executions of new schedules, onboarding, the cohort's pages |
| `SurveyBuilder` | one cohort's survey trees under the pages of the builder, and the run of a survey in them |
| `CustomAttributes` | one cohort's attributes, the items that name them, and a survey that sets, tests and merges them |
| `AdminAccount` | one administrator's document, the browser's session, logins and password links |
| `Reports` | each report and download, query by query, beside a changing database |
| `UserLockProofs`, `UserDocumentProofs`, `AdminAccountProofs` | the proofs about those modules |
| `SurveyTimeProofs`, `PeriodClockProofs` | lemmas about the calendar's operators; the proofs about the clock |
| `EnrollmentProofs` | what each step of an enrollment does to each document; the proofs about them |
| `SurveyEngineProofs` | the proofs about the conversation with one user |
| `CustomAttributesProofs` | the proofs about attributes, and the lemmas on renaming and copying they need |
| `MC...` | calendars, survey trees, phones and limits for TLC |

`PeriodClock` and `SurveyEngine` both EXTEND `SurveyTime`. `UserLock` is what
lets `SurveyEngine` treat texts and the hourly job as taking turns: there, such a
handler is a sequence of steps, and the next one starts when the one before has
ended. Pages and the thread that onboards a user take no lock and come between
the steps (with `Overlap`). The other modules have the other half: what the
processes that the lock does not keep apart do to the documents they share. In
them every request is a process;
a step lies between two of its database calls where another request may come
in between to some effect, and a copy that was loaded is a part of the
process's record until it is saved.

### UserLock

`pc[t]` is where thread t is: outside, waiting on the condition variable, woken
and about to test again, inside, or killed inside. The body of `with class_cv`
runs under the condition variable's mutex, which only `wait()` gives up, so
`Enter`, `Recheck` and `Exit` are the stretches between. `isResponder` is the
private flag, decided before the wait. `Kill` is the death of a worker: its
entries stay, since they live in the manager's process.

### SurveyTime and PeriodClock

A time is a whole hour of the user's clock; every parameter of a schedule is a
whole hour and the job runs once an hour. An execution is a record of the five
fields the code reads; `resend_times` is a set, since only its least element
is looked at and elapsed ones are dropped. `PeriodClock!EveryHour` is one pass
of `run_schedules` for the one execution: period check, resend check, run,
refresh. `Answer` may come at any hour, `MissHour` is an hour without the job.
`Calendars` may hold any schedule but a daily limit, `MaxMissed` says for each
how many hours in a row the job may miss.

### SurveyEngine

A question stands for the path to it (`execution_state`): each question occurs
once. `agenda` holds what the nested `do_actions` calls have left to do, with
the `parser_return` each would pass on; a resume puts the later siblings of
each level there, without it. One step is one action of the tree. `job` holds
the local variables of the running handler, with the executions as it has them
in memory (`copies`): `run()` and `set_period` test the copy and write to the
database. `loaded` is the copy of the user that `run()` loaded: a send and a
setter change and save that one. `user.restore` is the status START goes back to,
the latest entry of `status_log` that is not disabled, inactive or pending.
`unanswered` and `retries` count texts as far as `inactive_user` and `can_resend`
look back.

With `Overlap`, what takes no lock comes between the steps of a handler.
`SetUserStatus`, `ChangeCohortStatus` (the cohort first, this user at its turn in
the loop, `ClearExecutions`) and `NoticeBlacklisted` may come at any step.
`StartOnboarding` and `Onboard` are the thread of `onboard_user`: it sleeps and
welcomes ("welcome" in `pages`), then is a handler of its own beside that of a
text or of the hourly job, and `Switch` goes on with the other of the two
(`other`). Without `Overlap` all of them wait until no handler runs. One
onboarding thread and one page that sets the user's status are under way at a
time. The load of the user in `run()`, the tests on it and the `update` that makes
the execution current are one step, as is all that a handler does before its
first send; what copies of the user that are older do to one another is the
subject of `UserDocument`. That a user is deleted is there, too.

Two variables are histories. `user.midRun` says that a handler or an onboarding
thread was under way when the status was set last, so that a run may store an
execution after `clear_executions`. `missed[e]` is the question that execution e
came to last, if it was not sent and stored.

An attempt to send a text has an outcome from the constant `Outcomes`: sent;
unsent (usage limit, unusable number, documents that cannot be stored);
blacklisted (Twilio reports an opt-out or a landline, `twilio_send` disables
the user); error (any other exception). The interruption run allows `sent` and
`unsent`, the creation run `sent` alone, the fault run all four.
`ReactivateAllowed` is the cohort's field of that name.

### UserDocument

`doc` is the document, `copy[p]` what process p has in memory. `update` writes a
field, `save` the whole copy; `set_status` saves unless the copy has that status
already. The lock is a variable here (`UserLock` shows that it is one process at
a time): `HourEnter` and `TextLoad` take it, but the hourly job has loaded the
user before (`HourLoad`), and pages and onboarding threads take none. A step
lies between a load, a text being sent and a save, so a process that sends may
be overtaken there. Inside a run, `RunAction` is any action that touches the
user: an attribute is set (which saves the copy), a status is set, a text comes
back blacklisted. Of the document only what decides who is written to is kept:
`status`, the latest entry of its log, what START would go back to, `onboarded`.

`set_user_attribute` asks nobody what status the user has: it is the browser
that offers a change only to users who are active, paused or inactive
(`user_management.js:514`), on a table that may be old, and it posts 'deleted'
for any user (`user_management.js:384`). So the page of the model sets any
status it offers, or deleted, over any other, and an administrator who sets the
status of a disabled user is, beside START, a way back that
`OnlyOlderCopiesUndoOptOut` allows. The onboarding thread shares the page's user
object, and first sleeps five seconds; the page's second save is taken to come
in that time.

### Enrollment

`procs` are the requests and threads, the first of them the hourly job. A text
takes the lock of its phone; pages, uploads, new schedules and onboarding
threads do not. `User.create` is `Creating` (cohort loaded, a number looked for,
`Buy` if none has room), `Count`, `Insert`, `ListMissing` and one `TestExecution`
and `CreateExecution` for each schedule, then `Onboard`, and the last save of the
copy. `overwritten` notes a save of a cohort or user that undid another's
change, `aborted` an exception that ended a request: the properties say that
nothing goes wrong without them. The lookup and the query for numbers are one
step. Two uploads do not run together, nor one with the hourly job (`NoUpload`).
The page's test of `COHORT_USER_LIMIT` compares a string with ObjectIds and stops
nobody, so `PageLookup` has no such guard.

### SurveyBuilder

`docs` maps each document to its actions; a message is an action without a
document, a setter is alike. A page loads an item or its parent, and saves it
whole: `marks.raced` notes a save of an older copy, `marks.cut` what was
deleted, `marks.lost` what a run looked for and did not find. The run of a
survey (`Hour`, `Resend`, `Text`, `ManualRun`, then `DoAction` and `Leave`)
reads each document when it comes to it, as `do_actions` does. `marks.refreshed`
notes that `_update_schedule_executions`, which lists idle executions and then
resets them, gave a new period to one that had become active meanwhile;
`marks.overlapped`, that a manual run met another run. What TLC showed the
excuses must cover: an item that is moved in a half-made copy leaves the copy
sharing it with the original; an item deleted in a survey that is being copied
takes the original's item, since `deleter` deletes even what is no longer in its
parent. `AnswerFindsItsQuestion` names the meetings that part a user from the
survey: a survey waits for a user who does not only after two runs met, and a
user waits without the survey only if its schedule was deleted or given a new
period, or a run raised, for want of an item. A copy goes to another cohort,
whose runs are not modelled; a request that raises at once leaves no trace.

### CustomAttributes

The attributes of the cohort with their defaults, those of each user, the names
each document mentions, and the answers a survey stored. A conditional may name two,
that which it tests and that which it compares with ("comparison"; `upper_range` is
alike). A renaming writes the first and the texts alone
(`update_merge_fields_in_object`), so the second is an attribute of the cohort or
the name one had before a renaming (`marks.away`), and a survey that compares with
it reads None. `EditUserAttribute` goes
through the code's passes: cohort, each user, each item, each user again. Saves
that undo another's are marked, as above. The property `SurveyFindsAttribute`
excuses a survey that met two changes of attributes (`marks.again`: the copy of
the user it goes on with has neither the first name nor the last), a user made
while attributes change, and attributes or items changed during a renaming. The
places in a handler and the kinds of request are single words, such as
"edit_attribute", because the prover's translation rejects strings with blanks.

### AdminAccount

A hash and a login are numbered, since bcrypt's salts and times differ; a token
stands for the payload it is the digest of. Login and the setting of a password
write their field; `reset_password` saves the whole document. `marks.stale` says
that a write undid what another request had written since the load.

### Reports

One report of any kind is made while the database changes, `meanwhile` lists
what changed. `Questions` have texts and places in a tree of two levels;
deletion takes the place and then the documents, as `deleter` does. A question of
a survey that was ended while it was sent leaves a response without a schedule:
the list of columns skips it, and the next function files it under the period
of the response read before it (`Mapped`), or raises if it is the first. Responses
are read in any order there. `PageSize` is the limit of the file of answers. Each
query is a step; those made at once, and live cursors as against lists, are fused,
but for the cursor of the histories, which may have a user as it was or as it is
(`PassUser`). The deletion of whole schedules is left out.

## 3. Runs

| run | question | instance |
|---|---|---|
| `lock` | is the lock a mutex, free of lost wake-ups, and live? | 3 threads, 2 numbers, 2 calls each, one kill |
| `period` | are surveys sent when they should be, once, and made up for after outages? | 14 calendars, 24-hour days, 16 days; outages of up to 30 hours for three of the calendars |
| `engine_interrupt` | does the engine survive interruption, sent or not? | a daily survey of two questions, the second below a conditional, and a one-time survey; texts sent or unsent, inactivity limit 2; 4-hour days, 5 hours |
| `engine_creation` | are interrupted and on-creation surveys resumed? | an on-creation and a one-time survey, inactivity limit 2, no reactivation by a text, users created active or pending |
| `engine_faults` | does a pause hold, and does a user who is not active rest, whatever fails and whoever comes in between? | a survey for new users with a message, a question, a conditional and two setters, one of the status; all outcomes of a send, pages and onboarding in mid-handler; 3 hours |
| `document` | do overlapping saves keep the status and its log together, and what can undo an opt-out? | one thread of the hourly job, one text, one page, one onboarding at a time, each any number of times |
| `enrollment` | who is created twice, not welcomed, without an execution or a number? | two requests of any of nine kinds, their threads and the hourly job; two phones, two numbers, one schedule, a limit of one user per cohort and number |
| `builder` | do trees stay whole, and surveys find their place? | two requests of any of eight kinds and two runs, at most three in all, in a tree with a question below a conditional |
| `attributes` | do attributes, users and texts agree? | two pages of any of six kinds, one survey, two users, three names |
| `account` | are passwords, links, signatures and throttles kept? | two requests at a time, three hashes, two logins, a throttle and a life of a link of one unit, two units of time |
| `reports` | do reports add up, and tell what is there? | each of ten kinds with up to three changes, two cohorts, up to four users, slices and pages of two |

The lock: with two numbers a thread can be woken for the wrong number, with
three threads one waiter can overtake another. The calendar: a creation in any
hour of the first week and nine more days meet every position of a period in
the week and every turn of it; the longest period is a week and outages of up
to 30 hours span a survey hour and the resends after it. The engine: a day of 4
hours holds the send hours of both surveys and their resends, hour 5 lies in the
second period of the daily survey, and two questions in a survey are enough to
be interrupted at, before and after the first. In the fault run a survey for new
users is one that both the thread of the onboarding and the hourly job (its resend,
at hour 2) come to, and a run with a message, a question and setters has a step
before, between and after what changes the status; a third hour has the job after
the resend. `MaxNow` bounds the clock, the
lengths of `responses` and `agenda` follow from it. The document: its states are
finite without a bound, so the processes come back for ever, and the proofs
cover any number. Enrollment, builder and attributes bound the requests, not
their steps: two that overlap at any step are what a race takes, and the run, the
threads and the hourly job come in as a third. The limits of one make the second
user meet a full number. Accounts: three hashes are one that is set by each of
two requests after the first; the bounds are reached from every order.
Reports: one change can come between any two queries, three put users and
messages on both sides of a slice's or an interval's edge.

`document_opt_out` is expected to find a violation: a user texts STOP while the
hourly job, which loaded them before, waits for the lock; the job saves its copy
as inactive, and the opt-out is gone, with no page and no onboarding involved.

### Disagreements that have no run

Each was seen in a counterexample or while a definition was written from the
code. The properties above say nothing that a line quoted here contradicts, unless
the bullet names the property and says what it does instead.

* A schedule with `question_period` above one day and no days of the week is
  never sent: `set_recurring_period` starts the period of an idle execution at
  the last send hour and `run_schedules` calls it every hour
  (`schedule_execution.py:129`, `schedule_features.py:54`), so its end slides a
  day ahead every day. `schedules.py:139` has `"question_period": 1,  # in days`, and
  the survey of `tests/test_integration.py:97` has `question_period = 7` and no days
  and is expected to be sent (`:284`, `:542`). `HasSurveyDays` leaves such a
  schedule out of `SentExactlyOnSurveyDays` and `CatchesUp`; what the code does with
  it is the theorem behind them, `RareNeverBegins`.
* START takes a disabled user back to the status before
  (`response_handlers.py:41-51`), a paused one to paused. `docs.html:1812` says of who
  is disabled or inactive that "their Status will change to Active", `docs.html:548`
  likewise, and `tests/test_status_change_messages.py:203` plans a test for
  "User Disabled: ... user status: Status.active"; but `docs.html:531` says that a
  paused recipient "can only be reactivated by an administrator".
  `OptOutKeepsPause` holds the code to the second.
* "Once a Recipient is Disabled or Inactive, you cannot reactivate them"
  (`docs.html:547`), but the server sets any status over any other
  (`user_management.py:155-158`); only the browser tests. In `UserDocument` the page
  is one of the two ways back from an opt-out.
* A question that could not be sent (usage limit, unusable number) pauses its
  survey without a Response (`exit_points.py:82`, `actions.py:65`), and each text of
  the user then raises "Unexpected" (`processing.py:74`) until the period ends.
  `EveryReplyIsExpected` allows that of the question last missed (`missed`) and of
  no other. A survey that sets the status to paused and back to active before it asks
  leads to "Unexpected" too; the run has none.
* "remove executions if user is not active" (`users.py:156`), but a page or a
  blacklisted text that comes while a survey runs clears its execution before
  the run stores it as active (`schedule_execution.py:77`), and an onboarding thread
  that is sleeping makes the new user's surveys active whatever the status is by then.
  `NonActiveHasNoExecutions` says of such a user (`midRun`) only that nothing is asked.
* `update_merge_fields_in_object` "Updates attribute names for Question, Conditional,
  and Schedule objects" (`user_managment_helpers.py:190`), but not the
  `comparison` and `upper_range` of a conditional that compares with an attribute
  (`schedules.py:185`, `actions.py:90-92`), which keep the old name. The invariant
  `ItemsNameAttributes` says so.
* An interrupting survey that only sends a message leaves the survey it
  interrupted behind (`schedule_execution.py:81`), although `docs.html:761` says
  the outstanding question comes again.
* A resend texts the latest unanswered question of any survey
  (`user_messages.py:55`); `docs.html:962` speaks of the interrupted schedule's.
* After an outage a survey may be made up for on a day that is not one of its
  days. A pending user who texts STOP can never come back: START finds no status
  to restore and raises (`response_handlers.py:41`). An action that raises leaves
  the current execution set and without a question, although
  `utils/actions.py:65` speaks of a try-except around the call; `ACTIONS` stores
  the undecorated function. The hourly job may start one survey before it
  resends the question of another, although `docs.html:969` gives resends
  priority.
* `conditional` tests `not conditional`, the function, for a missing document
  (`actions.py:73`), so a run that comes to a deleted conditional raises. While
  the question or schedule a user waits on is deleted, each text raises until
  the next period.
* A history of "All Messages" (`download_data.html:88`) has incoming ones only:
  any type is true (`download_data_helpers.py:338`), and the comment at line 346
  speaks of "incoming only". `SummariesTellAll` says nothing of that choice.
* `get_question_user_response_mapping` catches the error of a response without a
  schedule, which `exit_points.py:95` and `messages.py:176` store, and goes on without
  a `continue` (`download_data_helpers.py:272-282`; `question_sorter.py:93-99` has
  one): the response appears under the period of another, in place of the right one
  perhaps, or the download raises. `RecipientsSeeAnswers` excuses these.
* The file of responses has one page of 50000 (`download_data_helpers.py:155`). The
  file of users ignores the chosen statuses unless deleted users are shown
  (`users.py:194` overwrites the query; `download_data_helpers.py:82`): it has
  the users that were asked for, and others.
  `generate_messages_csv` writes the literal "utf-8" for a text
  (`download_data_helpers.py:74`). A message exactly on the edge of an interval
  ends the tally (`data_reports.py:129`).
* A user created during a renaming of an attribute may be without it, and so may
  the copy of a survey that meets two changes of attributes; a survey then raises,
  or takes the cohort's default for the user's value.

### Fairness

`UserLock!FairSpec`: a thread that was woken runs again, and a handler ends;
nobody has to call. `SurveyEngine!FairSpec`: a running handler takes its next
step, which is what a running thread does. `AnsweringSpec` adds a user who goes
on answering; the property it serves is about such users. No fairness is
assumed of the clock, the hourly job or the administrator. The other modules
state safety alone: what must happen in the end is said of the moment when all
requests are at rest, or when the hourly job leaves a user.

### Type invariants and mutants

Type invariants are conjuncts of one checked invariant of their module
(`OncePerPeriod`, `NoQuestionAskedTwice`, `NumbersKnown`, `TreesAreWhole`,
`UsersHaveAttributes`, `PasswordStands`, `CountsAddUp`), or proved (`UserLock`,
`UserDocument`). Definitions marked "Slip" are variants of a definition with a
plausible mistake: a dropped test, a missing reset, a swapped order.
PROJECT.json pairs each property with a slip that must break it.

## 4. Proofs

`UserLockProofs` proves, for every set of threads and numbers and every bound
on calls and kills: `LockTypeOK`, `LockMutualExclusion`, `LockNoLostWakeup`,
`LockResponders`, `LockKilledHolder`, and `LockRefinesMutex`, that UserLock
implements PhoneMutex. The only assumption is `LockAssumption`, that the two
bounds are natural numbers.

The invariant is `IInv`. Mutual exclusion is not inductive: `__enter__` tests a
shared dictionary, not the holders. `ServedIffHeld` says that the dictionary
lists exactly the numbers that are held, and makes the test one on the holders;
`ResponderEntryIsHolders` does the same for the second dictionary, where it is
needed that a number has one holder. The refinement maps the abstract `held`
to the threads that are inside or killed: `Enter` and `Recheck` are a `Take` or
a stutter, `Exit` is a `Give`, `Kill` a stutter.

`UserDocumentProofs` proves, for any number of processes of each kind:
`DocumentTypeOK`, `DocumentStatusIsLastLogged`, and `DocumentOptOut`, that a
disabled user comes back by START or by an administrator who sets the user's
status, unless a process holds a copy that says otherwise or runs a survey.
`DocumentAssumption` says that None is no document, that users are created
active or pending (`new_user_via_sms`, `User.create`), and that the onboarding
threads are none of the other processes; the last keeps a page from handing its
copy to itself.

That status and log agree is not inductive, because a save writes a copy: the
invariant `IInv` says of every copy what it says of the document (`CopiesLogged`).
For the opt-out it also has to know where a disabled copy may be at work: one
that the hourly job holds before a run is of an active user (`HourCopiesActive`),
so only texts and pages get to the steps that set a status from one
(`OnlyTextsAtText`, `OnlyPagesAtPage`).

`AdminAccountProofs` proves, for any number of requests, any throttle, life of a
link and bounds: `AccountPassword`, `AccountTerms`, `AccountMails` and
`AccountLinks`, the four properties of the run `account`. `AccountAssumption`
says that the parameters are natural numbers and None is none. Again the copies
matter: what is true of the document has to be true of the copies that will be
saved (`CopiesFine`), and the terms of a login's copy are those of the document
or the document is stale (`CopiesSigned`). `Spaced` ties the time of the last mail
to the document and says that one request alone is at work on a reset as long as
no two have met. That a link sets a password once needs a second invariant over
the first (`LinkInv`): a used link is dead, because the hash or the login of its
payload is gone for good (`UsedLinkIsDead`); the hash None may come back when an
internal login clears the one-time password, but then its login is new.

`PeriodClockProofs` proves, for every calendar, horizon and length of outages, all
that the run `period` checks: `QuestionOncePerPeriod`, `ResendsStayInPeriod`,
`SentOnSurveyDays` and `OutageMadeUpFor`. `ClockAssumption` says that no schedule
is a daily limit (those are not run), that the clock goes on for a week at least
and that the bounds on missed hours are natural numbers. `SurveyTimeProofs` has
the lemmas about the calendar: `set_*_period` returns a period that contains the
hour it is asked in, or has none; the least resend time lies inside; the next
survey day of a week is found by both searches of the code, and none lies
between. Two invariants carry the proof. `Periods` says of the execution what
`set_period` keeps: what runs has begun, each start that was served was asked
once, the period of a recurring survey spans from one survey moment to the next.
`Moments` needs it, and speaks of the history: no survey moment lies inside a
period (`NoMomentInside`), every one that passed was served as long as no hour
was missed (`MomentsServed`), and nothing else was (`ServedAreMoments`). "Every n
days" (`question_period` above one, without days of the week) has no survey moments:
the properties are about schedules with survey days (`HasSurveyDays`), and the proof
shows of the others that their periods never begin (`RareNeverBegins`), which is
the first disagreement listed above.

`EnrollmentProofs` proves, for any number of requests, phones, numbers and
schedules and any limits, all that the run `enrollment` checks: `NumbersStayKnown`,
`TextsMakeNoDuplicates`, `HourlyJobMakesAll`, `SchedulesReachUsers` and
`ActiveUsersAreWelcomed`. `EnrollmentAssumption` says that the bounds are natural
numbers and a number takes at least one user, that the first number is one of the
numbers, and that None is no number, phone or the mark of a thread alone. The first part
of the module says, for each document, which users, executions, numbers and
requests a step may make, change or leave, and the invariants cite that. None of
the properties is inductive; each speaks of a moment of rest, and the invariant
behind it says what is on its way until then:

* `Turns`: texts of a phone take turns, since each holds the lock, and the user
  one of them makes is found by the next, unless a page or an upload changed the
  phone (`OneUserByText`, `TextsTakeTurns`, `TextFound`, `PagesMakePageUsers`).
* `NumbersListed`: what was bought is listed, or a save overwrote the list.
* `SchedulesComing`: an execution a user lacks is still to be made by the creator
  of the user or by that of the schedule; one of the two lists after the other
  inserts, which is why the order of `Insert` and `ListMissing` matters.
* `AloneMakes`: while the hourly job is alone, what it has done stays done.
* `OnboardedWelcomed` and `WelcomesComing`: a user who is not welcomed has a
  creator, page or thread that will do it, or the hourly job of an active cohort.

`CustomAttributesProofs` proves, for any number of names, users, pages and
surveys, three of the four properties of the run `attributes`:
`EveryUserHasAttributes`, `SurveysNameAttributes` and `SurveysFindAttributes`.
`AttributesAssumption` says that the bounds are natural numbers, that a cohort
may have a user, and that the first attribute's name is a name. The first part
of the module says what each step does to each document, and what renaming and
copying do to a document's names. The properties speak of a moment when no page
is at work; the invariant `AttributesInvariant` says what is on its way until
then:

* `PairsMet`: two requests at work have met, which is what ties the excuses of
  the properties to the processes.
* `Users`, as long as no excuse holds: an attribute of the cohort that a user
  lacks will be given to that user by a page at work (`AllComing`), and what a
  process has read still holds of the documents (`AllKnow`).
* `Mentioned`: a name in a document is an attribute of the cohort, or a renaming at
  work will change it there. It says nothing of what conditionals compare with:
  `Compared` says of that name, and of all that pages know of it, that it is an
  attribute or was one before a renaming.
* `Attentive`: the copy a survey goes on with has what the cohort has, or the old
  name of what a page renames, unless the survey has met two changes. With
  `Mentioned`, what the survey merges is found.

`SurveyEngineProofs` proves, for any survey trees, calendars, limits and bound on
the clock, all the invariants and action properties that the runs of the engine
check. `EngineAssumption` says that a question is no other kind of action, what
conditionals test and setters may set, that `Config` gives every schedule a
calendar, that the bounds are natural numbers, and that None is none of what the
state holds, the kinds of handlers included.

Two of them hold with pages and onboarding in mid-handler:

* `StatusSpec`: the invariant `StatusInvariant` says that START goes back to the
  status the user had, and that who is not active has no current execution
  (`Rested`); that the copy of the user a run works on is alike, and is active or
  notes that a handler was under way when it lost that (`ThreadFine`); and that no
  execution of such a user is active, or the status was set in the middle of a
  handler. A run saves its copy over whatever pages did, so the invariant has to
  say of the copy all that it says of the document. `NonActiveUsersRest` and
  `PausesOutliveOptOuts` follow from it, for all outcomes of a send.

The other five are about a handler that has the user to itself (`~Overlap`): beside
a page or a second thread the code does not guarantee them (see below).
`OneThread` says that there is no other thread, no page half done, and that the copy
of a run is the user as stored; `OneThreadStep` shows that each step is then one
of `TurnNext`, the same steps with the document in place of the copy, which the
five are proved about.

* `RepliesAreExpected`, that `handle_message` raises "Unexpected" of no question but
  one that was not sent and stored, is proved where no run ends in an exception,
  learns of an opt-out or sets the status (`RunsComplete`); texts may go unsent. The
  invariant `Replies`: a question that is waited for was noted as a Response of
  this period, or is the one its execution missed (`Noted`); a handler's copies are
  what the database has (`UpToDate`); the current execution waits or is under way
  (`CurrentWaits`); the hourly job has passed the execution that asked, so that its
  refresh does not end what it just began (`HourTurns`).
* `NothingIsLeftOver`: when nothing is asked of an active user, no execution
  waits. It takes `RunsComplete` too, that each survey has a question that is asked
  whatever its conditionals say, and that what was interrupted is resumed
  (`EverySurveyAsks`). The invariant `Freedom`, over the
  two before: a run that is no answer has a question before it (`AsksYet`,
  `RunsFrom`), new users' surveys start with the onboarding (`Unmet`, `Onboards`),
  and every live execution has a turn to come in `run_outstanding_schedules`
  (`FreeRests`).
* `SurveysMoveForward`, that an execution only goes on to later questions of its
  tree within a period, whatever becomes of the texts. The invariant `Forward`
  is one of copies too: an execution waits at a question of its tree, in the
  database (`Placed`) and in a handler's memory (`CopiesPlaced`), and what the
  handler has left to do comes after the question its copy waits at
  (`AgendaPlaced`).
* `NoQuestionIsAskedTwice`, which takes that no run changes the user's status
  (`RunsKeepStatus`: no survey sets it, no send reports an opt-out); texts may be
  sent, unsent or end in an exception. `AskInvariant` adds three parts to
  `StatusInvariant` and `Forward`. `Steady`: what waits is active, and a handler's
  copies are what the database has. `Turns`: a handler comes to each execution
  when it should, new users' schedules once. `Once` relates the Responses to the
  periods: an execution is in the period that its calendar says (`Calendars`),
  each Response is of its present period or an earlier one (`Behind`), none of the
  present one while it is at its root (`FromRoot`), and else all of questions up
  to the one it waits at (`AskedBefore`, `NoneYet`). A new question comes after
  all of those.
* `AnswersAreKept`, that a later text overwrites an answer only for an execution
  that has expired, if moreover no exception ends a run. `Pending`: the question
  an execution waits at is unanswered, unless the run that takes the answer is
  still under way (`Open`, `ReplyRuns`).

The hypotheses are where the code's guarantee ends, not a convenience: TLC finds
the properties violated without them. `EveryReplyIsExpected` and
`NothingOutstandingWhenFree` fail by the counterexamples listed under the
disagreements (an exception; a survey that sets the status and asks; an
interrupting survey that only sends a message). With `Overlap` the five fail too.
When a cohort's status is changed and changed back before the loop has come to the
user, a run in between does nothing: an answer is stored and the survey does not go
on, so that the next text overwrites it, or an execution stays behind. And the
thread that onboards a user and the hourly job, when its resend of a new user's
survey is due, run one execution from two copies: the same question is asked
afresh twice, and one of the two takes the survey back. A survey that sets the user to
paused loses the current execution, and the question it sends next is stored
for no period, so that the next run asks it "again". When the run that
takes an answer ends in an exception, its execution stays at the answered
question, and the user's next text overwrites the answer. The run
`engine_interrupt` is an instance that meets all the hypotheses, and
`engine_faults` is one without them for the two that need none.

`TreesInOrder` (in `SurveyEngine`) says what `Preorder`, `Parent` and `After` are
of trees: a node precedes what it holds and earlier siblings precede later ones,
an action has one place in one tree, and a resume goes on with what follows it,
at each level up to the root. It is a hypothesis of the last three
theorems because the prover cannot unfold recursion over data. TLC evaluates it on
the trees of every run of the engine (`TreeAssumption` in `MCSurveyEngine`); the
other theorems take these functions for any value.

What the proofs showed about the models: `OptOutKeepsPause` was once false of a survey
that sets paused, then sends what is blacklisted, then sets active; it excepts
surveys now, and `NonActiveHasNoExecutions` says of all outcomes of a send what it
said of sent texts alone. `SurveyFindsAttribute` was false with
three pages (the run has two): one creates an attribute while another renames it
and a third modifies the item, and a survey that met the first two has neither
name; `marks.again` and the wider excuses come from that. `AnswerKept` was false
with four, and excuses changes of attributes during a renaming since.
`DuplicatesNeedAPage` was false, and no
run reached it. An upload that has loaded a user, whom a page then deletes, saves
a user who was replaced by a text meanwhile: it takes four requests, the run has
two. `Saved` now records that the upload brought the user back, and the property
counts uploads among the pages. A CASE of `MarkOnboarded` had two branches that
could both hold and was settled by TLC's order; it is an IF now. The properties
of `PeriodClock` had relied on the instance's calendars: they are said of
surveys with survey days where the code means those.

Model-checked only: the liveness of the lock and of the engine, since the prover
has no rules for fairness; the four invariants of SurveyBuilder and the four of
Reports; and `AnswerKept` of CustomAttributes. What hangs from a
schedule (`InTree` of SurveyBuilder, `TreesAreWhole`) is a recursive function of
the depth: what it is for every tree takes an induction the prover cannot do, and
the other three rest on it. The reports are folds over what their queries
return, and so are their totals. To prove `AnswerKept` one has to follow an answer
through any number of renamings, and tell an attribute that was renamed away and
created anew from the first one.

## 5. Left out, and the plan

The code under the models that is left out: time zones and daylight saving
(`convert_from_utc`), minutes, the needs-review flags, crisis and problem
messages, `inactive_time_limit`, numeric comparisons in conditionals,
waitlisted or invalid users, access codes, the fields of a form that nothing
reads back, formatting of files and pages. Parsers, message texts, the area-code
table, the simulator and the scripts run by hand are pure functions or callers of
what is modelled. The one-time password and the overlap of hourly jobs are not
modelled: an overlapping job takes the same lock. `Condition`, `Manager`, MongoDB,
mongolia (a save of a document that was removed brings it back) and Twilio are
external.

In the order planned:

1. Proofs of Reports and SurveyBuilder, with what their folds and recursive
   functions are stated as an assumption, as `TreesInOrder` does for the engine.
2. `UserDocument` with the current execution: a save of an older copy brings
   back one that was cleared, and the next text answers a survey that is gone.
   Then what is left of the five properties of the engine when pages and the
   onboarding thread come between the steps of a handler.
3. The hourly job as a whole: the one-time password, the pool, overlapping jobs,
   composed with `UserLock`.
4. An abstract survey (a list of questions and a place in it) that `SurveyEngine`
   implements while sends succeed.
