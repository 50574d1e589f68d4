------------------------------ MODULE Reports ------------------------------
(***************************************************************************)
(* The reports and downloads of the administrators, and the counts that    *)
(* cron.py has stored and mailed (frontend/pages/admin_portal/             *)
(* data_reports.py, download_data.py, their helpers in                     *)
(* backend/admin_portal, backend/analytics).                               *)
(*                                                                         *)
(* A report reads the database in several queries, while users arrive and  *)
(* text and administrators edit the survey.  One report of one kind is     *)
(* made; before it and during it the database changes in the ways that     *)
(* this kind of report can see.  The tallies are loops over what was read; *)
(* a loop is taken element by element where its order matters.             *)
(***************************************************************************)
EXTENDS Integers, Sequences, FiniteSets, FiniteSetsExt, SequencesExt

CONSTANTS
    Kinds,       \* the kinds of reports
    ShowDeleted, \* SHOW_DELETED_USERS
    Cohorts,     \* the cohorts; downloads are of cohort 1
    Survey,      \* the schedules to begin with: their subtypes and questions, ...
    Under,       \* ... and the questions under each question
    Now,         \* the time at which the report is made
    Interval,    \* length of an interval of the message report, ...
    Span,        \* ... and of the time it reports on
    Limits,      \* the ends of the intervals of response times
    SliceSize,   \* how many users a count of messages names at most: 500000
    PageSize,    \* how many responses the file of answers has at most: 50000
    MaxChanges,  \* bound on the changes of the database
    MaxUsers     \* bound on the users

ASSUME ReportsAssumption ==
    /\ {Now, Interval, Span, SliceSize, PageSize, MaxChanges, MaxUsers} \subseteq Nat
    /\ Interval >= 1 /\ SliceSize >= 1 /\ Span % Interval = 0 /\ Span <= Now
    /\ 1 \in Cohorts /\ ShowDeleted \in BOOLEAN
    /\ \A q \in DOMAIN Under : \A p \in Range(Under[q]) : Under[p] = <<>>

VARIABLES
    users,     \* the Users
    messages,  \* the Messages and ControlMessages, by time
    times,     \* the ResponseTimes
    responses, \* the Responses
    questions, \* the Questions: the version of the text, and the questions under it
    schedules, \* the Schedules
    kind,      \* which report is made
    at,        \* where it is: idle, ..., done or raised
    list,      \* what it has yet to go through
    result,    \* what it has so far
    meanwhile, \* the changes since it began
    changes    \* how many changes there were

database == <<users, messages, times, responses, questions, schedules>>
vars == <<database, kind, at, list, result, meanwhile, changes>>

Statuses == {"active", "paused", "deleted"}
None == 0

(* What this kind of report does not look at, in new users and messages, is *)
(* fixed.                                                                   *)
NewUser ==
    [cohort : Cohorts, status : {"active"},
     number : IF kind = "billing" THEN BOOLEAN ELSE {TRUE},
     complete : IF kind = "users" THEN BOOLEAN ELSE {TRUE}]
NewMessage ==
    [user : IF kind = "messages" THEN {1} ELSE DOMAIN users,
     time : IF kind = "messages" THEN 0 .. Now ELSE IF kind = "billing" THEN {0, 1} ELSE {1},
     incoming : IF kind \in {"messages", "histories"} THEN BOOLEAN ELSE {FALSE},
     polls : IF kind = "times" THEN BOOLEAN ELSE {FALSE}]

(* The questions that hang from a schedule, at its top level or under one   *)
(* that does.                                                               *)
OnTop(s) == Range(schedules[s].questions)
Hanging(s) ==
    OnTop(s) \cup UNION {Range(questions[q].under) : q \in OnTop(s) \cap DOMAIN questions}

Init ==
    /\ users = [u \in 1 .. 2 |->
                   [cohort |-> 1, status |-> "active", number |-> TRUE, complete |-> TRUE]]
    /\ messages = <<>> /\ times = <<>> /\ responses = <<>>
    /\ schedules = Survey
    /\ questions = [q \in DOMAIN Under |-> [text |-> 1, under |-> Under[q]]]
    /\ kind \in Kinds
    /\ at = "idle" /\ list = <<>> /\ result = <<>>
    /\ meanwhile = <<>> /\ changes = 0
-----------------------------------------------------------------------------
(* The database changes.                                                   *)
Seen ==
    [users      |-> {"user", "status"},
     statuses   |-> {"user", "status"},
     messages   |-> {"message"},
     times      |-> {"user", "message", "time"},
     billing    |-> {"user", "status", "message"},
     csv        |-> {"status"},
     histories  |-> {"status", "message"},
     questions  |-> {"response", "answer", "edit"},
     answers    |-> {"response", "answer"},
     recipients |-> {"response", "answer", "delete", "subtype"}]

Change(what) ==
    /\ what \in Seen[kind] /\ changes < MaxChanges /\ at \notin {"done", "raised"}
    /\ changes' = changes + 1
    /\ meanwhile' = IF at = "idle" THEN <<>> ELSE Append(meanwhile, what)
    /\ UNCHANGED <<kind, at, list, result>>

UserArrives(user) ==
    /\ Change("user") /\ Len(users) < MaxUsers
    /\ users' = Append(users, user)
    /\ UNCHANGED <<messages, times, responses, questions, schedules>>

StatusChanges(u, status) ==
    /\ Change("status") /\ users[u].status # status
    /\ users' = [users EXCEPT ![u].status = status]
    /\ UNCHANGED <<messages, times, responses, questions, schedules>>

(* Messages come in the order of their times.                               *)
MessageStored(message) ==
    /\ Change("message")
    /\ messages # <<>> => message.time >= Last(messages).time
    /\ messages' = Append(messages, message)
    /\ UNCHANGED <<users, times, responses, questions, schedules>>

TimeStored(time) ==
    /\ Change("time")
    /\ times' = Append(times, time)
    /\ UNCHANGED <<users, messages, responses, questions, schedules>>

(* Response.store keeps one response of a user to a question in a period.   *)
(* A question of a survey that was ended while it was sent (the user has no *)
(* current execution) is stored without a schedule and a period, which only *)
(* the summary by recipient looks at.                                       *)
QuestionSent(u, s, q, start) ==
    /\ Change("response")
    /\ IF s = None
       THEN kind = "recipients" /\ start = None /\ \E t \in DOMAIN schedules : q \in Hanging(t)
       ELSE start # None /\ q \in Hanging(s)
    /\ ~\E r \in Range(responses) : r.user = u /\ r.question = q /\ r.start = start
    /\ responses' = Append(responses, [user |-> u, schedule |-> s, question |-> q, start |-> start,
                                       text |-> questions[q].text, answer |-> "none"])
    /\ UNCHANGED <<users, messages, times, questions, schedules>>

QuestionAnswered(r, answer) ==
    /\ Change("answer")
    /\ responses[r].answer = "none"
    /\ responses' = [responses EXCEPT ![r].answer = answer]
    /\ UNCHANGED <<users, messages, times, questions, schedules>>

QuestionEdited(q) ==
    /\ Change("edit")
    /\ questions' = [questions EXCEPT ![q].text = @ + 1]
    /\ UNCHANGED <<users, messages, times, responses, schedules>>

(* deleter takes a question from where it hangs, and then removes it, what  *)
(* is under it first.                                                       *)
PlaceDeleted(s, q) ==
    LET without(actions) == SelectSeq(actions, LAMBDA p : p # q)
    IN  /\ Change("delete") /\ q \in Hanging(s)
        /\ schedules' = [schedules EXCEPT ![s].questions = without(@)]
        /\ questions' = [p \in DOMAIN questions |->
                             [questions[p] EXCEPT !.under = without(@)]]
        /\ UNCHANGED <<users, messages, times, responses>>

QuestionDeleted(q) ==
    /\ Change("delete")
    /\ \A s \in DOMAIN schedules : q \notin Hanging(s)
    /\ Range(questions[q].under) \cap DOMAIN questions = {}
    /\ questions' = [p \in DOMAIN questions \ {q} |-> questions[p]]
    /\ UNCHANGED <<users, messages, times, responses, schedules>>

(* The page that edits a schedule sends the subtype of its open tab.        *)
SubtypeChanged(s) ==
    /\ Change("subtype")
    /\ schedules' = [schedules EXCEPT ![s].subtype =
                        IF @ = "on_user_creation" THEN "recurring" ELSE "on_user_creation"]
    /\ UNCHANGED <<users, messages, times, responses, questions>>

DatabaseChanges ==
    \/ \E user \in NewUser : UserArrives(user)
    \/ \E u \in DOMAIN users, status \in Statuses : StatusChanges(u, status)
    \/ \E message \in NewMessage : MessageStored(message)
    \/ \E time \in 0 .. Max(Range(Limits)) + 1 : TimeStored(time)
    \/ \E u \in DOMAIN users, s \in {None} \cup DOMAIN schedules, q \in DOMAIN questions,
          start \in {None, 1, 2} :
           QuestionSent(u, s, q, start)
    \/ \E r \in DOMAIN responses, answer \in {"yes", "skip", "limit"} : QuestionAnswered(r, answer)
    \/ \E q \in DOMAIN questions : QuestionEdited(q) \/ QuestionDeleted(q)
    \/ \E s \in DOMAIN schedules, q \in DOMAIN questions : PlaceDeleted(s, q)
    \/ \E s \in DOMAIN schedules : SubtypeChanged(s)
-----------------------------------------------------------------------------
(* The report.                                                             *)
Step(k, where) == kind = k /\ at = where
Goto(where, todo, have) ==
    /\ at' = where /\ list' = todo /\ result' = have
    /\ UNCHANGED <<database, kind, meanwhile, changes>>

BeginReport ==
    /\ at = "idle" /\ at' = "begin"
    /\ UNCHANGED <<database, kind, list, result, meanwhile, changes>>

Shown(c) ==
    {u \in DOMAIN users : users[u].cohort = c /\ (ShowDeleted \/ users[u].status # "deleted")}

(* The users report: a user without one of the attributes is a KeyError.    *)
TallyUsers ==
    /\ Step("users", "begin")
    /\ IF \A u \in Shown(1) : users[u].complete
       THEN Goto("count", <<>>, [status \in Statuses |->
                                    Cardinality({u \in Shown(1) : users[u].status = status})])
       ELSE Goto("raised", <<>>, <<>>)

CountUsers ==
    /\ Step("users", "count")
    /\ Goto("done", <<>>, [tally |-> result, count |-> Cardinality(Shown(1))])

(* store_status_counts: a count of each status and cohort; result has their *)
(* sum.                                                                     *)
ListStatuses == Step("statuses", "begin") /\ Goto("count", SetToSeq(Statuses \X Cohorts), 0)

StoreStatusCount ==
    /\ Step("statuses", "count")
    /\ IF list = <<>> THEN Goto("done", list, result)
       ELSE Goto("count", Tail(list), result + Cardinality(
                {u \in DOMAIN users : <<users[u].status, users[u].cohort>> = Head(list)}))

(* The message report.  Its intervals end with the first edge that is not   *)
(* before now; there is one edge more than intervals.                       *)
Edges ==
    LET part == Now % Interval
    IN  [k \in 1 .. Span \div Interval + (IF part > 0 THEN 1 ELSE 0) |->
            Now - part - Span + k * Interval]
Nothing == [k \in DOMAIN Edges |-> 0]

ReadMessages ==
    /\ Step("messages", "begin")
    /\ Goto(IF messages = <<>> THEN "done" ELSE "tally", messages,
            [i |-> 1, all |-> Nothing, incoming |-> Nothing, outgoing |-> Nothing,
             read |-> messages, cut |-> FALSE])

CountedIn(i, m) ==
    LET one == [k \in DOMAIN Edges |-> IF k = i THEN 1 ELSE 0]
        more(counts, is) == [k \in DOMAIN counts |-> counts[k] + (IF is THEN one[k] ELSE 0)]
    IN  [result EXCEPT !.i = i, !.all = more(@, TRUE), !.incoming = more(@, m.incoming),
                       !.outgoing = more(@, ~m.incoming)]

(* Slip: the interval is advanced by one at most.                           *)
NextInterval(i, t) == {j \in {i + 1} : j < Len(Edges)}

Inside(i, t) == {j \in i .. Len(Edges) - 1 : Edges[j] < t /\ t < Edges[j + 1]}

(* A later message that is exactly on an edge is inside no interval: the    *)
(* search runs off the end.  The rest is not counted; whether the warning   *)
(* raises, for it names an _id that was not read, is up to the library.     *)
TallyMessage ==
    /\ Step("messages", "tally") /\ list # <<>>
    /\ LET m == Head(list)
           i == result.i
       IN  \/ m.time < Edges[i] /\ Goto("tally", Tail(list), result)
           \/ /\ m.time >= Edges[i] /\ i < Len(Edges) /\ m.time <= Edges[i + 1]
              /\ Goto("tally", Tail(list), CountedIn(i, m))
           \/ /\ m.time >= Edges[i] /\ (i < Len(Edges) => m.time > Edges[i + 1])
              /\ IF Inside(i, m.time) # {}
                 THEN Goto("tally", Tail(list), CountedIn(Min(Inside(i, m.time)), m))
                 ELSE \E end \in {"tally", "raised"} : Goto(end, <<>>, [result EXCEPT !.cut = TRUE])

EndTally == Step("messages", "tally") /\ list = <<>> /\ Goto("done", <<>>, result)

(* The report on response times: the messages of all users are counted      *)
(* slice by slice, or at once if there are few.                             *)
ListUsers ==
    /\ Step("times", "begin")
    /\ Goto("slice", [u \in DOMAIN users |-> u], [i |-> 0, expected |-> 0])

(* Slip: no last slice, for the users that do not fill one.                 *)
FullSlices(n) == IF n < SliceSize THEN 1 ELSE n \div SliceSize

Slices(n) == IF n < SliceSize THEN 1 ELSE n \div SliceSize + 1

CountSlice ==
    /\ Step("times", "slice")
    /\ LET first == result.i * SliceSize
           slice == {list[k] : k \in {k \in DOMAIN list : first < k /\ k <= first + SliceSize}}
           have == [i |-> result.i + 1,
                    expected |-> result.expected + Cardinality(
                        {m \in DOMAIN messages : messages[m].polls /\ messages[m].user \in slice})]
       IN  Goto(IF have.i < Slices(Len(list)) THEN "slice"
                ELSE IF have.expected = 0 THEN "done" ELSE "tally", list, have)

(* A time belongs to the first interval that ends after it.                 *)
TallyTimes ==
    /\ Step("times", "tally")
    /\ LET ends(t) == {k \in DOMAIN Limits : times[t] < Limits[k]}
           counts == [k \in DOMAIN Limits |->
                         Cardinality({t \in DOMAIN times : ends(t) # {} /\ Min(ends(t)) = k})]
       IN  Goto("done", <<>>, [i |-> result.i, expected |-> result.expected, counts |-> counts])
-----------------------------------------------------------------------------
(* The monthly bill: the largest count of each cohort, and one of them all. *)
ListCohorts == Step("billing", "begin") /\ Goto("bill", SetToSeq(Cohorts), 0)

Writers == {messages[m].user : m \in {m \in DOMAIN messages :
                                         0 < messages[m].time /\ messages[m].time < Now}}
Kept == {u \in DOMAIN users : users[u].status # "deleted"}
Numbered == {u \in DOMAIN users : users[u].number}

Billed(of) ==
    Max({Cardinality(of \cap group) : group \in
            {Writers, Kept, Numbered, Writers \cup (Numbered \cap Kept),
             Writers \cup Kept \cup Numbered}})

BillCohort ==
    /\ Step("billing", "bill") /\ list # <<>>
    /\ Goto("bill", Tail(list),
            result + Billed({u \in DOMAIN users : users[u].cohort = Head(list)}))

BillAll ==
    /\ Step("billing", "bill") /\ list = <<>>
    /\ Goto("done", <<>>, [cohorts |-> result,
                           all |-> Cardinality(Writers \cup (Numbered \cap Kept))])

(* The file of users: the query for the chosen statuses is overwritten by   *)
(* the one that leaves out deleted users.                                   *)
DownloadUsers ==
    /\ Step("csv", "begin")
    /\ \E statuses \in SUBSET Statuses :
          LET chosen == IF ShowDeleted THEN statuses ELSE statuses \ {"deleted"}
              rows == {u \in Shown(1) : ShowDeleted => users[u].status \in chosen}
          IN  Goto("done", <<>>, [chosen |-> chosen, rows |-> {users[u].status : u \in rows}])

(* The histories: a file for each user, and one with them all, that has     *)
(* their rows after the first header.                                       *)
Header == 0
NoMessages == -1

(* Any type that is asked for, "all" too, leaves incoming messages alone.   *)
(* The users are gone through with a cursor, ...                            *)
ListRecipients ==
    /\ Step("histories", "begin")
    /\ \E type \in {"all", "incoming", "none"} :
          Goto("history", [u \in DOMAIN users |-> u],
               [type |-> type, incoming |-> type # "none", compiled |-> <<>>,
                had |-> DOMAIN messages, of |-> Shown(1)])

(* ... which has a user as the first query found it or as it is now.        *)
PassUser ==
    /\ Step("histories", "history") /\ list # <<>>
    /\ Head(list) \notin result.of \cap Shown(1)
    /\ Goto("history", Tail(list), result)

WriteHistory ==
    /\ Step("histories", "history")
    /\ IF list = <<>> THEN Goto("done", list, result)
       ELSE LET mine == {m \in DOMAIN messages : messages[m].user = Head(list)
                                                 /\ (result.incoming => messages[m].incoming)}
                rows == IF mine = {} THEN <<NoMessages>> ELSE SetToSortSeq(mine, <)
            IN  /\ Head(list) \in result.of \cup Shown(1)
                /\ Goto("history", Tail(list),
                     [result EXCEPT !.compiled = IF @ = <<>> THEN <<Header>> \o rows ELSE @ \o rows])
-----------------------------------------------------------------------------
(* Slip: a limit that was reached is shown as no answer.                    *)
FormatAnswerOnly(answer) == IF answer = "skip" THEN "skipped" ELSE answer

FormatAnswer(answer) == IF answer \in {"skip", "limit"} THEN "skipped" ELSE answer

(* process_response_data: the responses that are there, in any order.       *)
ReadResponses ==
    /\ Step("questions", "begin")
    /\ Goto("tally", DOMAIN responses, <<>>)

Bump(counts, label) ==
    [l \in DOMAIN counts \cup {label} |->
        (IF l \in DOMAIN counts THEN counts[l] ELSE 0) + (IF l = label THEN 1 ELSE 0)]

(* The text is that of the response that was sent last.                     *)
WithResponse(r, d) ==
    LET new == d.sent < r
    IN  [counts |-> Bump(d.counts, FormatAnswer(responses[r].answer)),
         text |-> IF new THEN responses[r].text ELSE d.text,
         sent |-> IF new THEN r ELSE d.sent]

TallyResponse ==
    /\ Step("questions", "tally")
    /\ \/ list = {} /\ Goto("done", <<>>, result)
       \/ \E r \in list :
             LET q == responses[r].question
                 d == IF q \in DOMAIN result THEN result[q]
                      ELSE [counts |-> <<>>, text |-> 0, sent |-> 0]
             IN  Goto("tally", list \ {r},
                      [p \in DOMAIN result \cup {q} |->
                          IF p = q THEN WithResponse(r, d) ELSE result[p]])

(* The file of answers: the responses by question, with two more queries    *)
(* for each; a last row says that there are none.  One page of responses is *)
(* read, by their _ids, which are random.                                   *)
ListAnswers ==
    /\ Step("answers", "begin")
    /\ \E page \in kSubset(Min({PageSize, Len(responses)}), DOMAIN responses) :
          Goto("row", SetToSortSeq(page,
                         LAMBDA r, o : responses[r].question < responses[o].question), <<>>)

WriteAnswer ==
    /\ Step("answers", "row")
    /\ IF list = <<>> THEN Goto("done", list, Append(result, 0))
       ELSE Goto("row", Tail(list),
                 IF responses[Head(list)].user \in DOMAIN users
                 THEN Append(result, Head(list)) ELSE result)
-----------------------------------------------------------------------------
(* The summary by recipient: the order of the questions in each survey.     *)
(* The schedules are read, then the questions one by one, as deep as they   *)
(* go; one that is gone by then is an error, ...                            *)
Places(s, actions) == [k \in DOMAIN actions |-> <<s, actions[k]>>]

ReadSchedules ==
    /\ Step("recipients", "begin")
    /\ Goto("order",
            FlattenSeq([s \in DOMAIN schedules |-> Places(s, schedules[s].questions)]),
            [order |-> [s \in DOMAIN schedules |-> <<>>], had |-> DOMAIN responses])

OrderQuestion ==
    /\ Step("recipients", "order") /\ list # <<>>
    /\ LET s == Head(list)[1]
           q == Head(list)[2]
       IN  IF q \in DOMAIN questions
           THEN Goto("order", Places(s, questions[q].under) \o Tail(list),
                     [result EXCEPT !.order[s] = Append(@, q)])
           ELSE Goto("raised", <<>>, <<>>)

(* get_survey_period_start_time: 0 for surveys on user creation; a response *)
(* without a schedule has none: NonexistentObjectError.                     *)
Scheduled == {r \in DOMAIN responses : responses[r].schedule # None}
PeriodStart(r) ==
    IF schedules[responses[r].schedule].subtype = "on_user_creation" THEN 0 ELSE responses[r].start
Key(r) == <<PeriodStart(r), responses[r].question>>

(* The survey that has one of the questions at its top level, or the first. *)
Applicable(asked) ==
    LET having == {s \in DOMAIN schedules : OnTop(s) \cap asked # {}}
    IN  IF having = {} THEN 1 ELSE Min(having)

Rank(q, order) == Min({k \in DOMAIN order : order[k] = q} \cup {Len(order) + 1})

(* ... the questions that were asked, by period and in that order, deleted  *)
(* ones last; a response without a schedule is skipped, ...                 *)
ListQuestions ==
    /\ Step("recipients", "order") /\ list = <<>>
    /\ LET keys == {Key(r) : r \in Scheduled}
           asked(start) == {key[2] : key \in {key \in keys : key[1] = start}}
           rank(key) == Rank(key[2], result.order[Applicable(asked(key[1]))])
           before(one, other) ==
               one[1] < other[1] \/ (one[1] = other[1] /\ rank(one) < rank(other))
       IN  Goto("map", <<>>, [columns |-> SetToSortSeq(keys, before), had |-> result.had])

(* Slip: the period is not part of the key.                                 *)
MappedByQuestion(order, k, column) == responses[order[k]].question = column[2]

(* The k-th response that is read goes under its key.  The error of one     *)
(* without a schedule is caught, and it goes under the period of the one    *)
(* that was read last.                                                      *)
Mapped(order, k, column) ==
    LET before == {j \in 1 .. k : order[j] \in Scheduled}
    IN  <<PeriodStart(order[Max(before)]), responses[order[k]].question>> = column

(* ... the responses of each, read in some order, of which the last of a    *)
(* user stays, and the rows.  If the first that is read has no schedule,    *)
(* there is no period to take: an UnboundLocalError.                        *)
MapResponses ==
    /\ Step("recipients", "map")
    /\ \E order \in SetToSeqs(DOMAIN responses) :
          IF order # <<>> /\ order[1] \notin Scheduled THEN Goto("raised", <<>>, <<>>)
          ELSE LET cells(c, u) == {k \in DOMAIN order : /\ responses[order[k]].user = u
                                                        /\ Mapped(order, k, result.columns[c])}
                   cell(c, u) == IF cells(c, u) = {} THEN 0 ELSE order[Max(cells(c, u))]
               IN  Goto("row", [u \in DOMAIN users |-> u],
                        [columns |-> result.columns, had |-> result.had, read |-> responses,
                         map |-> [c \in DOMAIN result.columns |->
                                     [u \in DOMAIN users |-> cell(c, u)]],
                         rows |-> <<>>])

(* A column that the responses no longer have is a KeyError.                *)
WriteRow ==
    /\ Step("recipients", "row")
    /\ IF list = <<>> THEN Goto("done", list, result)
       ELSE IF \E c \in DOMAIN result.map : Range(result.map[c]) = {0} THEN Goto("raised", <<>>, result)
       ELSE Goto("row", Tail(list),
                 [result EXCEPT !.rows = Append(@, [c \in DOMAIN result.map |->
                                                       result.map[c][Head(list)]])])

Report ==
    \/ BeginReport
    \/ TallyUsers \/ CountUsers \/ ListStatuses \/ StoreStatusCount
    \/ ReadMessages \/ TallyMessage \/ EndTally
    \/ ListUsers \/ CountSlice \/ TallyTimes
    \/ ListCohorts \/ BillCohort \/ BillAll
    \/ DownloadUsers \/ ListRecipients \/ PassUser \/ WriteHistory
    \/ ReadResponses \/ TallyResponse \/ ListAnswers \/ WriteAnswer
    \/ ReadSchedules \/ OrderQuestion \/ ListQuestions \/ MapResponses \/ WriteRow

Next == DatabaseChanges \/ Report

Spec == Init /\ [][Next]_vars
-----------------------------------------------------------------------------
TypeOK ==
    /\ Range(users) \subseteq
           [cohort : Cohorts, status : Statuses, number : BOOLEAN, complete : BOOLEAN]
    /\ Len(users) <= MaxUsers /\ changes <= MaxChanges
    /\ kind \in Kinds
    /\ at \in {"idle", "begin", "count", "tally", "slice", "bill", "history", "row",
               "order", "map", "done", "raised"}

Done(k) == kind = k /\ at = "done"
Sum(f) == MapThenSumSet(LAMBDA k : f[k], DOMAIN f)
Apart(m, n) == IF m < n THEN n - m ELSE m - n

(* Counts that are made of several queries differ from the one they stand   *)
(* for by no more than what changed in between: the tallies of the users    *)
(* report from the number of users, the counts of each status and cohort    *)
(* from the users there are, the slices' messages from all that ask a       *)
(* question; and the cohorts' bills together are not below that of them     *)
(* all.                                                                     *)
CountsAddUp ==
    /\ TypeOK
    /\ Done("users") => Apart(Sum(result.tally), result.count) <= Len(meanwhile)
    /\ Done("statuses") => Apart(result, Len(users)) <= Len(meanwhile)
    /\ Done("times") =>
           Apart(result.expected, Cardinality({m \in DOMAIN messages : messages[m].polls}))
               <= Len(meanwhile)
    /\ Done("billing") => result.cohorts + Len(meanwhile) >= result.all

(* The message report counts each message once, in the interval in which it *)
(* was sent, and gives up only at a message that is exactly on an edge.     *)
MessagesInTheirIntervals ==
    LET onEdge == \E m \in DOMAIN result.read : result.read[m].time \in Range(Edges)
        within(k) == {m \in DOMAIN result.read : Edges[k] < result.read[m].time
                                                 /\ result.read[m].time < Edges[k + 1]}
    IN  kind = "messages" /\ at \in {"done", "raised"} =>
            /\ at = "raised" \/ result.cut => onEdge
            /\ ~onEdge => \A k \in 1 .. Len(Edges) - 1 :
                              /\ result.all[k] = Cardinality(within(k))
                              /\ result.all[k] = result.incoming[k] + result.outgoing[k]

(* Summaries that were made while nothing changed tell all: for each        *)
(* question the number of each answer, and the last text, whatever the      *)
(* order of the responses; a row for each response, up to one page; the     *)
(* users of the statuses that were chosen.  The compiled history has, under *)
(* one header, each message of each user once, or each incoming one if      *)
(* those were asked for, unless the user's status changed meanwhile.        *)
(* "All" messages are not all of them, so nothing is said of those (README).*)
SummariesTellAll ==
    /\ Done("questions") /\ meanwhile = <<>> =>
           \A q \in {responses[r].question : r \in DOMAIN responses} :
               LET sent == {r \in DOMAIN responses : responses[r].question = q}
                   shown == [yes |-> {"yes"}, none |-> {"none"}, skipped |-> {"skip", "limit"}]
                   counts == result[q].counts
               IN  /\ result[q].text = responses[Max(sent)].text
                   /\ DOMAIN counts \subseteq DOMAIN shown
                   /\ \A l \in DOMAIN counts : counts[l] =
                          Cardinality({r \in sent : responses[r].answer \in shown[l]})
                   /\ Sum(counts) = Cardinality(sent)
    /\ Done("answers") /\ meanwhile = <<>> =>
           /\ Len(result) - 1 = Min({PageSize, Len(responses)})
           /\ \A r \in DOMAIN responses :
                  Cardinality({k \in DOMAIN result : result[k] = r}) \in
                      IF Len(responses) <= PageSize THEN {1} ELSE {0, 1}
    /\ Done("csv") /\ meanwhile = <<>> =>
           \A u \in Shown(1) : users[u].status \in result.chosen => users[u].status \in result.rows
    /\ Done("histories") /\ result.type # "all" =>
           LET often(m) == Cardinality({k \in DOMAIN result.compiled : result.compiled[k] = m})
               expected == {m \in result.had : messages[m].user \in result.of
                                  /\ (result.type = "incoming" => messages[m].incoming)}
           IN  /\ result.compiled # <<>> => often(Header) = 1
               /\ \A m \in DOMAIN messages : often(m) <= 1
               /\ "status" \notin Range(meanwhile) => \A m \in expected : often(m) = 1

(* In the summary by recipient the user of each response that was there has *)
(* it under its question and period, or one that shares them since the      *)
(* survey became one on creation.  It fails only when a schedule was edited *)
(* or a question deleted meanwhile, or because a response has no schedule.  *)
(* One without may stand, as anything goes, in the place of another of the  *)
(* same user and question (README).                                         *)
RecipientsSeeAnswers ==
    /\ kind = "recipients" /\ at = "raised" =>
           {"subtype", "delete"} \cap Range(meanwhile) # {} \/ Scheduled # DOMAIN responses
    /\ Done("recipients") /\ "subtype" \notin Range(meanwhile) =>
           \A r \in result.had : result.read[r].schedule # None =>
               \E c \in DOMAIN result.columns :
                   LET sent == result.read[r]
                       shown == result.rows[sent.user][c]
                   IN  /\ result.columns[c][2] = sent.question
                       /\ shown # 0
                       /\ result.read[shown].user = sent.user
                       /\ result.read[shown].question = sent.question
                       /\ result.columns[c][1] = 0 \/ shown = r \/ result.read[shown].schedule = None

=============================================================================
