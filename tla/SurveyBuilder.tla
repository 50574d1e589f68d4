---------------------------- MODULE SurveyBuilder ----------------------------
(***************************************************************************)
(* The survey builder: administrators create, move, modify, delete and     *)
(* copy the items of a schedule's tree while surveys run along it          *)
(* (frontend/pages/admin_portal/survey_builder.py,                         *)
(* backend/admin_portal/survey_builder_helpers.py,                         *)
(* database/backbone/schedules.py).                                        *)
(*                                                                         *)
(* A page loads documents, changes its copies and saves them whole, one    *)
(* after the other; do_actions, recursive_delete and recursive_copy walk a *)
(* tree with the documents as they were when each was reached.  Nothing    *)
(* keeps pages from one another or from the run of a survey.               *)
(***************************************************************************)
EXTENDS Naturals, Sequences, FiniteSets, FiniteSetsExt, SequencesExt

CONSTANTS
    Kinds,       \* the kinds of requests and runs there are
    MaxRequests, \* bound on the requests made
    MaxRuns,     \* bound on the runs that start, of the one user there is
    MaxStarts,   \* bound on both together
    MaxItems     \* bound on the items and actions ever made

ASSUME BuilderAssumption ==
    /\ {MaxRequests, MaxRuns, MaxStarts, MaxItems} \subseteq Nat
    /\ Kinds \subseteq {"create", "move", "modify message", "modify question",
           "modify schedule", "delete", "delete schedule", "copy", "hour", "text", "manual"}

VARIABLES
    kinds,    \* what each id was made for: an item with a document, or a message
    docs,     \* the documents, by id: the action ids of each
    deleted,  \* the deleted flag of the schedule
    exec,     \* the ScheduleExecution of the schedule for the user
    current,  \* whether the user's current_execution is that one
    procs,    \* the requests and runs: where each is, and what it has in memory
    requests, \* how many requests were made ...
    runs,     \* ... and runs
    marks     \* what happened: see NoMarks

documents == <<kinds, docs, deleted, exec, current>>
vars == <<documents, procs, requests, runs, marks>>

Schedule == 1
Done == [kind |-> "done", at |-> "done"]

NoMarks ==
    [raced |-> FALSE,       \* a copy that was no longer true was acted upon
     overlapped |-> FALSE,  \* a manual run met another run
     refreshed |-> FALSE,   \* a survey at work was given a new period
     moved |-> FALSE,       \* an item was moved
     cut |-> {},            \* the items an administrator asked to delete
     failed |-> {},         \* the kinds of requests that raised
     lost |-> {},           \* the places a resumed run did not find
     asked |-> <<>>]        \* the questions asked since the survey began

(* The schedule has a question, then a conditional with a question under it. *)
Init ==
    /\ kinds = <<"schedule", "question", "conditional", "question">>
    /\ docs = <<(<<2, 3>>), <<>>, <<4>>, <<>>>>
    /\ deleted = FALSE
    /\ exec = [there |-> TRUE, active |-> FALSE, state |-> <<>>]
    /\ current = FALSE
    /\ procs = <<>>
    /\ requests = 0 /\ runs = 0
    /\ marks = NoMarks

Exists(i) == i \in DOMAIN docs
Put(i, actions) == i :> actions @@ docs
NewId == Len(kinds) + 1
Running == {k \in DOMAIN procs : procs[k].kind \in {"hour", "text", "manual"}}
Pages == {k \in DOMAIN procs : procs[k].kind # "done"} \ Running
HasDocument(i) == kinds[i] # "message"

(* Process k goes on as p.                                                  *)
Becomes(k, p) == procs' = [procs EXCEPT ![k] = p]
End(k) == Becomes(k, Done)
Raise(k) ==
    /\ End(k)
    /\ marks' = [marks EXCEPT !.failed = @ \cup {procs[k].kind}]
    /\ UNCHANGED <<documents, requests, runs>>

(* A process begins, in the place of one that has ended.                   *)
Add(p) ==
    LET free == {k \in DOMAIN procs : procs[k] = Done}
    IN  procs' = IF free = {} THEN Append(procs, p) ELSE [procs EXCEPT ![Min(free)] = p]

(* save() of a whole document of which copy was loaded; one that is gone    *)
(* comes back.                                                              *)
Save(i, actions, copy) ==
    /\ docs' = Put(i, actions)
    /\ marks' = [marks EXCEPT !.raced = @ \/ ~Exists(i) \/ docs[i] # copy]
-----------------------------------------------------------------------------
(* Requests begin.                                                         *)
Request(kind, at, item, parent) ==
    [kind |-> kind, at |-> at, item |-> item, parent |-> parent, copy |-> <<>>,
     stack |-> <<>>, place |-> <<>>, switch |-> 0]

Begin(request) ==
    /\ request.kind \in Kinds
    /\ requests < MaxRequests /\ requests + runs < MaxStarts
    /\ requests' = requests + 1
    /\ Add(request)
    /\ UNCHANGED <<deleted, exec, current, runs>>

(* A question (or, alike, a conditional) is created before its parent is    *)
(* looked up; a message is an action of the parent only.                   *)
CreateItem(kind, parent) ==
    /\ Len(kinds) < MaxItems
    /\ kinds' = Append(kinds, kind)
    /\ docs' = IF kind = "message" THEN docs ELSE Put(NewId, <<>>)
    /\ Begin(Request("create", "load", NewId, parent))
    /\ UNCHANGED marks

(* The index comes from a page that may be older than the parent.          *)
MoveAction(parent, index, up) ==
    /\ Begin([Request("move", "save", index, parent) EXCEPT
                  !.copy = docs[parent], !.switch = IF up THEN index - 1 ELSE index + 1])
    /\ marks' = [marks EXCEPT !.moved = TRUE]
    /\ UNCHANGED <<kinds, docs>>

ModifyMessage(parent) ==
    /\ \E i \in Range(docs[parent]) : ~HasDocument(i)
    /\ Begin([Request("modify message", "save", 0, parent) EXCEPT !.copy = docs[parent]])
    /\ UNCHANGED <<kinds, docs, marks>>

(* The conditionals to be rewritten are loaded before any is saved.         *)
ModifyQuestion(q, some) ==
    /\ kinds[q] = "question"
    /\ some \subseteq {c \in Range(docs[q]) : kinds[c] = "conditional"}
    /\ Begin([Request("modify question", "rewrite", 0, q) EXCEPT
                  !.stack = SetToSeq({<<c, IF Exists(c) THEN docs[c] ELSE <<0>>>> : c \in some})])
    /\ UNCHANGED <<kinds, docs, marks>>

(* The executions that are not active are listed ...                        *)
ModifySchedule ==
    /\ ~deleted /\ exec.there /\ ~exec.active
    /\ Begin(Request("modify schedule", "refresh", 0, Schedule))
    /\ UNCHANGED <<kinds, docs, marks>>

Deleting(i) == [id |-> i, copy |-> docs[i], rest |-> docs[i]]

DeleteItem(i, parent) ==
    /\ i \in Range(docs[parent])
    /\ HasDocument(i) => Exists(i)
    /\ Begin([Request("delete", "load", i, parent) EXCEPT
                  !.stack = IF HasDocument(i) THEN <<Deleting(i)>> ELSE <<>>])
    /\ marks' = [marks EXCEPT !.cut = @ \cup {i}]
    /\ UNCHANGED <<kinds, docs>>

DeleteSchedule ==
    /\ "delete schedule" \in Kinds /\ ~deleted
    /\ requests < MaxRequests /\ requests + runs < MaxStarts
    /\ deleted' = TRUE
    /\ requests' = requests + 1
    /\ Add(Request("delete schedule", "remove", 0, Schedule))
    /\ UNCHANGED <<kinds, docs, exec, current, runs, marks>>

(* What hangs from the items of S.                                          *)
Below(S) == LET level[n \in 0 .. MaxItems] ==
                    IF n = 0 THEN S
                    ELSE LET above == level[n - 1]
                         IN  above \cup UNION {Range(docs[i]) : i \in above \cap DOMAIN docs}
            IN  level[MaxItems]

(* recursive_attribute_check reads the tree, and raises if an item is not   *)
(* there; then the schedule is copied, with its actions as they are.        *)
CopySurvey ==
    LET tree == Below({Schedule})
    IN  /\ \A i \in tree : HasDocument(i) => Exists(i)
        /\ Len(kinds) + Cardinality(tree) <= MaxItems
        /\ kinds' = Append(kinds, "schedule")
        /\ docs' = Put(NewId, docs[Schedule])
        /\ Begin([Request("copy", "walk", 0, 0) EXCEPT
               !.stack = <<[id |-> NewId, copy |-> docs[Schedule], rest |-> docs[Schedule], new |-> <<>>]>>])
        /\ UNCHANGED marks

Arrive ==
    \/ \E kind \in {"question", "message"}, parent \in DOMAIN docs :
           CreateItem(kind, parent)
    \/ \E parent \in DOMAIN docs, index \in 1 .. 2, up \in BOOLEAN : MoveAction(parent, index, up)
    \/ \E parent \in DOMAIN docs : ModifyMessage(parent)
    \/ \E q \in DOMAIN docs : \E some \in SUBSET Range(docs[q]) : ModifyQuestion(q, some)
    \/ \E parent \in DOMAIN docs : \E i \in Range(docs[parent]) : DeleteItem(i, parent)
    \/ ModifySchedule \/ DeleteSchedule \/ CopySurvey
-----------------------------------------------------------------------------
(* The pages go on.                                                        *)

(* item_finder of the parent                                                *)
LoadParent(k) ==
    LET p == procs[k]
    IN  /\ p.at = "load"
        /\ IF Exists(p.parent)
           THEN /\ Becomes(k, [p EXCEPT !.at = "save", !.copy = docs[p.parent]])
                /\ UNCHANGED <<documents, requests, runs, marks>>
           ELSE Raise(k)

Swapped(s, i, j) == [s EXCEPT ![i] = s[j], ![j] = s[i]]
Saving(k, kind) == procs[k].kind = kind /\ procs[k].at = "save"

AddAction(k) ==
    LET p == procs[k]
    IN  /\ Saving(k, "create")
        /\ Save(p.parent, Append(p.copy, p.item), p.copy)
        /\ End(k)
        /\ UNCHANGED <<kinds, deleted, exec, current, requests, runs>>

(* An end of the list has no neighbour; an index past the end raises.       *)
EnactMove(k) ==
    LET p == procs[k]
    IN  /\ Saving(k, "move")
        /\ \/ p.switch \in DOMAIN p.copy /\ p.item \notin DOMAIN p.copy /\ Raise(k)
           \/ /\ IF p.switch \in DOMAIN p.copy /\ p.item \in DOMAIN p.copy
                 THEN Save(p.parent, Swapped(p.copy, p.item, p.switch), p.copy)
                 ELSE p.switch \notin DOMAIN p.copy /\ UNCHANGED <<docs, marks>>
              /\ End(k)
              /\ UNCHANGED <<kinds, deleted, exec, current, requests, runs>>

UpdateAction(k) ==
    /\ Saving(k, "modify message")
    /\ Save(procs[k].parent, procs[k].copy, procs[k].copy)
    /\ End(k)
    /\ UNCHANGED <<kinds, deleted, exec, current, requests, runs>>

(* update_conditionals: each is saved whole; one that was not found raises. *)
UpdateConditionals(k) ==
    LET p == procs[k]
        c == Head(p.stack)
    IN  /\ p.at = "rewrite"
        /\ \/ /\ p.stack = <<>>
              /\ End(k)
              /\ UNCHANGED <<documents, requests, runs, marks>>
           \/ p.stack # <<>> /\ c[2] = <<0>> /\ Raise(k)
           \/ /\ p.stack # <<>> /\ c[2] # <<0>>
              /\ Save(c[1], c[2], c[2])
              /\ Becomes(k, [p EXCEPT !.stack = Tail(@)])
              /\ UNCHANGED <<kinds, deleted, exec, current, requests, runs>>

(* ... and get a new period, whether they still are active or not.          *)
RefreshExecution(k) ==
    /\ procs[k].at = "refresh"
    /\ exec' = [exec EXCEPT !.active = FALSE, !.state = <<>>]
    /\ marks' = [marks EXCEPT !.refreshed = @ \/ exec.active]
    /\ End(k)
    /\ UNCHANGED <<kinds, docs, deleted, current, requests, runs>>

RemoveExecution(k) ==
    /\ procs[k].at = "remove"
    /\ exec' = [there |-> FALSE, active |-> FALSE, state |-> <<>>]
    /\ End(k)
    /\ UNCHANGED <<kinds, docs, deleted, current, requests, runs, marks>>

(* Slip: the parent keeps the item.                                         *)
WithoutNothing(s, i) == s

Without(s, i) == SelectSeq(s, LAMBDA j : j # i)

(* remove_from_parent saves if the item is in the copy; what hangs from the *)
(* item is deleted in any case.                                             *)
RemoveFromParent(k) ==
    LET p == procs[k]
    IN  /\ Saving(k, "delete")
        /\ IF p.item \in Range(p.copy)
           THEN Save(p.parent, Without(p.copy, p.item), p.copy)
           ELSE docs' = docs /\ marks' = [marks EXCEPT !.raced = TRUE]
        /\ IF HasDocument(p.item) THEN Becomes(k, [p EXCEPT !.at = "walk"]) ELSE End(k)
        /\ UNCHANGED <<kinds, deleted, exec, current, requests, runs>>

(* The walk goes on with what is below its first document, or is done.     *)
Push(p, frame) == [p EXCEPT !.stack = <<frame>> \o [@ EXCEPT ![1].rest = Tail(@)]]
Skip(p) == [p EXCEPT !.stack[1].rest = Tail(@)]
Pop(k) == IF Len(procs[k].stack) = 1 THEN End(k)
          ELSE Becomes(k, [procs[k] EXCEPT !.stack = Tail(@)])
Walking(k, S) == procs[k].kind \in S /\ procs[k].at = "walk"

(* recursive_delete: first what the copy has as its actions, then itself.   *)
RecursiveDelete(k) ==
    LET p == procs[k]
        f == Head(p.stack)
        a == Head(f.rest)
    IN  /\ Walking(k, {"delete"})
        /\ IF f.rest = <<>>
           THEN /\ docs' = [i \in DOMAIN docs \ {f.id} |-> docs[i]]
                /\ marks' = [marks EXCEPT !.raced = @ \/ (Exists(f.id) /\ docs[f.id] # f.copy)]
                /\ Pop(k)
           ELSE /\ Becomes(k, IF Exists(a) THEN Push(p, Deleting(a)) ELSE Skip(p))
                /\ UNCHANGED <<docs, marks>>
        /\ UNCHANGED <<kinds, deleted, exec, current, requests, runs>>

(* Slip: a message keeps its id.                                            *)
NameOld(a) == IF HasDocument(a) THEN NewId ELSE a

Name(a) == NewId

(* recursive_copy: an item is created with the actions of the original, and *)
(* saved again when the copies of these have been made.                     *)
RecursiveCopy(k) ==
    LET p == procs[k]
        f == Head(p.stack)
        a == Head(f.rest)
        named == [p EXCEPT !.stack[1].new = Append(@, Name(a))]
    IN  /\ Walking(k, {"copy"})
        /\ \/ /\ f.rest = <<>>
              /\ Save(f.id, f.new, f.copy)
              /\ Pop(k)
              /\ UNCHANGED <<kinds, deleted, exec, current, requests, runs>>
           \/ f.rest # <<>> /\ HasDocument(a) /\ ~Exists(a) /\ Raise(k)
           \/ /\ f.rest # <<>> /\ Len(kinds) < MaxItems
              /\ kinds' = Append(kinds, kinds[a])
              /\ \/ ~HasDocument(a) /\ docs' = docs /\ Becomes(k, Skip(named))
                 \/ /\ Exists(a)
                    /\ docs' = Put(NewId, docs[a])
                    /\ Becomes(k, Push(named, [id |-> NewId, copy |-> docs[a],
                                               rest |-> docs[a], new |-> <<>>]))
              /\ UNCHANGED <<deleted, exec, current, requests, runs, marks>>
-----------------------------------------------------------------------------
(* Runs of the survey.  The hourly job and texts hold the user's lock.     *)
Locked == \E k \in Running : procs[k].kind \in {"hour", "text"}

(* ScheduleExecution.run, from a state, which was stored as stored.         *)
Run(kind, state, resend, stored) ==
    /\ kind \in Kinds /\ ~deleted /\ exec.there
    /\ exec' = stored
    /\ current' = TRUE
    /\ Add([Request(kind, "walk", 0, 0) EXCEPT
           !.stack = <<[id |-> Schedule, rest |-> docs[Schedule]]>>,
           !.place = IF state = <<>> THEN <<>> ELSE Tail(state),
           !.switch = IF resend THEN 1 ELSE 0])
    /\ marks' = [marks EXCEPT !.asked = IF state = <<>> THEN <<>> ELSE @,
                              !.overlapped = @ \/ Running # {}]
    /\ UNCHANGED <<kinds, docs, deleted, requests>>

Starts == runs < MaxRuns /\ requests + runs < MaxStarts /\ runs' = runs + 1

(* A period begins.                                                        *)
Hour ==
    /\ ~Locked /\ Starts
    /\ Run("hour", <<>>, FALSE, [exec EXCEPT !.active = TRUE, !.state = <<>>])

Resend ==
    /\ exec.active /\ exec.state # <<>>
    /\ ~Locked /\ Starts
    /\ Run("hour", exec.state, TRUE, exec)

(* manually_run_schedule_execution, in a thread of its own                  *)
ManualRun == Starts /\ Run("manual", <<>>, FALSE, [exec EXCEPT !.state = <<>>])

(* An answer; without its execution and its question, the text raises.      *)
Text ==
    /\ current /\ exec.state # <<>> /\ Exists(Last(exec.state))
    /\ ~Locked
    /\ Run("text", exec.state, FALSE, exec)
    /\ UNCHANGED runs

(* Slip: when the place is not found, all is done again.                    *)
FromPlaceOrStart(p) ==
    LET rest == Head(p.stack).rest
        at == {i \in DOMAIN rest : p.place # <<>> /\ rest[i] = Head(p.place)}
    IN  IF at = {} THEN rest ELSE SubSeq(rest, Min(at), Len(rest))

(* Where place is in the rest of the actions; the rest from there on.       *)
FromPlace(p) ==
    LET rest == Head(p.stack).rest
    IN  IF p.place = <<>> THEN rest
        ELSE LET at == {i \in DOMAIN rest : rest[i] = Head(p.place)}
             IN  IF at = {} THEN <<>> ELSE SubSeq(rest, Min(at), Len(rest))

(* Slip: the user's current execution stays.                                *)
FinishStaying ==
    /\ exec' = [exec EXCEPT !.active = FALSE, !.state = <<>>]
    /\ UNCHANGED current

Finish ==
    /\ exec' = [exec EXCEPT !.active = FALSE, !.state = <<>>]
    /\ current' = FALSE

(* do_actions has no more actions, or has not found its place.              *)
Leave(k) ==
    LET p == procs[k]
    IN  /\ Walking(k, {"hour", "text", "manual"})
        /\ FromPlace(p) = <<>>
        /\ marks' = [marks EXCEPT !.lost = IF p.place = <<>> THEN @ ELSE @ \cup {Head(p.place)}]
        /\ IF Len(p.stack) > 1
           THEN Becomes(k, [p EXCEPT !.stack = Tail(@), !.place = <<>>]) /\ UNCHANGED <<exec, current>>
           ELSE End(k) /\ Finish
        /\ UNCHANGED <<kinds, docs, deleted, requests, runs>>

Chain(stack) == Reverse([i \in DOMAIN stack |-> stack[i].id])

(* The chain of documents down to a question is what is stored.             *)
Pause(k, stack, q) ==
    /\ exec' = IF exec.there
               THEN [exec EXCEPT !.active = TRUE, !.state = Append(Chain(stack), q)]
               ELSE exec
    /\ End(k)
    /\ UNCHANGED <<kinds, docs, deleted, current, requests, runs>>

(* One action of a tree: a question or conditional that was resumed is not  *)
(* asked, or tested, again.                                                *)
DoAction(k) ==
    LET p == procs[k]
        rest == FromPlace(p)
        a == Head(rest)
        here == [p EXCEPT !.stack[1].rest = rest]
        skipping == [Skip(here) EXCEPT !.place = <<>>]
        entering == [Push(here, [id |-> a, rest |-> docs[a]]) EXCEPT
                         !.place = IF p.place = <<>> THEN <<>> ELSE Tail(@)]
        Enter == Exists(a) /\ Becomes(k, entering) /\ UNCHANGED <<documents, requests, runs, marks>>
        Pass == Becomes(k, skipping) /\ UNCHANGED <<documents, requests, runs, marks>>
    IN  /\ Walking(k, {"hour", "text", "manual"})
        /\ rest # <<>>
        /\ CASE kinds[a] = "message" -> Pass
             [] kinds[a] = "question" ->
                    IF ~Exists(a) THEN Pass
                    ELSE IF Len(p.place) = 1 /\ p.switch = 1
                    THEN Pause(k, p.stack, a) /\ UNCHANGED marks
                    ELSE IF p.place # <<>> THEN Enter
                    ELSE Pause(k, p.stack, a) /\ marks' = [marks EXCEPT !.asked = Append(@, a)]
             [] OTHER ->
                    \/ ~Exists(a) /\ Raise(k)
                    \/ Enter
                    \/ Exists(a) /\ p.place = <<>> /\ Pass

Next ==
    \/ Arrive
    \/ Hour \/ Resend \/ ManualRun \/ Text
    \/ \E k \in DOMAIN procs :
          \/ LoadParent(k) \/ AddAction(k) \/ EnactMove(k) \/ UpdateAction(k)
          \/ UpdateConditionals(k) \/ RefreshExecution(k) \/ RemoveExecution(k)
          \/ RemoveFromParent(k) \/ RecursiveDelete(k) \/ RecursiveCopy(k)
          \/ Leave(k) \/ DoAction(k)

Spec == Init /\ [][Next]_vars
-----------------------------------------------------------------------------
Schedules == {i \in DOMAIN docs : kinds[i] = "schedule"}
InTree == Below(Schedules)
Copying == \E k \in Pages : procs[k].kind = "copy"
CopiesAreWhole == ~Copying /\ "copy" \notin marks.failed

(* A document has the actions it is given, of ids that were handed out, and *)
(* the execution stores a path from the schedule down.                      *)
TypeOK ==
    /\ DOMAIN docs \subseteq DOMAIN kinds
    /\ \A i \in DOMAIN docs : HasDocument(i) /\ Range(docs[i]) \subseteq DOMAIN kinds
    /\ exec.state # <<>> => /\ exec.there
                            /\ Head(exec.state) = Schedule /\ kinds[Last(exec.state)] = "question"
                            /\ \A i \in 2 .. Len(exec.state) - 1 : HasDocument(exec.state[i])
    /\ runs \in 0 .. MaxRuns /\ requests \in 0 .. MaxRequests

(* Whatever hangs from a schedule is there at every moment of a deletion, a *)
(* move or a copy, and when no page is at work nothing else is; unless      *)
(* somebody saved or deleted an older copy (in a survey that is just being  *)
(* copied, the items still are the original's), or a page raised midway.    *)
(* (The state has its types.)                                               *)
TreesAreWhole ==
    /\ TypeOK
    /\ ~marks.raced /\ CopiesAreWhole => \A i \in InTree : HasDocument(i) => Exists(i)
    /\ Pages = {} /\ ~marks.raced /\ marks.failed \subseteq {"move", "hour", "text", "manual"} =>
          DOMAIN docs \subseteq InTree

(* No two places of the trees name the same action: an edit of a copied     *)
(* survey is no edit of the original.  (A page that loads an item of the    *)
(* copy before it is whole, and saves it after, can break that.)            *)
NothingShared ==
    ~marks.raced /\ CopiesAreWhole =>
        \A i, j \in DOMAIN docs : \A m \in DOMAIN docs[i], n \in DOMAIN docs[j] :
            docs[i][m] = docs[j][n] => i = j /\ m = n

RunRaised == marks.failed \cap {"hour", "text", "manual"} # {}

(* Between two runs the user waits for an answer iff the survey does, and   *)
(* the question is there, whatever was created, moved, modified, copied or  *)
(* deleted meanwhile, and saved from whatever copy; but for four meetings.  *)
(* A survey may wait for a user who does not only if a manual run met       *)
(* another run (survey_builder_helpers.py:316): one of the two then ended   *)
(* after the other had paused.  A user may wait without the survey only if  *)
(* its schedule was deleted, or given a new period while at work            *)
(* (schedules.py:172), or a run raised; and a run raises, or a question is  *)
(* gone, only where items were deleted or an older copy was saved.          *)
AnswerFindsItsQuestion ==
    Running = {} =>
        /\ exec.state # <<>> => current \/ marks.overlapped
        /\ current => \/ exec.active /\ exec.state # <<>>
                      \/ ~exec.there \/ marks.refreshed \/ RunRaised
        /\ RunRaised => marks.cut # {} \/ marks.raced
        /\ exec.state # <<>> => Exists(Last(exec.state)) \/ marks.cut # {}

(* A run that does not find its place, and skips every action, was deprived *)
(* of it by a deletion or by a save of an older copy, while a move keeps    *)
(* places; and unless items were moved no question is asked twice, though   *)
(* items come and go between the answers.                                   *)
RunsKeepTheirPlace ==
    ~marks.raced =>
        /\ marks.lost \subseteq marks.cut
        /\ ~marks.moved /\ ~marks.overlapped => IsInjective(marks.asked)
=============================================================================
