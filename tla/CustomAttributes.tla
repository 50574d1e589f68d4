-------------------------- MODULE CustomAttributes --------------------------
(***************************************************************************)
(* The custom attributes of a cohort: administrators create, rename,       *)
(* upload and edit them while surveys set, test and merge them             *)
(* (frontend/pages/admin_portal/user_management.py,                        *)
(* backend/admin_portal/user_managment_helpers.py, backend/actions,        *)
(* backend/outgoing/message_builder.py).                                   *)
(*                                                                         *)
(* An attribute is a key of the cohort, with a default, and of every user; *)
(* schedules, questions and conditionals name it.  A page loads documents  *)
(* one after the other and saves each whole; a survey keeps the user it    *)
(* loaded to its end.  Nothing keeps them from one another.                *)
(***************************************************************************)
EXTENDS Naturals, Sequences, FiniteSets, FiniteSetsExt, SequencesExt

CONSTANTS
    Names,       \* the attributes' names
    First,       \* the one there is to begin with
    Kinds,       \* the kinds of pages and surveys there are
    MaxPages,    \* bound on the pages requested
    MaxSurveys,  \* bound on the surveys run
    MaxUsers     \* bound on the users

ASSUME AttributesAssumption ==
    /\ First \in Names
    /\ {MaxPages, MaxSurveys, MaxUsers} \subseteq Nat /\ MaxUsers >= 1

VARIABLES
    cohort,  \* the Cohort: its attributes, with their defaults
    users,   \* the Users: the attributes of each
    items,   \* the names that the schedule, the question and the conditional use
    procs,   \* the pages and surveys: where each is, and what it has in memory
    pages,   \* how many pages were requested, ...
    surveys, \* ... and surveys run
    marks    \* what happened: see NoMarks

documents == <<cohort, users, items>>
counts == <<pages, surveys>>
vars == <<documents, procs, counts, marks>>

Values == {"default", "new_default", "told"}

(* The documents that name an attribute: in a text or as the attribute of a *)
(* conditional.  "comparison" is what the conditional compares it with when *)
(* comparison_is_attribute is set (upper_range is alike).                   *)
Documents == {"schedule", "question", "conditional"}
Items == Documents \cup {"comparison"}
Done == [kind |-> "done", at |-> "done"]

NoMarks ==
    [stale |-> FALSE,    \* a copy that was no longer true was saved
     raised |-> {},      \* the kinds of what raised
     met |-> {},         \* the pairs of kinds that were at work together
     again |-> FALSE,    \* after a survey had met a change of attributes, one met another
     away |-> {},        \* names that attributes had before they were renamed
     name |-> First,     \* what the first attribute is called now
     told |-> "default"] \* what the first user has told for it last

Init ==
    /\ cohort = [n \in {First} |-> "default"]
    /\ users = <<cohort>>
    /\ items = [i \in Items |-> First]
    /\ procs = <<>>
    /\ pages = 0 /\ surveys = 0
    /\ marks = NoMarks

With(f, n, v) == [m \in DOMAIN f \cup {n} |-> IF m = n THEN v ELSE f[m]]
Drop(f, n) == [m \in DOMAIN f \ {n} |-> f[m]]
NewUser == Len(users) + 1
Working == {k \in DOMAIN procs : procs[k].kind # "done"}
Pages == {k \in Working : procs[k].kind # "survey"}

Rename == {"edit_attribute"}
Change == {"create_attribute", "edit_attribute", "upload"}
MakeUser == {"create_user", "upload"}
SurveyMeetsChange == {{"survey", kind} : kind \in Change}

Becomes(k, p) == procs' = [procs EXCEPT ![k] = p]
End(k) == Becomes(k, Done)
Raise(k) ==
    /\ End(k)
    /\ marks' = [marks EXCEPT !.raised = @ \cup {procs[k].kind}]
    /\ UNCHANGED <<documents, counts>>

(* save() of the cohort, or of a user, of which copy was loaded.            *)
SaveCohort(new, copy) ==
    /\ cohort' = new
    /\ marks' = [marks EXCEPT !.stale = @ \/ cohort # copy]
SaveUser(u, new, copy) ==
    /\ users' = [users EXCEPT ![u] = new]
    /\ marks' = [marks EXCEPT !.stale = @ \/ users[u] # copy]
-----------------------------------------------------------------------------
(* Pages begin.                                                            *)
Request(kind, at) ==
    [kind |-> kind, at |-> at, cohort |-> cohort, name |-> First, new |-> First,
     list |-> <<>>, user |-> 0, copy |-> <<>>, items |-> <<>>,
     compared |-> items["comparison"]]

Begin(p) ==
    LET free == {k \in DOMAIN procs : procs[k] = Done}
    IN  /\ p.kind \in Kinds
        /\ procs' = IF free = {} THEN Append(procs, p) ELSE [procs EXCEPT ![Min(free)] = p]
        /\ LET met == {{p.kind, procs[k].kind} : k \in Working}
               more == met \cap SurveyMeetsChange # {} /\ marks.met \cap SurveyMeetsChange # {}
           IN  marks' = [marks EXCEPT !.met = @ \cup met, !.again = @ \/ more]
        /\ UNCHANGED documents

BeginPage(p) ==
    /\ pages < MaxPages
    /\ Begin(p)
    /\ pages' = pages + 1
    /\ UNCHANGED surveys

CreateUserAttribute(n) ==
    /\ n \notin DOMAIN cohort
    /\ BeginPage([Request("create_attribute", "attribute") EXCEPT !.new = n])

(* A default alone, or a name alone, is changed.                            *)
EditUserAttribute(n, new) ==
    /\ n \in DOMAIN cohort /\ (new = n \/ new \notin DOMAIN cohort)
    /\ BeginPage([Request("edit_attribute", IF new = n THEN "default" ELSE "rename") EXCEPT
                      !.name = n, !.new = new])

(* The value is saved with all the user had when it was loaded.             *)
SetUserAttribute(u, n) ==
    /\ n \in DOMAIN cohort
    /\ BeginPage([Request("edit_user", "set") EXCEPT !.user = u, !.copy = users[u], !.new = n])

CreateUser == BeginPage(Request("create_user", "load"))

(* One row, of a user that is new (0), or, unless the upload is a safe one, *)
(* there already.                                                           *)
UploadUserFile(u, n, option) ==
    /\ option = "safe" => u = 0
    /\ BeginPage([Request("upload", IF n \in DOMAIN cohort THEN "row" ELSE "attribute") EXCEPT
                      !.user = u, !.new = n])

(* check_attributes knows the attributes of the cohort that was loaded; a   *)
(* conditional is not checked, but its page offers no others, and posts     *)
(* both that it uses.                                                       *)
ModifyItem(i, n, c) ==
    /\ {n, c} \subseteq DOMAIN cohort
    /\ BeginPage([Request("modify_item", "item") EXCEPT
                      !.items = <<i>>, !.new = n, !.compared = c])

Arrive ==
    \/ \E n \in Names : CreateUserAttribute(n)
    \/ \E n, new \in Names : EditUserAttribute(n, new)
    \/ \E u \in DOMAIN users, n \in Names : SetUserAttribute(u, n)
    \/ CreateUser
    \/ \E u \in {0, 1}, n \in Names, option \in {"safe", "unrestricted"} :
           UploadUserFile(u, n, option)
    \/ \E i \in Documents, n, c \in Names : ModifyItem(i, n, c)
-----------------------------------------------------------------------------
(* Pages go on.                                                            *)
At(k, at) == procs[k].at = at
AllUsers == [u \in DOMAIN users |-> <<u, users[u]>>]

(* Cohort.add_custom_attribute; then the users are listed.                  *)
AddToCohort(k) ==
    LET p == procs[k]
    IN  /\ At(k, "attribute")
        /\ SaveCohort(With(p.cohort, p.new, "default"), p.cohort)
        /\ Becomes(k, [p EXCEPT !.at = "users", !.list = AllUsers])
        /\ UNCHANGED <<users, items, counts>>

(* User.add_custom_attribute, of every user that was listed.                *)
AddToUser(k) ==
    LET p == procs[k]
        u == Head(p.list)
    IN  /\ At(k, "users") /\ p.list # <<>>
        /\ SaveUser(u[1], With(u[2], p.new, "default"), u[2])
        /\ Becomes(k, [p EXCEPT !.list = Tail(@)])
        /\ UNCHANGED <<cohort, items, counts>>

AddedToUsers(k) ==
    LET p == procs[k]
    IN  /\ At(k, "users") /\ p.list = <<>>
        /\ IF p.kind = "upload" THEN Becomes(k, [p EXCEPT !.at = "row"]) ELSE End(k)
        /\ UNCHANGED <<documents, counts, marks>>

ChangeDefault(k) ==
    LET p == procs[k]
    IN  /\ At(k, "default")
        /\ SaveCohort(With(p.cohort, p.name, "new_default"), p.cohort)
        /\ End(k)
        /\ UNCHANGED <<users, items, counts>>

(* Slip: the old name stays in the cohort.                                  *)
BothNames(attributes, n, new) == With(attributes, new, attributes[n])

(* The cohort has the new name first; then the users are listed.            *)
Renamed(attributes, n, new) == With(Drop(attributes, n), new, attributes[n])

RenameInCohort(k) ==
    LET p == procs[k]
    IN  /\ At(k, "rename")
        /\ cohort' = Renamed(p.cohort, p.name, p.new)
        /\ marks' = [marks EXCEPT !.stale = @ \/ cohort # p.cohort,
                                  !.away = @ \cup {p.name},
                                  !.name = IF @ = p.name THEN p.new ELSE @]
        /\ Becomes(k, [p EXCEPT !.at = "copy", !.list = AllUsers])
        /\ UNCHANGED <<users, items, counts>>

(* Slip: the new name gets the default.                                     *)
CopiedDefault(attributes, n, new) == With(attributes, new, "default")

Copied(attributes, n, new) == With(attributes, new, attributes[n])

(* Every user that was listed has both names for a while; one without the   *)
(* old name is a KeyError.  The copies are kept: the list is rotated.       *)
CopyInUser(k) ==
    LET p == procs[k]
        u == p.list[p.user + 1]
    IN  /\ At(k, "copy")
        /\ \/ /\ p.user = Len(p.list)
              /\ Becomes(k, [p EXCEPT !.at = "load_item", !.items = <<"schedule", "question", "conditional">>])
              /\ UNCHANGED <<documents, counts, marks>>
           \/ p.user < Len(p.list) /\ p.name \notin DOMAIN u[2] /\ Raise(k)
           \/ /\ p.user < Len(p.list) /\ p.name \in DOMAIN u[2]
              /\ LET new == Copied(u[2], p.name, p.new)
                 IN  /\ SaveUser(u[1], new, u[2])
                     /\ Becomes(k, [p EXCEPT !.user = @ + 1, !.list[p.user + 1] = <<u[1], new>>])
              /\ UNCHANGED <<cohort, items, counts>>

LoadItem(k) ==
    LET p == procs[k]
    IN  /\ At(k, "load_item")
        /\ Becomes(k, IF p.items = <<>> THEN [p EXCEPT !.at = "remove"]
                      ELSE [p EXCEPT !.at = "save_item", !.copy = items[Head(p.items)],
                                     !.compared = items["comparison"]])
        /\ UNCHANGED <<documents, counts, marks>>

(* Slip: merge fields in texts are left alone.                              *)
MentionsLess(i, name, n) == name = n /\ i # "question"

Mentions(i, name, n) == name = n

(* A document is stored, with both names if it is the conditional.          *)
Written(i, n, c) ==
    [items EXCEPT ![i] = n, !["comparison"] = IF i = "conditional" THEN c ELSE @]

(* update_merge_fields_in_object saves what mentions the old name, in the   *)
(* texts and as "attribute": a comparison keeps the name it had.            *)
SaveItem(k) ==
    LET p == procs[k]
        i == Head(p.items)
    IN  /\ At(k, "save_item")
        /\ IF Mentions(i, p.copy, p.name)
           THEN /\ items' = Written(i, p.new, p.compared)
                /\ marks' = [marks EXCEPT !.stale = @ \/ items # Written(i, p.copy, p.compared)]
           ELSE UNCHANGED <<items, marks>>
        /\ Becomes(k, [p EXCEPT !.at = "load_item", !.items = Tail(@)])
        /\ UNCHANGED <<cohort, users, counts>>

(* The old name goes from the copies that got the new one, saved again.     *)
RemoveFromUser(k) ==
    LET p == procs[k]
        u == Head(p.list)
    IN  /\ At(k, "remove")
        /\ \/ p.list = <<>> /\ End(k) /\ UNCHANGED <<documents, counts, marks>>
           \/ /\ p.list # <<>>
              /\ SaveUser(u[1], Drop(u[2], p.name), u[2])
              /\ Becomes(k, [p EXCEPT !.list = Tail(@)])
              /\ UNCHANGED <<cohort, items, counts>>

(* What is told for the first attribute is noted.                           *)
Tell(u, n, copy) ==
    /\ users' = [users EXCEPT ![u] = With(copy, n, "told")]
    /\ marks' = [marks EXCEPT !.stale = @ \/ users[u] # copy,
                              !.told = IF u = 1 /\ n = marks.name THEN "told" ELSE @]

SaveUserAttribute(k) ==
    LET p == procs[k]
    IN  /\ At(k, "set")
        /\ Tell(p.user, p.new, p.copy)
        /\ End(k)
        /\ UNCHANGED <<cohort, items, counts>>

(* parse_user retrieves the user of the row, or creates one.                *)
ParseRow(k) ==
    LET p == procs[k]
    IN  /\ At(k, "row")
        /\ Becomes(k, IF p.user = 0 THEN [p EXCEPT !.at = "load"]
                      ELSE [p EXCEPT !.at = "set", !.copy = users[p.user]])
        /\ UNCHANGED <<documents, counts, marks>>

(* User.create loads the cohort once more, and later stores its attributes. *)
LoadCohort(k) ==
    /\ At(k, "load")
    /\ Becomes(k, [procs[k] EXCEPT !.at = "insert", !.copy = cohort])
    /\ UNCHANGED <<documents, counts, marks>>

Insert(k) ==
    LET p == procs[k]
    IN  /\ At(k, "insert") /\ NewUser <= MaxUsers
        /\ users' = Append(users, p.copy)
        /\ Becomes(k, [p EXCEPT !.at = IF p.kind = "upload" THEN "set" ELSE "defaults",
                                !.user = NewUser])
        /\ UNCHANGED <<cohort, items, counts, marks>>

(* The page adds the attributes of the cohort that it loaded itself.        *)
AddDefaults(k) ==
    LET p == procs[k]
        new == [n \in DOMAIN p.copy \cup DOMAIN p.cohort |->
                    IF n \in DOMAIN p.cohort THEN p.cohort[n] ELSE p.copy[n]]
    IN  /\ At(k, "defaults")
        /\ SaveUser(p.user, new, p.copy)
        /\ End(k)
        /\ UNCHANGED <<cohort, items, counts>>

WriteItem(k) ==
    LET p == procs[k]
    IN  /\ At(k, "item")
        /\ items' = Written(Head(p.items), p.new, p.compared)
        /\ End(k)
        /\ UNCHANGED <<cohort, users, counts, marks>>
-----------------------------------------------------------------------------
(* Surveys.  The user's lock is held; the schedule is loaded at the start.  *)
BeginSurvey(u) ==
    /\ surveys < MaxSurveys
    /\ \A k \in Working : procs[k].kind = "survey" => procs[k].user # u
    /\ Begin([Request("survey", "set_attribute") EXCEPT
                  !.user = u, !.copy = users[u], !.new = items["schedule"]])
    /\ surveys' = surveys + 1
    /\ UNCHANGED pages

(* set_attribute, to the answer                                             *)
SetAttribute(k) ==
    LET p == procs[k]
    IN  /\ At(k, "set_attribute")
        /\ Tell(p.user, p.new, p.copy)
        /\ Becomes(k, [p EXCEPT !.at = "test", !.copy = With(@, p.new, "told")])
        /\ UNCHANGED <<cohort, items, counts>>

(* conditional reads the user's own values of what it tests and compares    *)
(* with, None for a name the user does not have, and the survey goes on.    *)
TestConditional(k) ==
    /\ At(k, "test")
    /\ Becomes(k, [procs[k] EXCEPT !.at = "send"])
    /\ UNCHANGED <<documents, counts, marks>>

(* The user's own value for an attribute, in the survey's copy.             *)
Own(p, n) == IF n \in DOMAIN p.copy THEN p.copy[n] ELSE "none"

(* Slip: the cohort is not looked at.                                       *)
ValueOfUser(p, n) == Own(p, n)

(* get_custom_attribute_value: the user's, else the cohort's                *)
Value(p, n) ==
    IF n \in DOMAIN p.copy THEN p.copy[n]
    ELSE IF n \in DOMAIN cohort THEN cohort[n] ELSE "none"

SendQuestion(k) ==
    LET p == procs[k]
    IN  /\ At(k, "send")
        /\ IF Value(p, items["question"]) = "none" THEN Raise(k)
           ELSE End(k) /\ UNCHANGED <<documents, counts, marks>>

Next ==
    \/ Arrive
    \/ \E u \in DOMAIN users : BeginSurvey(u)
    \/ \E k \in DOMAIN procs :
          \/ AddToCohort(k) \/ AddToUser(k) \/ AddedToUsers(k)
          \/ ChangeDefault(k) \/ RenameInCohort(k) \/ CopyInUser(k)
          \/ LoadItem(k) \/ SaveItem(k) \/ RemoveFromUser(k)
          \/ SaveUserAttribute(k) \/ ParseRow(k)
          \/ LoadCohort(k) \/ Insert(k) \/ AddDefaults(k) \/ WriteItem(k)
          \/ SetAttribute(k) \/ TestConditional(k) \/ SendQuestion(k)

Spec == Init /\ [][Next]_vars
-----------------------------------------------------------------------------
TypeOK ==
    /\ DOMAIN cohort \subseteq Names
    /\ Len(users) \in 1 .. MaxUsers
    /\ \A u \in DOMAIN users : DOMAIN users[u] \subseteq Names /\ Range(users[u]) \subseteq Values
    /\ items \in [Items -> Names]

Met(some, others) == \E kind \in some, other \in others : {kind, other} \in marks.met

(* When no page is at work, every user has every attribute of the cohort,   *)
(* unless an older copy was saved, a user was made while attributes were    *)
(* changed, or they were changed while one was renamed.                     *)
UsersHaveAttributes ==
    /\ TypeOK
    /\ Pages = {} /\ ~marks.stale /\ ~Met(MakeUser, Change) /\ ~Met(Rename, Change)
       => \A u \in DOMAIN users : DOMAIN cohort \subseteq DOMAIN users[u]

(* When no page is at work, what texts and conditionals name is an          *)
(* attribute of the cohort, unless an item was modified while an attribute  *)
(* was renamed, or a renaming raised in the middle or met a second one.     *)
(* What a conditional compares with is one too, or was before a renaming,   *)
(* since no renaming ever comes to it (README).                             *)
ItemsNameAttributes ==
    /\ Pages = {} /\ ~marks.stale /\ "edit_attribute" \notin marks.raised
       /\ ~Met(Rename, Rename \cup {"modify_item"})
       => \A i \in Documents : items[i] \in DOMAIN cohort
    /\ ~marks.stale => items["comparison"] \in DOMAIN cohort \cup marks.away

(* A survey that goes on while an attribute is created or renamed finds the *)
(* attributes it merges, under the old name or the new, unless something    *)
(* happened that the two properties above excuse, or the survey met two     *)
(* such changes: the user it loaded has neither of the names then.          *)
SurveyFindsAttribute ==
    "survey" \in marks.raised =>
        \/ marks.stale \/ marks.again
        \/ Met(MakeUser, Change) \/ Met(Rename, Change \cup {"modify_item"})

(* What the first user told last for an attribute stays, whatever it is     *)
(* called, unless an older copy was saved, a renaming raised in the middle, *)
(* or items or attributes were changed while one was renamed.               *)
AnswerKept ==
    Pages = {} /\ ~marks.stale /\ "edit_attribute" \notin marks.raised
    /\ ~Met(Rename, Change \cup {"modify_item"})
    => marks.name \in DOMAIN users[1] /\ users[1][marks.name] = marks.told
=============================================================================
