-------------------------- MODULE UserDocumentProofs --------------------------
(***************************************************************************)
(* The safety of the User document for every number of hourly threads,     *)
(* texts, pages and onboarding threads.                                    *)
(***************************************************************************)
EXTENDS UserDocument, TLAPS

(* A document, or a copy of one, whose status is the latest logged.        *)
Logged(d) == d \in Docs /\ d.status = d.last

(* Since every save writes a copy, the copies must be as the document is   *)
(* to be.  The hourly job never changes its copy before it decides.        *)
CopiesLogged == \A p \in Procs : pc[p] # "idle" => Logged(copy[p])
HourCopiesActive == \A p \in Procs : pc[p] \in {"waiting", "hour"} => copy[p].status = "active"
OnlyTextsAtText == \A p \in Procs : pc[p] = "text" => p \in Texts
OnlyPagesAtPage == \A p \in Procs : pc[p] = "page" => p \in Pages

IInv ==
    /\ TypeOK
    /\ StatusIsLastLogged
    /\ CopiesLogged
    /\ HourCopiesActive
    /\ OnlyTextsAtText
    /\ OnlyPagesAtPage

(* set_status logs the status that it sets.                                *)
LEMMA StatusSetLogged ==
  ASSUME NEW d, Logged(d), NEW s \in Statuses
  PROVE  Logged(StatusSet(d, s)) /\ StatusSet(d, s).status = s
  <1>1. CASE s = d.status
    BY <1>1 DEF Logged, StatusSet
  <1>2. CASE s # d.status /\ s \in {"disabled", "inactive", "pending"}
    BY <1>2 DEF Logged, StatusSet, Docs
  <1>3. CASE s # d.status /\ s \in {"active", "paused", "completed", "deleted"}
    BY <1>3 DEF Logged, StatusSet, Docs
  <1>4. QED
    BY <1>1, <1>2, <1>3 DEF Statuses

(* What set_status leaves in the document and in the copy.                 *)
LEMMA SetStatusStep ==
  ASSUME IInv, NEW p \in Procs, pc[p] # "idle", NEW s \in Statuses,
         SaveStatusSet(copy[p], s)
  PROVE  Logged(doc') /\ Logged(StatusSet(copy[p], s))
  <1>1. Logged(copy[p]) /\ Logged(doc)
    BY DEF IInv, CopiesLogged, TypeOK, StatusIsLastLogged, Logged
  <1>2. Logged(StatusSet(copy[p], s))
    BY <1>1, StatusSetLogged
  <1>3. QED
    BY <1>1, <1>2 DEF SaveStatusSet, Save

LEMMA InitIInv == Init => IInv
  <1> SUFFICES ASSUME Init PROVE IInv
    OBVIOUS
  <1>1. PICK s \in InitialStatuses : doc = Created(s)
    BY DEF Init
  <1>2. s \in {"active", "pending"}
    BY DocumentAssumption
  <1>3. doc \in Docs /\ doc.status = doc.last
    BY <1>1, <1>2 DEF Created, Docs, Statuses
  <1>4. QED
    BY <1>3 DEF Init, IInv, TypeOK, StatusIsLastLogged, CopiesLogged, HourCopiesActive,
                OnlyTextsAtText, OnlyPagesAtPage

(* One process p moves, and may start the onboarding thread o: it is       *)
(* enough to look at the document and at the two of them.                  *)
LEMMA MoveStep ==
  ASSUME IInv, NEW p \in Procs, NEW o \in Procs,
         Logged(doc'), lock' \in Procs \cup {None}, optedOut' \in BOOLEAN,
         copy' \in [Procs -> Docs \cup {None}],
         pc' \in [Procs -> {"idle", "waiting", "hour", "text", "run", "running", "notice",
                            "welcomed", "page", "saving"}],
         \A q \in Procs \ {p, o} : pc'[q] = pc[q] /\ copy'[q] = copy[q],
         \A q \in {p, o} :
             /\ pc'[q] # "idle" => Logged(copy'[q])
             /\ pc'[q] \in {"waiting", "hour"} => copy'[q].status = "active"
             /\ pc'[q] = "text" => q \in Texts
             /\ pc'[q] = "page" => q \in Pages
  PROVE  IInv'
  <1>1. TypeOK' /\ StatusIsLastLogged'
    BY DEF TypeOK, StatusIsLastLogged, Logged
  <1>2. CopiesLogged'
    BY DEF IInv, CopiesLogged
  <1>3. HourCopiesActive'
    BY DEF IInv, HourCopiesActive
  <1>4. OnlyTextsAtText'
    BY DEF IInv, OnlyTextsAtText
  <1>5. OnlyPagesAtPage'
    BY DEF IInv, OnlyPagesAtPage
  <1>6. QED
    BY <1>1, <1>2, <1>3, <1>4, <1>5 DEF IInv

(* The same for a step that changes only p, and how p ends.                *)
LEMMA MoveAlone ==
  ASSUME IInv, NEW p \in Procs, NEW place, NEW d,
         Logged(doc'), lock' \in Procs \cup {None}, optedOut' \in BOOLEAN,
         place \in {"waiting", "hour", "text", "run", "running", "notice", "welcomed",
                    "page", "saving"},
         Logged(d),
         place \in {"waiting", "hour"} => d.status = "active",
         place = "text" => p \in Texts,
         place = "page" => p \in Pages,
         pc' = [pc EXCEPT ![p] = place],
         copy' = [copy EXCEPT ![p] = d]
  PROVE  IInv'
  <1>1. copy' \in [Procs -> Docs \cup {None}]
    BY DEF IInv, TypeOK, Logged
  <1>2. pc' \in [Procs -> {"idle", "waiting", "hour", "text", "run", "running", "notice",
                           "welcomed", "page", "saving"}]
    BY DEF IInv, TypeOK
  <1>3. /\ \A q \in Procs \ {p} : pc'[q] = pc[q] /\ copy'[q] = copy[q]
        /\ pc'[p] = place /\ copy'[p] = d
    BY DEF IInv, TypeOK
  <1>4. QED
    BY <1>1, <1>2, <1>3, MoveStep

LEMMA EndStep ==
  ASSUME IInv, NEW p \in Procs, Logged(doc'), optedOut' \in BOOLEAN, End(p)
  PROVE  IInv'
  <1>1. copy' \in [Procs -> Docs \cup {None}]
    BY DEF IInv, TypeOK, End
  <1>2. pc' \in [Procs -> {"idle", "waiting", "hour", "text", "run", "running", "notice",
                           "welcomed", "page", "saving"}]
    BY DEF IInv, TypeOK, End, Goto
  <1>3. /\ \A q \in Procs \ {p} : pc'[q] = pc[q] /\ copy'[q] = copy[q]
        /\ pc'[p] = "idle"
    BY DEF IInv, TypeOK, End, Goto
  <1>4. lock' \in Procs \cup {None}
    BY DEF IInv, TypeOK, End
  <1>5. QED
    BY <1>1, <1>2, <1>3, <1>4, MoveStep

(* set_status on the copy of p, which goes to a place that is neither the  *)
(* hourly job's nor a text's.                                              *)
LEMMA SetStatusMove ==
  ASSUME IInv, NEW p \in Procs, pc[p] # "idle", NEW s \in Statuses, SetStatus(p, s),
         NEW place \in {"run", "running", "notice", "welcomed", "saving"},
         pc' = [pc EXCEPT ![p] = place],
         lock' = lock, optedOut' \in BOOLEAN
  PROVE  IInv'
  <1>1. Logged(doc') /\ Logged(StatusSet(copy[p], s))
    BY SetStatusStep DEF SetStatus
  <1>2. copy' = [copy EXCEPT ![p] = StatusSet(copy[p], s)]
    BY DEF SetStatus, IInv, TypeOK
  <1>3. lock' \in Procs \cup {None}
    BY DEF IInv, TypeOK
  <1>4. QED
    BY <1>1, <1>2, <1>3, MoveAlone

(* p and o, a new onboarding thread, both get the copy d.                  *)
LEMMA OnboardingStarts ==
  ASSUME IInv, NEW p \in Procs, NEW o \in Procs, p # o, NEW d, Logged(d), Logged(doc'),
         lock' \in Procs \cup {None}, optedOut' \in BOOLEAN,
         NEW place \in {"idle", "notice"},
         pc' = [pc EXCEPT ![p] = place, ![o] = "notice"],
         copy' \in [Procs -> Docs \cup {None}],
         copy'[o] = d,
         place = "notice" => Logged(copy'[p]),
         \A q \in Procs \ {p, o} : copy'[q] = copy[q]
  PROVE  IInv'
  <1>1. /\ pc' \in [Procs -> {"idle", "waiting", "hour", "text", "run", "running", "notice",
                              "welcomed", "page", "saving"}]
        /\ \A q \in Procs \ {p, o} : pc'[q] = pc[q]
        /\ pc'[p] = place /\ pc'[o] = "notice"
    BY DEF IInv, TypeOK
  <1>2. QED
    BY <1>1, MoveStep

(* What every action starts from.                                          *)
LEMMA Facts ==
  ASSUME IInv
  PROVE  /\ Logged(doc)
         /\ \A p \in Procs : pc[p] # "idle" => Logged(copy[p])
         /\ \A p \in Procs : copy = [copy EXCEPT ![p] = copy[p]]
         /\ lock \in Procs \cup {None}
         /\ optedOut \in BOOLEAN
         /\ copy \in [Procs -> Docs \cup {None}]
  BY DEF IInv, TypeOK, StatusIsLastLogged, CopiesLogged, Logged

LEMMA HourStep == ASSUME IInv, NEW p \in Procs, Hour(p) PROVE IInv'
  <1> USE Facts
  <1>1. CASE HourLoad(p)
    BY <1>1, MoveAlone DEF HourLoad, Goto
  <1>2. CASE HourEnter(p)
    <2>1. copy[p].status = "active"
      BY <1>2 DEF HourEnter, IInv, HourCopiesActive
    <2>2. QED
      BY <1>2, <2>1, MoveAlone DEF HourEnter, Goto
  <1>3. CASE HourInactive(p)
    BY <1>3, SetStatusMove DEF HourInactive, Goto, Statuses
  <1>4. CASE HourSchedules(p)
    <2>1. CASE Goto(p, "run") /\ UNCHANGED <<copy, lock>>
      BY <1>4, <2>1, MoveAlone DEF HourSchedules, Goto
    <2>2. CASE End(p)
      BY <1>4, <2>2, EndStep DEF HourSchedules
    <2>3. QED
      BY <1>4, <2>1, <2>2 DEF HourSchedules
  <1>5. QED
    BY <1>1, <1>2, <1>3, <1>4 DEF Hour

LEMMA HandledStep ==
  ASSUME IInv, NEW p \in Procs, pc[p] # "idle", Handled(p), optedOut' \in BOOLEAN
  PROVE  IInv'
  <1> USE Facts
  <1>1. CASE Goto(p, "run")
    BY <1>1, MoveAlone DEF Handled, Goto
  <1>2. CASE Goto(p, "notice")
    BY <1>2, MoveAlone DEF Handled, Goto
  <1>3. QED
    BY <1>1, <1>2 DEF Handled

(* The three things a start word may do.                                   *)
LEMMA TextStartStep == ASSUME IInv, NEW p \in Procs, TextStart(p) PROVE IInv'
  <1> USE Facts
  <1>1. pc[p] # "idle" /\ optedOut' \in BOOLEAN
    BY DEF TextStart
  <1>2. CASE /\ copy[p].status = "inactive"
             /\ SetStatus(p, "active") /\ Goto(p, "notice") /\ UNCHANGED lock
    BY <1>1, <1>2, SetStatusMove DEF Goto, Statuses
  <1>3. CASE /\ copy[p].status = "disabled"
             /\ IF copy[p].restore = None THEN UNCHANGED doc
                ELSE SaveStatusSet(copy[p], copy[p].restore)
             /\ End(p)
    <2>1. CASE copy[p].restore = None
      BY <1>1, <1>3, <2>1, EndStep
    <2>2. CASE copy[p].restore # None
      <3>1. PICK s \in Statuses : s = copy[p].restore
        BY <1>1, <2>2 DEF Logged, Docs, Statuses
      <3>2. Logged(doc')
        BY <1>1, <1>3, <2>2, <3>1, SetStatusStep
      <3>3. QED
        BY <1>1, <1>3, <3>2, EndStep
    <2>3. QED
      BY <2>1, <2>2
  <1>4. CASE Handled(p)
    BY <1>1, <1>4, HandledStep
  <1>5. QED
    BY <1>2, <1>3, <1>4 DEF TextStart

LEMMA TextStep == ASSUME IInv, NEW p \in Procs, Text(p) PROVE IInv'
  <1> USE Facts
  <1>1. CASE TextLoad(p)
    BY <1>1, MoveAlone DEF TextLoad, Goto
  <1>2. CASE TextStop(p)
    <2>1. "disabled" \in Statuses
      BY DEF Statuses
    <2>2. Logged(doc')
      BY <1>2, <2>1, SetStatusStep DEF TextStop
    <2>3. QED
      BY <1>2, <2>2, EndStep DEF TextStop
  <1>3. CASE TextStart(p)
    BY <1>3, TextStartStep
  <1>4. CASE TextJoin(p)
    <2>1. PICK o \in Onboards :
            /\ pc[o] = "idle"
            /\ pc' = [pc EXCEPT ![p] = "idle", ![o] = "notice"]
            /\ copy' = [copy EXCEPT ![p] = None, ![o] = StatusSet(copy[p], "active")]
      BY <1>4 DEF TextJoin
    <2>2. o \in Procs /\ o # p /\ "active" \in Statuses
      BY <1>4, <2>1 DEF TextJoin, Procs, Statuses
    <2>3. Logged(doc') /\ Logged(StatusSet(copy[p], "active"))
      BY <1>4, <2>2, SetStatusStep DEF TextJoin
    <2>4. /\ copy' \in [Procs -> Docs \cup {None}]
          /\ copy'[o] = StatusSet(copy[p], "active")
          /\ \A q \in Procs \ {p, o} : copy'[q] = copy[q]
      BY <2>1, <2>2, <2>3 DEF Logged
    <2>5. lock' \in Procs \cup {None} /\ optedOut' \in BOOLEAN
      BY <1>4 DEF TextJoin
    <2>6. QED
      BY <2>1, <2>2, <2>3, <2>4, <2>5, OnboardingStarts
  <1>5. CASE TextReactivate(p)
    BY <1>5, SetStatusMove DEF TextReactivate, Goto, Statuses
  <1>6. CASE TextMessage(p)
    BY <1>6, HandledStep DEF TextMessage
  <1>7. QED
    BY <1>1, <1>2, <1>3, <1>4, <1>5, <1>6 DEF Text

LEMMA RunStep == ASSUME IInv, NEW p \in Procs, Run(p) PROVE IInv'
  <1> USE Facts
  <1>1. CASE BeginRun(p)
    <2>1. CASE End(p)
      BY <1>1, <2>1, EndStep DEF BeginRun
    <2>2. CASE /\ copy' = [copy EXCEPT ![p] = doc]
               /\ Goto(p, "running") /\ UNCHANGED lock
      BY <1>1, <2>2, MoveAlone DEF BeginRun, Goto
    <2>3. QED
      BY <1>1, <2>1, <2>2 DEF BeginRun
  <1>2. CASE RunAction(p)
    <2>1. pc' = [pc EXCEPT ![p] = "running"]
      BY <1>2 DEF RunAction, IInv, TypeOK
    <2>2. CASE Save(copy[p]) /\ UNCHANGED copy
      BY <1>2, <2>1, <2>2, MoveAlone DEF RunAction, Save
    <2>3. ASSUME NEW s \in {"active", "paused", "completed", "disabled"}, SetStatus(p, s)
          PROVE  IInv'
      BY <1>2, <2>1, <2>3, SetStatusMove, ZenonT(60) DEF RunAction, Statuses
    <2>4. QED
      BY <1>2, <2>2, <2>3 DEF RunAction
  <1>3. CASE EndRun(p)
    <2>1. CASE End(p)
      BY <1>3, <2>1, EndStep DEF EndRun
    <2>2. CASE Goto(p, "run") /\ UNCHANGED <<copy, lock>>
      BY <1>3, <2>2, MoveAlone DEF EndRun, Goto
    <2>3. QED
      BY <1>3, <2>1, <2>2 DEF EndRun
  <1>4. CASE Notice(p)
    <2>1. CASE Goto(p, "welcomed") /\ UNCHANGED <<doc, copy, lock>>
      BY <1>4, <2>1, MoveAlone DEF Notice, Goto
    <2>2. CASE Goto(p, "welcomed") /\ SetStatus(p, "disabled") /\ UNCHANGED lock
      BY <1>4, <2>2, SetStatusMove DEF Notice, Goto, Statuses
    <2>3. CASE End(p) /\ UNCHANGED doc
      BY <1>4, <2>3, EndStep DEF Notice
    <2>4. CASE SetStatus(p, "disabled") /\ UNCHANGED <<pc, lock>>
      <3>1. pc' = [pc EXCEPT ![p] = "notice"]
        BY <1>4, <2>4 DEF Notice, IInv, TypeOK
      <3>2. QED
        BY <1>4, <2>4, <3>1, SetStatusMove DEF Notice, Statuses
    <2>5. QED
      BY <1>4, <2>1, <2>2, <2>3, <2>4 DEF Notice
  <1>5. CASE Onboarded(p)
    <2>1. Logged(doc')
      BY <1>5 DEF Onboarded, Logged, Docs
    <2>2. Logged([copy[p] EXCEPT !.onboarded = TRUE])
      BY <1>5 DEF Onboarded, Logged, Docs
    <2>3. copy' = [copy EXCEPT ![p] = [copy[p] EXCEPT !.onboarded = TRUE]]
      BY <1>5 DEF Onboarded
    <2>4. QED
      BY <1>5, <2>1, <2>2, <2>3, MoveAlone DEF Onboarded, Goto
  <1>6. QED
    BY <1>1, <1>2, <1>3, <1>4, <1>5 DEF Run

LEMMA PageStep == ASSUME IInv, NEW p \in Procs, Page(p) PROVE IInv'
  <1> USE Facts
  <1>1. CASE PageLoad(p)
    BY <1>1, MoveAlone DEF PageLoad, Goto
  <1>2. CASE PageEdit(p)
    BY <1>2, EndStep DEF PageEdit, Save
  <1>3. CASE PageStatus(p)
    <2>1. PICK s \in {"active", "paused", "completed", "deleted"} : SetStatus(p, s)
      BY <1>3 DEF PageStatus
    <2>2. s \in Statuses
      BY DEF Statuses
    <2>3. QED
      BY <1>3, <2>1, <2>2, SetStatusMove DEF PageStatus, Goto
  <1>4. CASE PageSave(p)
    <2>1. Logged(copy[p]) /\ Logged(doc')
      BY <1>4 DEF PageSave, Save
    <2>2. CASE Goto(p, "notice") /\ UNCHANGED copy
      BY <1>4, <2>1, <2>2, MoveAlone DEF PageSave, Goto
    <2>3. ASSUME NEW o \in Onboards,
                 /\ pc[o] = "idle"
                 /\ pc' = [pc EXCEPT ![p] = "notice", ![o] = "notice"]
                 /\ copy' = [copy EXCEPT ![o] = copy[p]]
          PROVE  IInv'
      <3>1. o \in Procs /\ o # p
        BY <1>4, <2>3 DEF PageSave, Procs
      <3>2. /\ copy' \in [Procs -> Docs \cup {None}]
            /\ copy'[o] = copy[p] /\ copy'[p] = copy[p]
            /\ \A q \in Procs \ {p, o} : copy'[q] = copy[q]
        BY <2>1, <2>3, <3>1 DEF Logged
      <3>3. QED
        BY <1>4, <2>1, <2>3, <3>1, <3>2, OnboardingStarts DEF PageSave
    <2>4. QED
      BY <1>4, <2>2, <2>3 DEF PageSave
  <1>5. CASE PageConflict(p)
    BY <1>5, EndStep DEF PageConflict
  <1>6. QED
    BY <1>1, <1>2, <1>3, <1>4, <1>5 DEF Page

LEMMA NextIInv == IInv /\ [Next]_vars => IInv'
  <1> SUFFICES ASSUME IInv, [Next]_vars PROVE IInv'
    OBVIOUS
  <1>1. CASE Next
    BY <1>1, HourStep, TextStep, RunStep, PageStep DEF Next
  <1>2. CASE UNCHANGED vars
    BY <1>2 DEF vars, IInv, TypeOK, StatusIsLastLogged, CopiesLogged, HourCopiesActive,
                OnlyTextsAtText, OnlyPagesAtPage
  <1>3. QED
    BY <1>1, <1>2

LEMMA Inductive == Spec => []IInv
  BY InitIInv, NextIInv, PTL DEF Spec

(* The document, the copies and the places of the processes keep their     *)
(* types.                                                                  *)
THEOREM DocumentTypeOK == Spec => []TypeOK
  <1>1. IInv => TypeOK
    BY DEF IInv
  <1>2. QED
    BY <1>1, Inductive, PTL

(* The status of the stored document is the latest that was logged, though *)
(* whole copies overwrite one another in any order.                        *)
THEOREM DocumentStatusIsLastLogged == Spec => []StatusIsLastLogged
  <1>1. IInv => StatusIsLastLogged
    BY DEF IInv
  <1>2. QED
    BY <1>1, Inductive, PTL

(* What an uncontradicted copy is.                                         *)
LEMMA UncontradictedCopy ==
  ASSUME IInv, Uncontradicted, NEW p \in Procs, pc[p] # "idle"
  PROVE  copy[p].status = "disabled" /\ pc[p] # "running" /\ pc[p] \notin {"waiting", "hour"}
  <1>1. copy[p] # None
    BY DocumentAssumption DEF IInv, CopiesLogged, Logged
  <1>2. QED
    BY <1>1 DEF Uncontradicted, IInv, HourCopiesActive

(* Only TextStart and PageStatus take an uncontradicted document out of    *)
(* disabled.                                                               *)
LEMMA OptOutStep ==
  ASSUME IInv, Next, doc.status = "disabled", Uncontradicted, doc'.status # "disabled"
  PROVE  (\E p \in Texts : TextStart(p)) \/ (\E p \in Pages : PageStatus(p))
  <1>1. PICK p \in Procs : Hour(p) \/ Text(p) \/ Run(p) \/ Page(p)
    BY DEF Next
  <1>2. doc' # doc
    OBVIOUS
  <1>3. pc[p] # "idle"
    BY <1>1, <1>2 DEF Hour, HourLoad, HourEnter, HourInactive, HourSchedules,
                      Text, TextLoad, TextStop, TextStart, TextJoin, TextReactivate, TextMessage,
                      Run, BeginRun, RunAction, EndRun, Notice, Onboarded,
                      Page, PageLoad, PageEdit, PageStatus, PageConflict, PageSave
  <1>4. copy[p].status = "disabled" /\ pc[p] \notin {"running", "waiting", "hour"}
    BY <1>3, UncontradictedCopy
  <1>5. CASE Hour(p)
    BY <1>2, <1>4, <1>5 DEF Hour, HourLoad, HourEnter, HourInactive, HourSchedules
  <1>6. CASE Text(p)
    <2>1. ~TextStop(p)
      BY <1>2, <1>4 DEF TextStop, SaveStatusSet
    <2>2. ~TextLoad(p) /\ ~TextJoin(p) /\ ~TextReactivate(p) /\ ~TextMessage(p)
      BY <1>2, <1>4 DEF TextLoad, TextJoin, TextReactivate, TextMessage, Handled
    <2>3. TextStart(p)
      BY <1>6, <2>1, <2>2 DEF Text
    <2>4. p \in Texts
      BY <2>3 DEF TextStart, IInv, OnlyTextsAtText
    <2>5. QED
      BY <2>3, <2>4
  <1>7. CASE Run(p)
    <2>1. ~BeginRun(p) /\ ~EndRun(p) /\ ~RunAction(p)
      BY <1>2, <1>4 DEF BeginRun, EndRun, RunAction
    <2>2. ~Notice(p)
      BY <1>2, <1>4 DEF Notice, SetStatus, SaveStatusSet
    <2>3. ~Onboarded(p)
      BY DEF Onboarded, IInv, TypeOK, Docs
    <2>4. QED
      BY <1>7, <2>1, <2>2, <2>3 DEF Run
  <1>8. CASE Page(p)
    <2>1. ~PageLoad(p) /\ ~PageConflict(p)
      BY <1>2 DEF PageLoad, PageConflict
    <2>2. ~PageEdit(p) /\ ~PageSave(p)
      BY <1>4 DEF PageEdit, PageSave, Save
    <2>3. PageStatus(p)
      BY <1>8, <2>1, <2>2 DEF Page
    <2>4. p \in Pages
      BY <2>3 DEF PageStatus, IInv, OnlyPagesAtPage
    <2>5. QED
      BY <2>3, <2>4
  <1>9. QED
    BY <1>1, <1>5, <1>6, <1>7, <1>8

(* Apart from START and an administrator who sets the status, an opt-out   *)
(* is undone by an older copy of the document or a survey under way, and   *)
(* by nothing else.                                                        *)
THEOREM DocumentOptOut == Spec => OnlyOlderCopiesUndoOptOut
  <1>1. IInv /\ [Next]_vars
            => [doc.status = "disabled" /\ doc'.status # "disabled" /\ Uncontradicted
                    => (\E p \in Texts : TextStart(p)) \/ (\E p \in Pages : PageStatus(p))]_vars
    <2>1. IInv /\ Next /\ doc.status = "disabled" /\ doc'.status # "disabled" /\ Uncontradicted
              => (\E p \in Texts : TextStart(p)) \/ (\E p \in Pages : PageStatus(p))
      BY OptOutStep
    <2>2. QED
      BY <2>1
  <1>2. QED
    BY <1>1, Inductive, PTL DEF Spec, OnlyOlderCopiesUndoOptOut
=============================================================================
