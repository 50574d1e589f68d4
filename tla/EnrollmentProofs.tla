-------------------------- MODULE EnrollmentProofs --------------------------
(***************************************************************************)
(* Proofs about Enrollment, for every number of requests, phones, numbers  *)
(* and schedules, and every limit.                                         *)
(* First the types of its state, which its actions keep, and what each     *)
(* action does, in the form the proofs of its properties use: one lemma    *)
(* XStep for the documents and processes after action X, one lemma XGoes   *)
(* for the fields of the process that took it.                             *)
(* Then the properties.  Each has an inductive invariant of its own, on    *)
(* top of Types: Turns for DuplicatesNeedAPage, NumbersListed for          *)
(* NumbersKnown, SchedulesComing for NoScheduleMissed, OnboardedWelcomed   *)
(* and WelcomesComing for ActiveUserIsWelcomed, AloneMakes for             *)
(* HourlyJobRepairs.                                                       *)
(***************************************************************************)
EXTENDS Enrollment, TLAPS, SequenceTheorems, WellFoundedInduction

Creators == {"text", "page", "upload"}
Makers == Creators \cup {"schedule", "thread", "hour"}
CreatorStates == {"lookup", "buy", "count", "insert"}
MakerStates == {"schedules", "make", "create execution"}

RequestKinds == Makers \cup {"status", "modify", "close", "rephone", "delete"}

States == CreatorStates \cup MakerStates \cup
          {"onboard", "save", "create", "welcome", "mark", "idle", "load", "status",
           "assign", "list", "loop", "modify", "close", "delete"}

(* Where a request of each kind may be.                                    *)
Place(kind, at) ==
    \/ kind \in Creators /\ at \in CreatorStates
    \/ kind \in Makers /\ at \in MakerStates
    \/ kind = "text" /\ at = "onboard"
    \/ kind \in {"page", "upload", "rephone"} /\ at = "save"
    \/ kind = "schedule" /\ at = "create"
    \/ kind = "thread" /\ at \in {"welcome", "mark"}
    \/ kind = "hour" /\ at = "idle"
    \/ kind \in {"status", "modify", "close", "rephone", "delete"} /\ at = "load"
    \/ kind \in {"status", "close"} /\ at = "status"
    \/ kind = "status" /\ at \in {"assign", "list", "loop"}
    \/ kind = at /\ kind \in {"modify", "close", "delete"}

Cohorts == [status : {"pending", "active", "paused", "completed"}, numbers : Seq(Numbers)]

Pairs == Nat \X Schedules

Requests ==
    [kind : RequestKinds, at : States,
     rows : SUBSET Phones, phone : Phones \cup {None},
     number : Numbers \cup {None} \cup Pairs,
     new : {"active", "pending", "paused", "completed", "alone", None} \cup Phones \cup Schedules \cup Nat,
     cohort : Cohorts \cup {None}, user : Documents \cup {None}, id : Nat,
     todo : SUBSET (Nat \cup Pairs)]

(* After its user is inserted a creator has a copy of it.                  *)
HasUser(r) ==
    \/ r.at \in {"save", "delete", "onboard"}
    \/ r.kind \in Creators /\ r.at \in MakerStates

HasCohort(r) == r.at \in {"buy", "modify", "close", "status", "assign"}

WholeCopy(c, bought) == c \in Cohorts /\ IsInjective(c.numbers) /\ Range(c.numbers) \subseteq bought

WholeUser(user, bought) == user \in Documents /\ user.number \in bought \cup {None}

(* What holds of a request when there are n users, and bought numbers.     *)
Whole(r, n, bought) ==
    /\ Place(r.kind, r.at)
    /\ r.kind \in Creators => r.new \in {"active", "pending"}
    /\ r.kind = "status" => r.new \in {"active", "paused"}
    /\ r.kind = "close" => r.new = "completed"
    /\ r.kind = "schedule" => r.new \in Schedules
    /\ r.kind = "rephone" => r.new \in Phones
    /\ r.kind \in {"text", "page"} => r.phone \in Phones
    /\ r.at \in {"buy", "count", "insert"} => r.phone \in Phones
    /\ r.kind \in {"thread", "rephone", "delete"} => r.id \in 1..n
    /\ r.kind = "hour" /\ r.at # "idle" => r.id \in 1..n
    /\ HasUser(r) \/ r.user # None => WholeUser(r.user, bought) /\ r.id \in 1..n
    /\ HasCohort(r) => WholeCopy(r.cohort, bought)
    /\ IF r.at = "create execution" THEN r.number \in r.todo ELSE r.number \in bought \cup {None}
    /\ r.todo \subseteq IF r.kind = "status" THEN 1..n ELSE (1..n) \X Schedules

DocumentsWhole ==
    /\ WholeCopy(cohort, owned)
    /\ owned \subseteq Numbers /\ released \subseteq owned
    /\ users \in Seq(Documents)
    /\ \A u \in Ids : users[u].number \in owned \cup {None}
    /\ execs \in Seq([Schedules -> Nat]) /\ Len(execs) = Len(users)
    /\ schedules \subseteq Schedules
    /\ welcomed \subseteq Ids
    /\ aborted \in BOOLEAN /\ overwritten \in BOOLEAN /\ requests \in Nat

(* P are requests and threads, the first of them the hourly job.          *)
AllWhole(P, n, bought) ==
    /\ P \in Seq(Requests \cup {Done})
    /\ 1 \in DOMAIN P
    /\ \A k \in DOMAIN P : P[k].kind = "hour" <=> k = 1
    /\ \A k \in DOMAIN P : P[k].kind # "done" => Whole(P[k], n, bought)

RequestsWhole == AllWhole(procs, Len(users), owned)

Types == DocumentsWhole /\ RequestsWhole

-----------------------------------------------------------------------------
(* A whole request stays whole when users are created and numbers are      *)
(* bought.                                                                 *)
LEMMA WholeGrows ==
    ASSUME NEW r \in Requests, NEW n \in Nat, NEW m \in Nat, n <= m,
           NEW b, NEW c, b \subseteq c, Whole(r, n, b)
    PROVE  Whole(r, m, c)
<1>1. 1..n \subseteq 1..m
  OBVIOUS
<1>2. (1..n) \X Schedules \subseteq (1..m) \X Schedules
  BY <1>1
<1>. QED
  BY <1>1, <1>2 DEF Whole, WholeUser, WholeCopy

(* A process that is not done is a request, with all its fields.           *)
LEMMA NotDone ==
    ASSUME NEW r \in Requests \cup {Done}
    PROVE  /\ r.at # "done" => r \in Requests
           /\ r.kind # "done" <=> r \in Requests
BY DEF Requests, Done, RequestKinds, Makers, Creators

(* A process that is somewhere is a whole request.                         *)
LEMMA Going ==
    ASSUME Types, NEW k \in DOMAIN procs, procs[k].at # "done"
    PROVE  /\ procs[k] \in Requests /\ procs[k].kind # "done"
           /\ Whole(procs[k], Len(users), owned)
           /\ procs[k].kind = "hour" <=> k = 1
<1>. DEFINE R == Requests \cup {Done}
<1>1. procs \in Seq(R)
  BY DEF Types, RequestsWhole, AllWhole
<1>. HIDE DEF R
<1>2. procs[k] \in R
  BY <1>1
<1>3. procs[k] \in Requests /\ procs[k].kind # "done"
  BY <1>2, NotDone DEF R
<1>. QED
  BY <1>3 DEF Types, RequestsWhole, AllWhole

(* A sequence with one element replaced.                                   *)
LEMMA Replaced ==
    ASSUME NEW R, NEW P \in Seq(R), NEW k \in DOMAIN P, NEW s \in R
    PROVE  /\ [P EXCEPT ![k] = s] \in Seq(R)
           /\ DOMAIN [P EXCEPT ![k] = s] = DOMAIN P
           /\ [P EXCEPT ![k] = s][k] = s
           /\ \A j \in DOMAIN P \ {k} : [P EXCEPT ![k] = s][j] = P[j]
           /\ Len([P EXCEPT ![k] = s]) = Len(P)
OBVIOUS

(* One process goes on as s.                                               *)
GoesOn(P, Q, k, n, m, bought, more) ==
    /\ AllWhole(P, n, bought) /\ k \in DOMAIN P
    /\ n \in Nat /\ m \in Nat /\ n <= m /\ bought \subseteq more
    /\ Q[k].kind = "hour" <=> k = 1
    /\ Q[k].kind # "done" => Whole(Q[k], m, more)
    /\ Q \in Seq(Requests \cup {Done}) /\ DOMAIN Q = DOMAIN P
    /\ \A j \in DOMAIN P \ {k} : Q[j] = P[j]

(* The processes stay whole when one of them goes on as a whole request.   *)
LEMMA MoveWhole ==
    ASSUME NEW P, NEW Q, NEW k, NEW n, NEW m, NEW bought, NEW more,
           GoesOn(P, Q, k, n, m, bought, more)
    PROVE  AllWhole(Q, m, more)
<1>. USE DEF GoesOn
<1>. DEFINE R == Requests \cup {Done}
<1>1. P \in Seq(R)
  BY DEF AllWhole
<1>. HIDE DEF R
<1>4. ASSUME NEW j \in DOMAIN P, Q[j].kind # "done"
      PROVE  Whole(Q[j], m, more)
  <2>1. CASE j = k
    BY <2>1, <1>4
  <2>2. CASE j # k
    <3>1. P[j] \in Requests /\ P[j].kind # "done"
      BY <1>1, <2>2, <1>4, NotDone DEF R
    <3>2. Whole(P[j], n, bought)
      BY <3>1 DEF AllWhole
    <3>3. Whole(P[j], m, more)
      BY <3>1, <3>2, WholeGrows
    <3>. QED
      BY <3>3, <2>2
  <2>. QED
    BY <2>1, <2>2
<1>5. \A j \in DOMAIN Q : Q[j].kind = "hour" <=> j = 1
  BY DEF AllWhole
<1>. QED
  BY <1>4, <1>5 DEF AllWhole

(* The processes stay whole when a whole request is appended.              *)
LEMMA AppendWhole ==
    ASSUME NEW P, NEW n \in Nat, NEW bought, AllWhole(P, n, bought),
           NEW t \in Requests, t.kind # "hour", Whole(t, n, bought)
    PROVE  /\ AllWhole(Append(P, t), n, bought)
           /\ Len(P) \in Nat /\ DOMAIN P = 1..Len(P)
           /\ DOMAIN Append(P, t) = 1..(Len(P) + 1)
           /\ Append(P, t)[Len(P) + 1] = t
           /\ \A j \in DOMAIN P : Append(P, t)[j] = P[j]
<1>. DEFINE R == Requests \cup {Done}
            Q == Append(P, t)
<1>1. P \in Seq(R) /\ t \in R
  BY DEF AllWhole
<1>. HIDE DEF R
<1>2. Q \in Seq(R) /\ DOMAIN Q = 1..(Len(P) + 1) /\ Len(P) \in Nat /\ DOMAIN P = 1..Len(P)
  BY <1>1
<1>3. Q[Len(P) + 1] = t /\ \A j \in DOMAIN P : Q[j] = P[j]
  BY <1>1
<1>. HIDE DEF Q
<1>4. \A j \in DOMAIN Q : j \in DOMAIN P \/ j = Len(P) + 1
  BY <1>2
<1>5. 1 \in DOMAIN P /\ Len(P) + 1 # 1
  BY <1>2 DEF AllWhole
<1>6. \A j \in DOMAIN Q : Q[j].kind = "hour" <=> j = 1
  BY <1>3, <1>4, <1>5 DEF AllWhole
<1>7. \A j \in DOMAIN Q : Q[j].kind # "done" => Whole(Q[j], n, bought)
  BY <1>3, <1>4 DEF AllWhole
<1>8. AllWhole(Q, n, bought)
  BY <1>2, <1>5, <1>6, <1>7 DEF AllWhole, R
<1>. QED
  BY <1>2, <1>3, <1>8 DEF Q
-----------------------------------------------------------------------------
(* Of the other processes than k nothing changes.                          *)
Others(k) ==
    /\ DOMAIN procs' = DOMAIN procs
    /\ \A j \in DOMAIN procs \ {k} : procs'[j] = procs[j]

(* The same, of the variable procs.                                        *)
LEMMA Moved ==
    ASSUME Types, NEW k \in DOMAIN procs, NEW s \in Requests \cup {Done},
           procs' = [procs EXCEPT ![k] = s], s.kind = "hour" <=> k = 1,
           s.kind # "done" => Whole(s, Len(users'), owned'),
           Len(users') \in Nat, Len(users) <= Len(users'), owned \subseteq owned'
    PROVE  RequestsWhole' /\ Others(k) /\ procs'[k] = s
<1>. DEFINE n == Len(users)
            m == Len(users')
            more == owned'
            Q == procs'
            R == Requests \cup {Done}
<1>1. n \in Nat /\ m \in Nat /\ n <= m /\ AllWhole(procs, n, owned) /\ procs \in Seq(R)
  BY DEF Types, DocumentsWhole, RequestsWhole, AllWhole
<1>2. /\ s.kind # "done" => Whole(s, m, more)
      /\ s.kind = "hour" <=> k = 1
      /\ owned \subseteq more /\ s \in R
  OBVIOUS
<1>. HIDE DEF n, m, more, R
<1>3. /\ Q \in Seq(R) /\ DOMAIN Q = DOMAIN procs /\ Q[k] = s
      /\ \A j \in DOMAIN procs \ {k} : Q[j] = procs[j]
  BY <1>1, <1>2, Replaced
<1>. HIDE DEF Q
<1>4. AllWhole(Q, m, more)
  <2>1. GoesOn(procs, Q, k, n, m, owned, more)
    BY <1>1, <1>2, <1>3 DEF R, GoesOn
  <2>. QED
    BY <2>1, MoveWhole
<1>. QED
  BY <1>3, <1>4 DEF RequestsWhole, Others, Q, m, more

MovesTo(k, s) ==
    /\ k \in DOMAIN procs /\ s \in Requests \cup {Done}
    /\ procs' = [procs EXCEPT ![k] = s]
    /\ s.kind = "hour" <=> k = 1
    /\ s.kind # "done" => Whole(s, Len(users'), owned')
    /\ Len(users') \in Nat /\ Len(users) <= Len(users') /\ owned \subseteq owned'

(* The same, with the conditions under one name.                           *)
LEMMA MovedTo ==
    ASSUME Types, NEW k, NEW s, MovesTo(k, s)
    PROVE  RequestsWhole' /\ Others(k) /\ procs'[k] = s
BY Moved DEF MovesTo

(* What the end of a process leaves: the idle hourly job, or a process     *)
(* that is done.                                                           *)
LEMMA EndedWhole ==
    ASSUME NEW k, NEW n \in Nat, NEW bought
    PROVE  /\ Ended(k) \in Requests \cup {Done} /\ (Ended(k).kind = "hour" <=> k = 1)
           /\ Ended(k).kind # "done" => Whole(Ended(k), n, bought)
           /\ Ended(k).kind \in {"hour", "done"}
           /\ Ended(k).kind = "hour" => Ended(k).at = "idle" /\ Ended(k).user = None /\ Ended(k).new = None
<1>1. Hourly \in Requests /\ Hourly.kind = "hour"
  BY DEF Hourly, Request, Requests, RequestKinds, Makers, States
<1>2. Whole(Hourly, n, bought)
  BY DEF Hourly, Request, Whole, Place, HasUser, HasCohort, CreatorStates, MakerStates, Creators, Makers
<1>3. Hourly.at = "idle" /\ Hourly.user = None /\ Hourly.new = None
  BY DEF Hourly, Request
<1>4. Done.kind = "done"
  BY DEF Done
<1>. QED
  BY <1>1, <1>2, <1>3, <1>4 DEF Ended

(* A process may end at any step that loses no user and no number.         *)
LEMMA Ending ==
    ASSUME Types, NEW k \in DOMAIN procs, End(k),
           Len(users') \in Nat, Len(users) <= Len(users'), owned \subseteq owned'
    PROVE  RequestsWhole' /\ Others(k) /\ procs'[k] = Ended(k)
BY EndedWhole, Moved DEF End

(* A step that only reads keeps the documents whole, and the process if it *)
(* goes on as a whole request.                                             *)
LEMMA Reading ==
    ASSUME Types, NEW k \in DOMAIN procs, NEW s \in Requests \cup {Done},
           Becomes(k, s), s.kind = "hour" <=> k = 1,
           s.kind # "done" => Whole(s, Len(users), owned)
    PROVE  Types' /\ Others(k) /\ procs'[k] = s
<1>1. /\ procs' = [procs EXCEPT ![k] = s]
      /\ users' = users /\ owned' = owned /\ Len(users) \in Nat
      /\ Len(users) <= Len(users') /\ owned \subseteq owned'
  BY DEF Becomes, documents, Types, DocumentsWhole
<1>2. RequestsWhole' /\ Others(k) /\ procs'[k] = s
  BY <1>1, Moved
<1>3. DocumentsWhole'
  BY DEF Types, DocumentsWhole, Becomes, documents, ghosts, Ids
<1>. QED
  BY <1>2, <1>3 DEF Types

(* An exception keeps everything whole, and ends the process.              *)
LEMMA Raising ==
    ASSUME Types, NEW k \in DOMAIN procs, Raise(k)
    PROVE  Types' /\ Others(k) /\ procs'[k] = Ended(k)
<1>1. users' = users /\ owned' = owned /\ Len(users) \in Nat
  BY DEF Raise, documents, Types, DocumentsWhole
<1>2. RequestsWhole' /\ Others(k) /\ procs'[k] = Ended(k)
  BY <1>1, Ending DEF Raise
<1>3. DocumentsWhole'
  BY DEF Types, DocumentsWhole, Raise, documents, Ids
<1>. QED
  BY <1>2, <1>3 DEF Types

(* So does the end of a process without one.                               *)
LEMMA EndsReading ==
    ASSUME Types, NEW k \in DOMAIN procs, Becomes(k, Ended(k))
    PROVE  Types' /\ Others(k) /\ procs'[k] = Ended(k)
<1>1. Len(users) \in Nat
  BY DEF Types, DocumentsWhole
<1>. QED
  BY <1>1, EndedWhole, Reading

(* The least of a set of naturals is in it (by well-founded induction).    *)
LEMMA LeastIsMember ==
    ASSUME NEW T, T \subseteq Nat, T # {}
    PROVE  Min(T) \in T
<1>. DEFINE L == OpToRel(<, Nat)
<1>1. IsWellFoundedOn(L, Nat)
  BY NatLessThanWellFounded
<1>2. \A x, y \in Nat : x < y => <<x, y>> \in L
  BY DEF OpToRel
<1>. HIDE DEF L
<1>3. PICK x \in T : \A y \in T : <<y, x>> \notin L
  BY <1>1, WFMin
<1>4. \A y \in T : x <= y
  <2>1. \A y \in T : y \in Nat /\ x \in Nat
    OBVIOUS
  <2>2. \A y \in T : ~(y < x)
    BY <1>2, <1>3, <2>1
  <2>. QED
    BY <2>1, <2>2
<1>. QED
  BY <1>4 DEF Min

(* Cohort.get_ic_number finds a number of the copy it is given, or none,   *)
(* or asks for one to be bought.                                           *)
LEMMA IcNumberType ==
    ASSUME NEW bought, NEW c, WholeCopy(c, bought)
    PROVE  IcNumber(c) \in bought \cup {None, "buy"}
<1>. DEFINE free == {i \in DOMAIN c.numbers : Room(c.numbers[i])}
<1>1. c.numbers \in Seq(Numbers) /\ Range(c.numbers) \subseteq bought
  BY DEF WholeCopy, Cohorts
<1>2. free \subseteq Nat /\ free \subseteq DOMAIN c.numbers
  BY <1>1
<1>. HIDE DEF free
<1>3. free # {} => Min(free) \in DOMAIN c.numbers
  BY <1>2, LeastIsMember
<1>4. \A i \in DOMAIN c.numbers : c.numbers[i] \in bought
  BY <1>1 DEF Range
<1>5. free # {} => c.numbers[Min(free)] \in bought
  BY <1>3, <1>4
<1>. QED
  BY <1>5 DEF IcNumber, free

(* User.create leaves a request whole, with the user and the phone it had. *)
LEMMA CreatingWhole ==
    ASSUME Types, NEW r \in Requests, Whole(r, Len(users), owned), r.kind \in Creators,
           r.at = "lookup", r.phone \in Phones
    PROVE  /\ Creating(r) \in Requests /\ Whole(Creating(r), Len(users), owned)
           /\ Creating(r).at \in {"buy", "count"} /\ Creating(r).kind = r.kind
           /\ Creating(r).phone = r.phone /\ Creating(r).user = r.user /\ Creating(r).id = r.id
           /\ Creating(r).new = r.new
           /\ Creating(r).at = "buy" => Creating(r).cohort = cohort
<1>1. WholeCopy(cohort, owned) /\ owned \subseteq Numbers
  BY DEF Types, DocumentsWhole
<1>2. IcNumber(cohort) \in owned \cup {None, "buy"}
  BY <1>1, IcNumberType
<1>3. CASE IcNumber(cohort) = "buy"
  <2>. DEFINE s == [r EXCEPT !.at = "buy", !.cohort = cohort]
  <2>1. s \in Requests
    BY <1>1 DEF Requests, States, CreatorStates, WholeCopy
  <2>2. /\ s.at = "buy" /\ s.cohort = cohort
        /\ s.kind = r.kind /\ s.id = r.id /\ s.phone = r.phone /\ s.user = r.user
        /\ s.number = r.number /\ s.todo = r.todo /\ s.new = r.new
    BY DEF Requests
  <2>3. Creating(r) = s
    BY <1>3 DEF Creating
  <2>. HIDE DEF s
  <2>4. Whole(s, Len(users), owned)
    BY <2>2, <1>1 DEF Whole, Place, HasUser, HasCohort, CreatorStates, MakerStates, Creators
  <2>. QED
    BY <2>1, <2>2, <2>3, <2>4
<1>4. CASE IcNumber(cohort) # "buy"
  <2>. DEFINE s == [r EXCEPT !.at = "count", !.number = IcNumber(cohort)]
  <2>1. s \in Requests
    BY <1>1, <1>2, <1>4, ZenonT(60) DEF Requests, States, CreatorStates
  <2>2. /\ s.at = "count" /\ s.number = IcNumber(cohort)
        /\ s.kind = r.kind /\ s.id = r.id /\ s.phone = r.phone /\ s.user = r.user
        /\ s.cohort = r.cohort /\ s.todo = r.todo /\ s.new = r.new
    BY DEF Requests
  <2>3. Creating(r) = s
    BY <1>4 DEF Creating
  <2>. HIDE DEF s
  <2>4. Whole(s, Len(users), owned)
    BY <2>2, <1>2, <1>4 DEF Whole, Place, HasUser, HasCohort, CreatorStates, MakerStates, Creators
  <2>. QED
    BY <2>1, <2>2, <2>3, <2>4
<1>. QED
  BY <1>3, <1>4
-----------------------------------------------------------------------------
(* What each action does to the documents and to its process, and that it  *)
(* keeps Types.  First User.create's count of the phone's users.           *)
LEMMA CountStep ==
    ASSUME Types, NEW k \in DOMAIN procs, Count(k)
    PROVE  /\ Types' /\ Others(k)
           /\ \/ Raise(k) /\ procs'[k] = Ended(k)
              \/ /\ UNCHANGED <<documents, ghosts>> /\ WithPhone(procs[k].phone) = {}
                 /\ procs'[k] = [procs[k] EXCEPT !.at = "insert"]
<1>. DEFINE r == procs[k]
            s == [r EXCEPT !.at = "insert"]
<1>1. /\ r \in Requests /\ r.kind # "done" /\ Whole(r, Len(users), owned)
      /\ r.kind = "hour" <=> k = 1
  BY Going DEF Count
<1>2. r.at = "count" /\ (Raise(k) \/ (WithPhone(r.phone) = {} /\ Becomes(k, s)))
  BY DEF Count
<1>3. CASE Raise(k)
  BY <1>3, Raising
<1>4. CASE WithPhone(r.phone) = {} /\ Becomes(k, s)
  <2>. HIDE DEF r
  <2>1. s \in Requests
    BY <1>1 DEF Requests, States, CreatorStates
  <2>2. /\ s.at = "insert" /\ s.kind = r.kind /\ s.phone = r.phone /\ s.number = r.number
        /\ s.new = r.new /\ s.cohort = r.cohort /\ s.user = r.user /\ s.id = r.id /\ s.todo = r.todo
    BY <1>1 DEF Requests
  <2>. HIDE DEF s
  <2>3. Whole(s, Len(users), owned)
    BY <1>1, <1>2, <2>2 DEF Whole, Place, HasUser, HasCohort, CreatorStates, MakerStates, Creators, Makers
  <2>4. s.kind = "hour" <=> k = 1
    BY <1>1, <2>2
  <2>5. Types' /\ Others(k) /\ procs'[k] = s
    BY <1>4, <2>1, <2>3, <2>4, Reading
  <2>. QED
    BY <2>5, <1>4 DEF s, r, Becomes
<1>. QED
  BY <1>2, <1>3, <1>4

(* The executions to be made are listed.                                   *)
LEMMA ListMissingStep ==
    ASSUME Types, NEW k \in DOMAIN procs, ListMissing(k)
    PROVE  /\ Types' /\ Others(k)
           /\ UNCHANGED <<documents, ghosts>>
           /\ procs[k].at = "schedules"
           /\ procs'[k] = [procs[k] EXCEPT !.at = "make", !.todo = ToMake(procs[k])]
<1>. DEFINE r == procs[k]
            s == [r EXCEPT !.at = "make", !.todo = ToMake(r)]
<1>1. /\ r \in Requests /\ r.kind # "done" /\ Whole(r, Len(users), owned)
      /\ r.kind = "hour" <=> k = 1
  BY Going DEF ListMissing
<1>2. r.at = "schedules" /\ Becomes(k, s)
  BY DEF ListMissing
<1>3. ToMake(r) \subseteq (1..Len(users)) \X Schedules /\ ToMake(r) \subseteq Pairs
  <2>. HIDE DEF r
  <2>1. Len(users) \in Nat /\ LiveIds \subseteq 1..Len(users) /\ schedules \subseteq Schedules
    BY DEF Types, DocumentsWhole, LiveIds, Ids
  <2>2. r.kind = "schedule" => r.new \in Schedules
    BY <1>1 DEF Whole
  <2>3. r.kind # "schedule" => r.id \in 1..Len(users)
    BY <1>1, <1>2 DEF Whole, Place, HasUser, CreatorStates, MakerStates, Creators, Makers
  <2>4. ToMake(r) \subseteq (1..Len(users)) \X Schedules
    BY <2>1, <2>2, <2>3 DEF ToMake
  <2>. QED
    BY <2>1, <2>4 DEF Pairs
<1>4. Types' /\ Others(k) /\ procs'[k] = s
  <2>. HIDE DEF r
  <2>1. s \in Requests
    BY <1>1, <1>2, <1>3 DEF Requests, States, CreatorStates, MakerStates
  <2>2. /\ s.kind = r.kind /\ s.at = "make" /\ s.phone = r.phone /\ s.number = r.number
      /\ s.new = r.new /\ s.cohort = r.cohort /\ s.user = r.user /\ s.id = r.id
      /\ s.todo = ToMake(r)
    BY <1>1 DEF Requests
  <2>. HIDE DEF s
  <2>3. Whole(s, Len(users), owned)
    BY <1>1, <1>2, <1>3, <2>2 DEF Whole, Place, HasUser, HasCohort, CreatorStates, MakerStates, Creators, Makers
  <2>4. s.kind = "hour" <=> k = 1
    BY <1>1, <2>2
  <2>. QED
    BY <1>2, <2>1, <2>3, <2>4, Reading
<1>. QED
  BY <1>2, <1>4 DEF Becomes

(* A page loads the cohort.                                                *)
LEMMA LoadCohortStep ==
    ASSUME Types, NEW k \in DOMAIN procs, LoadCohort(k)
    PROVE  /\ Types' /\ Others(k)
           /\ UNCHANGED <<documents, ghosts>>
           /\ procs'[k] = [procs[k] EXCEPT !.cohort = cohort, !.at = procs[k].kind]
<1>. DEFINE r == procs[k]
            s == [r EXCEPT !.cohort = cohort, !.at = r.kind]
<1>1. /\ r \in Requests /\ r.kind # "done" /\ Whole(r, Len(users), owned)
      /\ r.kind = "hour" <=> k = 1
  BY Going DEF LoadCohort
<1>2. r.at = "load" /\ r.kind \in {"status", "modify", "close"} /\ Becomes(k, s)
  BY DEF LoadCohort
<1>3. WholeCopy(cohort, owned) /\ cohort \in Cohorts
  BY DEF Types, DocumentsWhole, WholeCopy
<1>4. Types' /\ Others(k) /\ procs'[k] = s
  <2>. HIDE DEF r
  <2>1. s \in Requests
    BY <1>1, <1>2, <1>3, ZenonT(60) DEF Requests, States, CreatorStates, MakerStates
  <2>2. /\ s.kind = r.kind /\ s.at = r.kind /\ s.phone = r.phone /\ s.number = r.number
      /\ s.new = r.new /\ s.cohort = cohort /\ s.user = r.user /\ s.id = r.id
      /\ s.todo = r.todo
    BY <1>1 DEF Requests
  <2>. HIDE DEF s
  <2>3. Whole(s, Len(users), owned)
    BY <1>1, <1>2, <1>3, <2>2 DEF Whole, Place, HasUser, HasCohort, CreatorStates, MakerStates, Creators, Makers
  <2>4. s.kind = "hour" <=> k = 1
    BY <1>1, <2>2
  <2>. QED
    BY <1>2, <2>1, <2>3, <2>4, Reading
<1>. QED
  BY <1>2, <1>4 DEF Becomes

(* change_cohort_status lists the users to be onboarded.                   *)
LEMMA ListUsersStep ==
    ASSUME Types, NEW k \in DOMAIN procs, ListUsers(k)
    PROVE  /\ Types' /\ Others(k)
           /\ UNCHANGED <<documents, ghosts>>
           /\ (procs[k].at = "list" \/ (procs[k].at = "assign" /\ procs[k].todo = {}))
           /\ procs'[k] = [procs[k] EXCEPT !.at = "loop", !.cohort = None,
                                           !.todo = IF procs[k].new = "active" THEN NotOnboarded ELSE {}]
<1>. DEFINE r == procs[k]
            listed == IF r.new = "active" THEN NotOnboarded ELSE {}
            s == [r EXCEPT !.at = "loop", !.cohort = None, !.todo = listed]
<1>1. /\ r \in Requests /\ r.kind # "done" /\ Whole(r, Len(users), owned)
      /\ r.kind = "hour" <=> k = 1
  BY Going DEF ListUsers
<1>2. r.at \in {"list", "assign"} /\ Becomes(k, s)
  BY DEF ListUsers
<1>3. listed \subseteq 1..Len(users) /\ listed \subseteq Nat
  BY DEF Types, DocumentsWhole, NotOnboarded, Ids
<1>4. Types' /\ Others(k) /\ procs'[k] = s
  <2>. HIDE DEF r, listed
  <2>1. s \in Requests
    BY <1>1, <1>2, <1>3, ZenonT(60) DEF Requests, States, CreatorStates, MakerStates
  <2>2. /\ s.kind = r.kind /\ s.at = "loop" /\ s.phone = r.phone /\ s.number = r.number
      /\ s.new = r.new /\ s.cohort = None /\ s.user = r.user /\ s.id = r.id
      /\ s.todo = listed
    BY <1>1 DEF Requests
  <2>. HIDE DEF s
  <2>3. Whole(s, Len(users), owned)
    BY <1>1, <1>2, <1>3, <2>2 DEF Whole, Place, HasUser, HasCohort, CreatorStates, MakerStates, Creators, Makers
  <2>4. s.kind = "hour" <=> k = 1
    BY <1>1, <2>2
  <2>. QED
    BY <1>2, <2>1, <2>3, <2>4, Reading
<1>. QED
  BY <1>2, <1>4 DEF Becomes, ListUsers

(* make_execution tests for the execution it is to create.                 *)
LEMMA TestExecutionStep ==
    ASSUME Types, NEW k \in DOMAIN procs, TestExecution(k)
    PROVE  /\ Types' /\ Others(k) /\ procs[k].at = "make"
           /\ \E t \in procs[k].todo :
                 \/ Raise(k) /\ procs'[k] = Ended(k)
                 \/ /\ UNCHANGED <<documents, ghosts>> /\ ~(execs[t[1]][t[2]] > 0)
                    /\ procs'[k] = [procs[k] EXCEPT !.at = "create execution", !.number = t]
<1>1. PICK t \in procs[k].todo :
          IF execs[t[1]][t[2]] > 0 THEN Raise(k)
          ELSE Becomes(k, [procs[k] EXCEPT !.at = "create execution", !.number = t])
  BY DEF TestExecution
<1>. DEFINE r == procs[k]
            s == [r EXCEPT !.at = "create execution", !.number = t]
<1>2. /\ r \in Requests /\ r.kind # "done" /\ Whole(r, Len(users), owned)
      /\ r.kind = "hour" <=> k = 1
  BY Going DEF TestExecution
<1>3. r.at = "make" /\ t \in r.todo
  BY SMTT(40) DEF TestExecution
<1>4. CASE Raise(k)
  BY <1>3, <1>4, Raising
<1>5. CASE ~(execs[t[1]][t[2]] > 0) /\ Becomes(k, s)
  <2>. HIDE DEF r
  <2>0. r.kind \in Makers
    BY <1>2, <1>3 DEF Whole, Place, CreatorStates, MakerStates, Makers, Creators
  <2>9. t \in Pairs
    BY <1>2, <1>3, <2>0 DEF Whole, Pairs, Makers, Creators
  <2>1. s \in Requests
    BY <1>2, <1>3, <2>0, <2>9 DEF Requests, States, CreatorStates, MakerStates
  <2>2. /\ s.kind = r.kind /\ s.at = "create execution" /\ s.phone = r.phone /\ s.number = t
      /\ s.new = r.new /\ s.cohort = r.cohort /\ s.user = r.user /\ s.id = r.id
      /\ s.todo = r.todo
    BY <1>2 DEF Requests
  <2>. HIDE DEF s
  <2>3. Whole(s, Len(users), owned)
    BY <1>2, <1>3, <2>0, <2>9, <2>2 DEF Whole, Place, HasUser, HasCohort, CreatorStates, MakerStates, Creators, Makers
  <2>4. s.kind = "hour" <=> k = 1
    BY <1>2, <2>2
  <2>5. Types' /\ Others(k) /\ procs'[k] = s
    BY <1>5, <2>1, <2>3, <2>4, Reading
  <2>. QED
    BY <2>5, <1>3, <1>5 DEF s, r, Becomes
<1>. QED
  BY <1>1, <1>4, <1>5

(* The ends of loops.                                                      *)
LEMMA EndStep ==
    ASSUME Types, NEW k \in DOMAIN procs, MakingDone(k) \/ StatusDone(k)
    PROVE  /\ Types' /\ Others(k) /\ UNCHANGED <<documents, ghosts>>
           /\ procs'[k] = Ended(k)
BY EndsReading DEF MakingDone, StatusDone, Becomes

(* A request that finds nothing to do ends.                                *)
LEMMA StopsReading ==
    ASSUME Types, NEW k \in DOMAIN procs, procs[k].kind \notin {"done", "hour"}, Becomes(k, Done)
    PROVE  Types' /\ Others(k) /\ procs'[k] = Done
<1>1. k # 1 /\ Done.kind = "done" /\ Done \in Requests \cup {Done}
  BY DEF Types, RequestsWhole, AllWhole, Done
<1>. QED
  BY <1>1, Reading

(* A page loads a user.                                                    *)
LEMMA LoadUserStep ==
    ASSUME Types, NEW k \in DOMAIN procs, LoadUser(k)
    PROVE  /\ Types' /\ Others(k)
           /\ UNCHANGED <<documents, ghosts>>
           /\ \/ procs'[k] = Done
              \/ procs'[k] = [procs[k] EXCEPT !.user = users[procs[k].id],
                                !.at = IF procs[k].kind = "delete" THEN "delete" ELSE "save"]
<1>. DEFINE r == procs[k]
            at == IF r.kind = "delete" THEN "delete" ELSE "save"
            s == [r EXCEPT !.user = users[r.id], !.at = at]
<1>1. /\ r \in Requests /\ r.kind # "done" /\ Whole(r, Len(users), owned)
      /\ r.kind = "hour" <=> k = 1
  BY Going DEF LoadUser
<1>2. r.at = "load" /\ r.kind \in {"rephone", "delete"} /\ (Becomes(k, Done) \/ Becomes(k, s))
  BY DEF LoadUser
<1>3. CASE Becomes(k, Done)
  BY <1>2, <1>3, StopsReading DEF Becomes
<1>4. CASE Becomes(k, s)
  <2>. HIDE DEF r
  <2>8. r.id \in 1..Len(users)
    BY <1>1, <1>2 DEF Whole
  <2>9. WholeUser(users[r.id], owned)
    BY <2>8 DEF Types, DocumentsWhole, WholeUser, Ids
  <2>7. at \in States /\ users[r.id] \in Documents
    BY <2>9 DEF WholeUser, States
  <2>. HIDE DEF at
  <2>1. s \in Requests
    BY <1>1, <2>7 DEF Requests
  <2>2. /\ s.kind = r.kind /\ s.at = at /\ s.phone = r.phone /\ s.number = r.number
      /\ s.new = r.new /\ s.cohort = r.cohort /\ s.user = users[r.id] /\ s.id = r.id
      /\ s.todo = r.todo
    BY <1>1 DEF Requests
  <2>. HIDE DEF s
  <2>3. Whole(s, Len(users), owned)
    BY <1>1, <1>2, <2>8, <2>9, <2>2 DEF Whole, Place, HasUser, HasCohort, CreatorStates, MakerStates, Creators, Makers, at
  <2>4. s.kind = "hour" <=> k = 1
    BY <1>1, <2>2
  <2>5. Types' /\ Others(k) /\ procs'[k] = s
    BY <1>4, <2>1, <2>3, <2>4, Reading
  <2>. QED
    BY <2>5, <1>4 DEF s, r, at, Becomes
<1>. QED
  BY <1>2, <1>3, <1>4

(* A request enters User.create.                                           *)
LEMMA CreatingStep ==
    ASSUME Types, NEW k \in DOMAIN procs, NEW r \in Requests, Whole(r, Len(users), owned),
           r.kind \in Creators, procs[k].kind = r.kind, r.at = "lookup", r.phone \in Phones,
           Becomes(k, Creating(r))
    PROVE  /\ Types' /\ Others(k) /\ procs'[k] = Creating(r)
           /\ Creating(r).at \in {"buy", "count"} /\ Creating(r).kind = r.kind
           /\ Creating(r).phone = r.phone /\ Creating(r).user = r.user /\ Creating(r).id = r.id
           /\ Creating(r).new = r.new
           /\ Creating(r).at = "buy" => Creating(r).cohort = cohort
<1>1. k # 1
  BY DEF Types, RequestsWhole, AllWhole, Creators
<1>. DEFINE s == Creating(r)
<1>2. /\ s \in Requests /\ Whole(s, Len(users), owned)
      /\ s.at \in {"buy", "count"} /\ s.kind = r.kind
      /\ s.phone = r.phone /\ s.user = r.user /\ s.id = r.id
      /\ s.new = r.new
      /\ s.at = "buy" => s.cohort = cohort
  BY CreatingWhole
<1>. HIDE DEF s
<1>3. s.kind # "hour"
  BY <1>2 DEF Creators
<1>4. Becomes(k, s)
  BY DEF s
<1>5. Types' /\ Others(k) /\ procs'[k] = s
  BY <1>1, <1>2, <1>3, <1>4, Reading
<1>. QED
  BY <1>2, <1>5 DEF s

(* A text looks for its user: it goes on to create one only if the phone   *)
(* has none.                                                               *)
LEMMA TextLookupStep ==
    ASSUME Types, NEW k \in DOMAIN procs, TextLookup(k)
    PROVE  /\ Types' /\ Others(k) /\ procs[k].kind = "text" /\ procs[k].at = "lookup"
           /\ \/ Raise(k) /\ procs'[k] = Ended(k)
              \/ UNCHANGED <<documents, ghosts>> /\ procs'[k] = Done
              \/ /\ UNCHANGED <<documents, ghosts>> /\ WithPhone(procs[k].phone) = {}
                 /\ procs'[k] = Creating(procs[k])
<1>. DEFINE r == procs[k]
<1>1. /\ r \in Requests /\ r.kind # "done" /\ Whole(r, Len(users), owned)
  BY Going DEF TextLookup
<1>2. /\ r.kind = "text" /\ r.at = "lookup"
      /\ \/ Raise(k) \/ Becomes(k, Done)
         \/ WithPhone(r.phone) = {} /\ Becomes(k, Creating(r))
  BY DEF TextLookup
<1>3. CASE Raise(k)
  BY <1>2, <1>3, Raising
<1>4. CASE Becomes(k, Done)
  BY <1>2, <1>4, StopsReading DEF Becomes
<1>5. CASE WithPhone(r.phone) = {} /\ Becomes(k, Creating(r))
  <2>1. r.kind \in Creators /\ r.phone \in Phones
    BY <1>1, <1>2 DEF Whole, Creators
  <2>2. Types' /\ Others(k) /\ procs'[k] = Creating(r)
    BY <1>1, <1>2, <1>5, <2>1, CreatingStep
  <2>. QED
    BY <1>2, <1>5, <2>2 DEF Becomes
<1>. QED
  BY <1>2, <1>3, <1>4, <1>5

(* The page that creates a user.                                           *)
LEMMA PageLookupStep ==
    ASSUME Types, NEW k \in DOMAIN procs, PageLookup(k)
    PROVE  /\ Types' /\ Others(k) /\ procs[k].kind = "page" /\ procs[k].at = "lookup"
           /\ UNCHANGED <<documents, ghosts>>
           /\ procs'[k] \in {Done, Creating(procs[k])}
<1>. DEFINE r == procs[k]
<1>1. /\ r \in Requests /\ r.kind # "done" /\ Whole(r, Len(users), owned)
  BY Going DEF PageLookup
<1>2. /\ r.kind = "page" /\ r.at = "lookup"
      /\ Becomes(k, Done) \/ Becomes(k, Creating(r))
  BY DEF PageLookup
<1>4. CASE Becomes(k, Done)
  BY <1>2, <1>4, StopsReading DEF Becomes
<1>5. CASE Becomes(k, Creating(r))
  <2>1. r.kind \in Creators /\ r.phone \in Phones
    BY <1>1, <1>2 DEF Whole, Creators
  <2>2. Types' /\ Others(k) /\ procs'[k] = Creating(r)
    BY <1>1, <1>2, <1>5, <2>1, CreatingStep, SMTT(40)
  <2>. QED
    BY <1>2, <1>5, <2>2 DEF Becomes
<1>. QED
  BY <1>2, <1>4, <1>5

(* The next row of an upload: a new user, or a copy of the one there is.   *)
LEMMA NextRowStep ==
    ASSUME Types, NEW k \in DOMAIN procs, NextRow(k)
    PROVE  /\ Types' /\ Others(k) /\ procs[k].kind = "upload" /\ procs[k].at = "lookup"
           /\ procs[k] \in Requests /\ Whole(procs[k], Len(users), owned)
           /\ \/ Raise(k) /\ procs'[k] = Ended(k)
              \/ UNCHANGED <<documents, ghosts>> /\ procs'[k] = Done
              \/ \E p \in Phones :
                    /\ UNCHANGED <<documents, ghosts>>
                    /\ procs'[k] = Creating([procs[k] EXCEPT !.rows = @ \ {p}, !.phone = p])
                    /\ procs'[k].kind = "upload" /\ procs'[k].at \in {"buy", "count"}
                    /\ procs'[k].user = procs[k].user /\ procs'[k].id = procs[k].id
                    /\ procs'[k].at = "buy" => procs'[k].cohort = cohort
              \/ \E u \in Ids :
                    /\ UNCHANGED <<documents, ghosts>>
                    /\ procs'[k].kind = "upload" /\ procs'[k].at = "save"
                    /\ procs'[k].user = users[u] /\ procs'[k].id = u
<1>. DEFINE r == procs[k]
            row(p) == [r EXCEPT !.rows = @ \ {p}, !.phone = p]
            copy(p, u) == [r EXCEPT !.rows = @ \ {p}, !.phone = p,
                                    !.at = "save", !.id = u, !.user = users[u]]
<1>1. /\ r \in Requests /\ r.kind # "done" /\ Whole(r, Len(users), owned)
      /\ r.kind = "hour" <=> k = 1
  BY Going, ZenonT(60) DEF NextRow
<1>2. /\ r.kind = "upload" /\ r.at = "lookup"
      /\ \/ Raise(k) \/ Becomes(k, Done)
         \/ \E p \in r.rows : Becomes(k, Creating(row(p)))
         \/ \E p \in r.rows, u \in Ids : Becomes(k, copy(p, u))
  <2>1. r.kind = "upload" /\ r.at = "lookup"
    BY DEF NextRow
  <2>2. CASE Becomes(k, Done)
    BY <2>1, <2>2
  <2>3. ASSUME NEW p \in r.rows, NEW u \in WithPhone(p), 
               Becomes(k, [row(p) EXCEPT !.at = "save", !.id = u, !.user = users[u]])
        PROVE  \E q \in r.rows, v \in Ids : Becomes(k, copy(q, v))
    <3>1. u \in Ids
      BY SMTT(40) DEF WithPhone, LiveIds
    <3>. QED
      BY <3>1, <2>3
  <2>. QED
    BY <2>1, <2>2, <2>3, ZenonT(60) DEF NextRow
<1>3. CASE Raise(k)
  BY <1>1, <1>2, <1>3, Raising
<1>4. CASE Becomes(k, Done)
  BY <1>1, <1>2, <1>4, StopsReading DEF Becomes
<1>5. ASSUME NEW p \in r.rows, Becomes(k, Creating(row(p)))
      PROVE  /\ Types' /\ Others(k) /\ UNCHANGED <<documents, ghosts>> /\ p \in Phones
             /\ procs'[k] = Creating(row(p))
             /\ procs'[k].kind = "upload" /\ procs'[k].at \in {"buy", "count"}
             /\ procs'[k].user = procs[k].user /\ procs'[k].id = procs[k].id
             /\ procs'[k].at = "buy" => procs'[k].cohort = cohort
  <2>. DEFINE s == row(p)
  <2>0. p \in Phones
    BY <1>1 DEF Requests
  <2>9. procs[k].kind = "upload"
    BY <1>2
  <2>. HIDE DEF r
  <2>1. s \in Requests
    BY <1>1, <1>2, <2>0 DEF Requests, States
  <2>2. /\ s.kind = r.kind /\ s.at = r.at /\ s.phone = p /\ s.number = r.number
      /\ s.new = r.new /\ s.cohort = r.cohort /\ s.user = r.user /\ s.id = r.id
      /\ s.todo = r.todo
    BY <1>1 DEF Requests
  <2>. HIDE DEF s
  <2>3. Whole(s, Len(users), owned)
    BY <1>1, <1>2, <2>0, <2>2 DEF Whole, Place, HasUser, HasCohort, CreatorStates, MakerStates, Creators, Makers
  <2>4. s.kind = "hour" <=> k = 1
    BY <1>1, <2>2
  <2>5. s.kind \in Creators /\ s.at = "lookup"
    BY <2>2, <1>2 DEF Creators
  <2>6. Becomes(k, Creating(s))
    BY <1>5, SMTT(40) DEF s
  <2>7. /\ Types' /\ Others(k) /\ procs'[k] = Creating(s)
        /\ Creating(s).at \in {"buy", "count"} /\ Creating(s).kind = s.kind
        /\ Creating(s).user = s.user /\ Creating(s).id = s.id
        /\ Creating(s).at = "buy" => Creating(s).cohort = cohort
    BY <2>0, <2>1, <2>2, <2>3, <2>5, <2>6, <2>9, <1>2, CreatingStep
  <2>8. procs'[k] = Creating(row(p)) /\ UNCHANGED <<documents, ghosts>>
    BY <2>7, <1>5 DEF s, Becomes
  <2>. QED
    BY <2>0, <2>2, <2>7, <2>8, <1>2 DEF r
<1>6. ASSUME NEW p \in r.rows, NEW u \in Ids, Becomes(k, copy(p, u))
      PROVE  /\ Types' /\ Others(k) /\ UNCHANGED <<documents, ghosts>>
             /\ procs'[k].kind = "upload" /\ procs'[k].at = "save"
             /\ procs'[k].user = users[u] /\ procs'[k].id = u
  <2>. DEFINE s == copy(p, u)
  <2>0. p \in Phones
    BY <1>1 DEF Requests
  <2>9. WholeUser(users[u], owned) /\ users[u] \in Documents /\ u \in 1..Len(users) /\ u \in Nat
    BY DEF Types, DocumentsWhole, WholeUser, Ids
  <2>. HIDE DEF r
  <2>1. s \in Requests
    BY <1>1, <1>2, <2>0, <2>9 DEF Requests, States
  <2>2. /\ s.kind = r.kind /\ s.at = "save" /\ s.phone = p /\ s.number = r.number
      /\ s.new = r.new /\ s.cohort = r.cohort /\ s.user = users[u] /\ s.id = u
      /\ s.todo = r.todo
    BY <1>1 DEF Requests
  <2>. HIDE DEF s
  <2>3. Whole(s, Len(users), owned)
    BY <1>1, <1>2, <2>0, <2>9, <2>2 DEF Whole, Place, HasUser, HasCohort, CreatorStates, MakerStates, Creators, Makers
  <2>4. s.kind = "hour" <=> k = 1
    BY <1>1, <2>2
  <2>5. Becomes(k, s)
    BY <1>6 DEF s
  <2>6. Types' /\ Others(k) /\ procs'[k] = s
    BY <2>1, <2>3, <2>4, <2>5, Reading
  <2>. QED
    BY <2>2, <2>6, <1>2, <1>6 DEF Becomes
<1>. QED
  BY <1>1, <1>2, <1>3, <1>4, <1>5, <1>6, ZenonT(60)

(* The hourly job comes to a user whose lock is free; it is alone only if  *)
(* all is at rest.                                                         *)
LEMMA HourStep ==
    ASSUME Types, NEW u \in Ids, Hour(u)
    PROVE  /\ Types' /\ Others(1) /\ UNCHANGED <<documents, ghosts>>
           /\ procs[1].kind = "hour" /\ procs[1].at = "idle" /\ ~Locked(users[u].phone)
           /\ procs'[1].kind = "hour" /\ procs'[1].at = "schedules" /\ procs'[1].id = u
           /\ procs'[1].user = procs[1].user
           /\ procs'[1].new = "alone" => AtRest \/ None = "alone"
<1>. DEFINE k == 1
            r == procs[1]
            new == IF AtRest THEN "alone" ELSE None
            s == [r EXCEPT !.at = "schedules", !.phone = users[u].phone, !.id = u, !.new = new]
<1>1. /\ 1 \in DOMAIN procs /\ r \in Requests /\ r.kind = "hour" /\ Whole(r, Len(users), owned)
      /\ r.kind = "hour" <=> k = 1
  <2>1. 1 \in DOMAIN procs
    BY DEF Types, RequestsWhole, AllWhole
  <2>. QED
    BY <2>1, Going DEF Hour
<1>2. r.at = "idle" /\ Becomes(1, s) /\ ~Locked(users[u].phone)
  BY DEF Hour
<1>3. /\ users[u].phone \in Phones /\ u \in 1..Len(users) /\ u \in Nat
      /\ new \in {"alone", None}
  <2>1. users[u] \in Documents /\ u \in 1..Len(users) /\ u \in Nat
    BY DEF Types, DocumentsWhole, Ids
  <2>2. users[u].phone \in Phones
    BY <2>1 DEF Documents
  <2>3. new \in {"alone", None}
    OBVIOUS
  <2>. QED
    BY <2>1, <2>2, <2>3
<1>. HIDE DEF r, new, k
<1>11. s \in Requests
  BY <1>1, <1>2, <1>3 DEF Requests, States, CreatorStates, MakerStates
<1>12. /\ s.kind = r.kind /\ s.at = "schedules" /\ s.phone = users[u].phone /\ s.number = r.number
         /\ s.new = new /\ s.cohort = r.cohort /\ s.user = r.user /\ s.id = u
         /\ s.todo = r.todo
  BY <1>1 DEF Requests
<1>. HIDE DEF s
<1>13. Whole(s, Len(users), owned)
  BY <1>1, <1>2, <1>3, <1>12 DEF Whole, Place, HasUser, HasCohort, CreatorStates, MakerStates, Creators, Makers
<1>14. s.kind = "hour" <=> k = 1
  BY <1>1, <1>12
<1>15. Types' /\ Others(1) /\ procs'[1] = s
  <2>1. Becomes(1, s)
    BY <1>2
  <2>. QED
    BY <2>1, <1>1, <1>11, <1>13, <1>14, Reading DEF k
<1>. QED
  BY <1>1, <1>2, <1>12, <1>15 DEF Becomes, r, new
-----------------------------------------------------------------------------
(* A copy of the cohort with a new number appended has each of its numbers *)
(* once.                                                                   *)
LEMMA BoughtWhole ==
    ASSUME NEW bought, NEW c, WholeCopy(c, bought), NEW n \in Numbers \ bought
    PROVE  /\ WholeCopy(Bought(c, n), bought \cup {n}) /\ Bought(c, n).status = c.status
           /\ Range(Bought(c, n).numbers) = Range(c.numbers) \cup {n}
<1>. DEFINE d == Bought(c, n)
            old == c.numbers
            all == Append(old, n)
<1>1. c \in Cohorts /\ old \in Seq(Numbers) /\ IsInjective(old) /\ Range(old) \subseteq bought
  BY DEF WholeCopy, Cohorts
<1>2. d.numbers = all /\ d.status = c.status
  BY <1>1 DEF Bought, Cohorts
<1>. HIDE DEF old
<1>3. /\ all \in Seq(Numbers) /\ Len(old) \in Nat /\ DOMAIN old = 1..Len(old)
      /\ DOMAIN all = 1..(Len(old) + 1)
      /\ all[Len(old) + 1] = n /\ \A i \in DOMAIN old : all[i] = old[i]
  BY <1>1
<1>4. d \in Cohorts
  BY <1>1, <1>3 DEF Bought, Cohorts, old
<1>. HIDE DEF all, d
<1>5. \A i \in DOMAIN old : old[i] \in Range(old)
  BY DEF Range
<1>6. \A i \in DOMAIN all : i \in DOMAIN old \/ i = Len(old) + 1
  BY <1>3
<1>7. \A i \in DOMAIN old : old[i] # n
  BY <1>1, <1>5
<1>8. IsInjective(all)
  BY <1>1, <1>3, <1>6, <1>7 DEF IsInjective
<1>9. Range(all) = Range(old) \cup {n}
  <2>1. DOMAIN old \subseteq DOMAIN all /\ Len(old) + 1 \in DOMAIN all
    BY <1>3, SMTT(40)
  <2>. QED
    BY <1>3, <1>6, <2>1 DEF Range
<1>. QED
  BY <1>1, <1>2, <1>4, <1>8, <1>9 DEF WholeCopy, d, old

(* A number is bought, and the copy that has it is saved.                  *)
LEMMA BuyStep ==
    ASSUME Types, NEW k \in DOMAIN procs, Buy(k)
    PROVE  /\ Types' /\ Others(k) /\ procs[k].at = "buy"
           /\ procs[k] \in Requests /\ procs[k].kind \in Creators
           /\ \/ Raise(k) /\ procs'[k] = Ended(k)
              \/ /\ UNCHANGED <<users, schedules, execs, requests, welcomed, aborted>>
                 /\ SaveCohort(cohort', procs[k].cohort) /\ cohort'.status = procs[k].cohort.status
                 /\ \E n \in Numbers : /\ owned' = owned \cup {n}
                                       /\ Range(cohort'.numbers) = Range(procs[k].cohort.numbers) \cup {n}
                                       /\ procs'[k] = [procs[k] EXCEPT !.at = "count", !.number = n, !.cohort = None]
<1>. DEFINE r == procs[k]
<1>1. /\ r \in Requests /\ r.kind # "done" /\ Whole(r, Len(users), owned)
      /\ r.kind = "hour" <=> k = 1
  BY Going DEF Buy
<1>2. r.at = "buy" /\ r.kind \in Creators /\ WholeCopy(r.cohort, owned)
  <2>1. r.at = "buy"
    BY DEF Buy
  <2>. QED
    BY <1>1, <2>1, SMTT(40) DEF Whole, Place, HasCohort, CreatorStates, MakerStates, Creators, Makers
<1>3. CASE Raise(k)
  BY <1>1, <1>2, <1>3, Raising
<1>4. ASSUME NEW n \in Numbers \ owned, owned' = owned \cup {n},
             SaveCohort(Bought(r.cohort, n), r.cohort),
             procs' = [procs EXCEPT ![k].at = "count", ![k].number = n, ![k].cohort = None],
             UNCHANGED <<users, schedules, execs, released, requests, welcomed, aborted>>
      PROVE  /\ Types' /\ Others(k)
             /\ SaveCohort(cohort', r.cohort) /\ cohort'.status = r.cohort.status
             /\ Range(cohort'.numbers) = Range(r.cohort.numbers) \cup {n}
             /\ procs'[k] = [r EXCEPT !.at = "count", !.number = n, !.cohort = None]
  <2>. DEFINE s == [r EXCEPT !.at = "count", !.number = n, !.cohort = None]
  <2>5. /\ WholeCopy(cohort', owned') /\ cohort'.status = r.cohort.status
        /\ Range(cohort'.numbers) = Range(r.cohort.numbers) \cup {n}
    BY <1>2, <1>4, BoughtWhole DEF SaveCohort
  <2>6. SaveCohort(cohort', r.cohort) /\ overwritten' \in BOOLEAN
    BY <1>4 DEF SaveCohort, Types, DocumentsWhole
  <2>7. Len(users) \in Nat /\ owned \subseteq owned' /\ n \in owned'
    BY <1>4 DEF Types, DocumentsWhole
  <2>8. Whole(r, Len(users), owned')
    BY <1>1, <2>7, WholeGrows
  <2>9. procs' = [procs EXCEPT ![k] = s]
    BY <1>4
  <2>. HIDE DEF r
  <2>1. s \in Requests
    BY <1>1, <1>4 DEF Requests, States, CreatorStates
  <2>2. /\ s.kind = r.kind /\ s.at = "count" /\ s.phone = r.phone /\ s.number = n
      /\ s.new = r.new /\ s.cohort = None /\ s.user = r.user /\ s.id = r.id
      /\ s.todo = r.todo
    BY <1>1 DEF Requests
  <2>. HIDE DEF s
  <2>3. Whole(s, Len(users), owned')
    BY <1>1, <1>2, <2>7, <2>8, <2>2 DEF Whole, Place, HasUser, HasCohort, CreatorStates, MakerStates, Creators, Makers
  <2>4. s.kind = "hour" <=> k = 1
    BY <1>1, <2>2
  <2>10. RequestsWhole' /\ Others(k) /\ procs'[k] = s
    <3>1. Len(users') = Len(users) /\ Whole(s, Len(users'), owned')
      BY <1>4, <2>3
    <3>2. MovesTo(k, s)
      BY <3>1, <2>1, <2>4, <2>7, <2>9 DEF MovesTo
    <3>. QED
      BY <3>2, MovedTo
  <2>11. DocumentsWhole'
    BY <1>4, <2>5, <2>6, <2>7 DEF Types, DocumentsWhole, Ids
  <2>. QED
    BY <2>5, <2>6, <2>10, <2>11 DEF Types, s
<1>. QED
  BY <1>1, <1>2, <1>3, <1>4, ZenonT(60) DEF Buy

(* A sequence with an element appended.                                    *)
LEMMA Longer ==
    ASSUME NEW S, NEW q \in Seq(S), NEW x \in S
    PROVE  /\ Append(q, x) \in Seq(S) /\ Len(q) \in Nat /\ Len(Append(q, x)) = Len(q) + 1
           /\ DOMAIN q = 1..Len(q) /\ DOMAIN Append(q, x) = 1..(Len(q) + 1)
           /\ Append(q, x)[Len(q) + 1] = x
           /\ \A i \in DOMAIN q : Append(q, x)[i] = q[i]
OBVIOUS

(* The user is inserted, and its creator has a copy of it.                 *)
LEMMA InsertStep ==
    ASSUME Types, NEW k \in DOMAIN procs, Insert(k)
    PROVE  /\ Types' /\ Others(k) /\ procs[k].at = "insert"
           /\ procs[k] \in Requests /\ procs[k].kind \in Creators
           /\ UNCHANGED <<cohort, schedules, owned, released, ghosts>>
           /\ Ids' = Ids \cup {Len(users) + 1} /\ Len(users) + 1 \notin Ids
           /\ \A u \in Ids : users'[u] = users[u] /\ execs'[u] = execs[u]
           /\ users'[Len(users) + 1] = procs'[k].user
           /\ procs'[k].user.phone = procs[k].phone /\ procs'[k].user.number = procs[k].number
           /\ procs'[k].user.by = procs[k].kind /\ ~procs'[k].user.onboarded
           /\ procs'[k].user.status = procs[k].new
           /\ procs'[k] = [procs[k] EXCEPT !.at = "schedules", !.user = procs'[k].user, !.id = Len(users) + 1]
<1>. DEFINE r == procs[k]
            n == Len(users)
            doc == [phone |-> r.phone, number |-> r.number, onboarded |-> FALSE,
                    status |-> r.new, by |-> r.kind]
            none == [s \in Schedules |-> 0]
            s == [r EXCEPT !.at = "schedules", !.user = doc, !.id = n + 1]
<1>1. /\ r \in Requests /\ r.kind # "done" /\ Whole(r, n, owned)
      /\ r.kind = "hour" <=> k = 1
  BY Going DEF Insert
<1>2. /\ r.at = "insert" /\ users' = Append(users, doc) /\ execs' = Append(execs, none)
      /\ procs' = [procs EXCEPT ![k] = s]
      /\ UNCHANGED <<cohort, schedules, owned, released, ghosts>>
  BY DEF Insert
<1>3. /\ users \in Seq(Documents) /\ execs \in Seq([Schedules -> Nat]) /\ Len(execs) = n
      /\ owned \subseteq Numbers
  BY DEF Types, DocumentsWhole
<1>. HIDE DEF r
<1>4. r.kind \in Creators /\ r.new \in {"active", "pending"} /\ r.phone \in Phones
      /\ r.number \in owned \cup {None}
  BY <1>1, <1>2 DEF Whole, Place, CreatorStates, MakerStates, Creators, Makers
<1>5. doc \in Documents
  BY <1>3, <1>4 DEF Documents, Creators
<1>6. /\ doc.phone = r.phone /\ doc.number = r.number /\ doc.onboarded = FALSE
      /\ doc.status = r.new /\ doc.by = r.kind
  OBVIOUS
<1>. HIDE DEF doc
<1>7. /\ users' \in Seq(Documents) /\ n \in Nat /\ Len(users') = n + 1
      /\ DOMAIN users = 1..n /\ DOMAIN users' = 1..(n + 1)
      /\ users'[n + 1] = doc /\ \A u \in DOMAIN users : users'[u] = users[u]
  BY <1>2, <1>3, <1>5, Longer
<1>8. none \in [Schedules -> Nat]
  OBVIOUS
<1>. HIDE DEF none
<1>9. /\ execs' \in Seq([Schedules -> Nat]) /\ Len(execs') = n + 1
      /\ DOMAIN execs = 1..n /\ \A u \in DOMAIN execs : execs'[u] = execs[u]
  BY <1>2, <1>3, <1>8, Longer
<1>10. WholeUser(doc, owned)
  BY <1>4, <1>5, <1>6 DEF WholeUser
<1>. HIDE DEF n
<1>11. s \in Requests
  <2>1. n + 1 \in Nat /\ "schedules" \in States
    BY <1>7 DEF States, MakerStates
  <2>. QED
    BY <2>1, <1>1, <1>5 DEF Requests
<1>12. /\ s.kind = r.kind /\ s.at = "schedules" /\ s.phone = r.phone /\ s.number = r.number
       /\ s.new = r.new /\ s.cohort = r.cohort /\ s.user = doc /\ s.id = n + 1 /\ s.todo = r.todo
  BY <1>1 DEF Requests
<1>13. Whole(r, n + 1, owned) /\ n + 1 \in 1..(n + 1)
  <2>1. n <= n + 1 /\ n + 1 \in Nat /\ n + 1 \in 1..(n + 1) /\ owned \subseteq owned
    BY <1>7
  <2>. QED
    BY <2>1, <1>1, <1>7, WholeGrows
<1>. HIDE DEF s
<1>14. Whole(s, n + 1, owned)
  BY <1>1, <1>2, <1>4, <1>10, <1>12, <1>13 DEF Whole, Place, HasUser, HasCohort, CreatorStates, MakerStates, Creators, Makers
<1>15. RequestsWhole' /\ Others(k) /\ procs'[k] = s
  <2>1. Len(users') \in Nat /\ Len(users) <= Len(users') /\ Whole(s, Len(users'), owned') /\ owned \subseteq owned'
    BY <1>7, <1>14, <1>2 DEF n
  <2>2. MovesTo(k, s)
    BY <2>1, <1>1, <1>2, <1>11, <1>12 DEF MovesTo
  <2>. QED
    BY <2>2, MovedTo
<1>16. DocumentsWhole'
  <2>1. \A u \in DOMAIN users' : users'[u].number \in owned' \cup {None}
    <3>1. \A u \in DOMAIN users' : u \in DOMAIN users \/ u = n + 1
      BY <1>7
    <3>. QED
      BY <3>1, <1>2, <1>4, <1>6, <1>7 DEF Types, DocumentsWhole, Ids
  <2>2. welcomed' \subseteq DOMAIN users'
    BY <1>2, <1>7 DEF Types, DocumentsWhole, Ids, ghosts
  <2>. QED
    BY <2>1, <2>2, <1>2, <1>7, <1>9 DEF Types, DocumentsWhole, Ids, ghosts
<1>17. Ids' = Ids \cup {n + 1} /\ n + 1 \notin Ids
  BY <1>7 DEF Ids
<1>18. \A u \in Ids : users'[u] = users[u] /\ execs'[u] = execs[u]
  BY <1>7, <1>9 DEF Ids
<1>. QED
  BY <1>1, <1>2, <1>4, <1>6, <1>7, <1>12, <1>15, <1>16, <1>17, <1>18 DEF Types, s, n, r

(* One user document is written.                                           *)
Writes(u, doc) ==
    /\ u \in Ids /\ WholeUser(doc, owned') /\ owned \subseteq owned'
    /\ users' = [users EXCEPT ![u] = doc]

(* One user document is replaced by a whole one.                           *)
LEMMA Written ==
    ASSUME Types, NEW u, NEW doc, Writes(u, doc)
    PROVE  /\ users' \in Seq(Documents) /\ Len(users') = Len(users) /\ Len(users) \in Nat
           /\ Ids' = Ids /\ Ids = 1..Len(users)
           /\ users'[u] = doc /\ \A v \in Ids \ {u} : users'[v] = users[v]
           /\ \A v \in Ids' : users'[v].number \in owned' \cup {None}
<1>1. /\ users \in Seq(Documents) /\ u \in DOMAIN users /\ doc \in Documents
      /\ users' = [users EXCEPT ![u] = doc] /\ owned \subseteq owned'
      /\ \A v \in DOMAIN users : users[v].number \in owned \cup {None}
      /\ doc.number \in owned' \cup {None}
  BY DEF Types, DocumentsWhole, Writes, WholeUser, Ids
<1>2. /\ users' \in Seq(Documents) /\ DOMAIN users' = DOMAIN users /\ Len(users') = Len(users)
      /\ Len(users) \in Nat /\ DOMAIN users = 1..Len(users)
      /\ users'[u] = doc /\ \A v \in DOMAIN users \ {u} : users'[v] = users[v]
  BY <1>1
<1>. QED
  BY <1>1, <1>2 DEF Ids

(* user.save() writes the copy, whatever the document has become since.    *)
LEMMA SaveUserStep ==
    ASSUME Types, NEW k \in DOMAIN procs, SaveUser(k)
    PROVE  /\ Types' /\ Others(k) /\ HasUser(procs[k])
           /\ procs[k] \in Requests /\ Whole(procs[k], Len(users), owned)
           /\ procs[k].kind \in {"text", "page", "upload", "rephone"}
           /\ procs[k].kind = "text" => AllMade(procs[k])
           /\ procs[k].kind # "text" => procs[k].at = "save"
           /\ UNCHANGED <<cohort, schedules, execs, owned, released, requests, welcomed, aborted>>
           /\ procs[k].id \in Ids /\ Ids' = Ids
           /\ users'[procs[k].id] = Saved(procs[k])
           /\ \A v \in Ids \ {procs[k].id} : users'[v] = users[v]
           /\ overwritten' = (overwritten \/ procs[k].user # users[procs[k].id])
           /\ CASE procs[k].kind = "text" -> procs'[k] = [procs[k] EXCEPT !.at = "onboard"]
                [] procs[k].kind = "upload" -> procs'[k] = [procs[k] EXCEPT !.at = "lookup"]
                [] OTHER -> procs'[k] = Ended(k)
<1>. DEFINE r == procs[k]
            s(at) == [r EXCEPT !.at = at]
<1>1. /\ r \in Requests /\ r.kind # "done" /\ Whole(r, Len(users), owned)
      /\ r.kind = "hour" <=> k = 1
  BY Going DEF SaveUser, AllMade
<1>2. /\ r.at = "save" \/ (r.kind = "text" /\ AllMade(r))
      /\ users' = [users EXCEPT ![r.id] = Saved(r)]
      /\ overwritten' = (overwritten \/ r.user # users[r.id])
      /\ CASE r.kind = "text" -> Goto(k, "onboard")
           [] r.kind = "upload" -> Goto(k, "lookup")
           [] OTHER -> End(k)
      /\ UNCHANGED <<cohort, schedules, execs, owned, released, requests, welcomed, aborted>>
  BY DEF SaveUser
<1>. HIDE DEF r
<1>3. /\ HasUser(r) /\ r.kind \in {"text", "page", "upload", "rephone"}
      /\ r.kind = "text" => AllMade(r)
      /\ r.kind # "text" => r.at = "save"
  BY <1>1, <1>2 DEF Whole, Place, HasUser, AllMade, CreatorStates, MakerStates, Creators, Makers
<1>4. WholeUser(r.user, owned) /\ r.id \in 1..Len(users) /\ Len(users) \in Nat
  <2>1. WholeUser(r.user, owned) /\ r.id \in 1..Len(users)
    BY <1>1, <1>3 DEF Whole
  <2>. QED
    BY <2>1 DEF Types, DocumentsWhole
<1>5. WholeUser(Saved(r), owned')
  <2>1. r.user \in Documents /\ r.user.number \in owned \cup {None} /\ owned' = owned
    BY <1>2, <1>4 DEF WholeUser
  <2>2. r.kind = "rephone" => r.new \in Phones
    BY <1>1 DEF Whole
  <2>3. CASE r.kind = "rephone"
    <3>. DEFINE d == [r.user EXCEPT !.phone = r.new, !.by = "page"]
    <3>1. d \in Documents /\ d.number = r.user.number
      BY <2>1, <2>2, <2>3 DEF Documents
    <3>2. Saved(r) = d
      BY <2>3 DEF Saved
    <3>. QED
      BY <2>1, <3>1, <3>2 DEF WholeUser
  <2>4. CASE r.kind = "upload" /\ r.user # users[r.id]
    <3>. DEFINE d == [r.user EXCEPT !.by = "upload"]
    <3>1. d \in Documents /\ d.number = r.user.number
      BY <2>1 DEF Documents
    <3>2. Saved(r) = d
      BY <2>4 DEF Saved
    <3>. QED
      BY <2>1, <3>1, <3>2 DEF WholeUser
  <2>5. CASE r.kind # "rephone" /\ ~(r.kind = "upload" /\ r.user # users[r.id])
    <3>1. Saved(r) = r.user
      BY <2>5 DEF Saved
    <3>. QED
      BY <2>1, <3>1 DEF WholeUser
  <2>. QED
    BY <2>3, <2>4, <2>5
<1>6. Writes(r.id, Saved(r))
  BY <1>2, <1>4, <1>5 DEF Writes, Types, DocumentsWhole, Ids
<1>7. /\ users' \in Seq(Documents) /\ Len(users') = Len(users)
      /\ Ids' = Ids /\ Ids = 1..Len(users)
      /\ users'[r.id] = Saved(r) /\ \A v \in Ids \ {r.id} : users'[v] = users[v]
      /\ \A v \in Ids' : users'[v].number \in owned' \cup {None}
  BY <1>6, Written
<1>8. DocumentsWhole'
  BY <1>2, <1>7 DEF Types, DocumentsWhole, Ids
<1>9. ASSUME NEW at \in {"onboard", "lookup"}, Goto(k, at), at = "onboard" <=> r.kind = "text",
             r.kind \in {"text", "upload"}
      PROVE  RequestsWhole' /\ Others(k) /\ procs'[k] = s(at)
  <2>1. s(at) \in Requests
    BY <1>1, <1>9 DEF Requests, States, CreatorStates
  <2>2. /\ s(at).kind = r.kind /\ s(at).at = at /\ s(at).phone = r.phone /\ s(at).number = r.number
        /\ s(at).new = r.new /\ s(at).cohort = r.cohort /\ s(at).user = r.user /\ s(at).id = r.id
        /\ s(at).todo = r.todo
    BY <1>1 DEF Requests
  <2>3. procs' = [procs EXCEPT ![k] = s(at)]
    BY <1>9 DEF Goto, r
  <2>. HIDE DEF s
  <2>4. Whole(s(at), Len(users), owned)
    BY <1>1, <1>2, <1>3, <1>9, <2>2
       DEF Whole, Place, HasUser, HasCohort, AllMade, CreatorStates, MakerStates, Creators, Makers
  <2>5. MovesTo(k, s(at))
    BY <2>1, <2>2, <2>3, <2>4, <1>1, <1>2, <1>4, <1>7 DEF MovesTo
  <2>. QED
    BY <2>5, MovedTo
<1>10. CASE r.kind = "text"
  BY <1>1, <1>2, <1>3, <1>4, <1>7, <1>8, <1>9, <1>10 DEF Types, r
<1>11. CASE r.kind = "upload"
  BY <1>1, <1>2, <1>3, <1>4, <1>7, <1>8, <1>9, <1>11 DEF Types, r
<1>12. CASE r.kind \notin {"text", "upload"}
  <2>1. End(k) /\ owned \subseteq owned'
    BY <1>2, <1>12
  <2>2. RequestsWhole' /\ Others(k) /\ procs'[k] = Ended(k)
    BY <2>1, <1>4, <1>7, Ending
  <2>. QED
    BY <1>1, <1>2, <1>3, <1>4, <1>7, <1>8, <1>12, <2>2 DEF Types, r
<1>. QED
  BY <1>10, <1>11, <1>12

(* A page deletes a user.                                                  *)
LEMMA DeleteUserStep ==
    ASSUME Types, NEW k \in DOMAIN procs, DeleteUser(k)
    PROVE  /\ Types' /\ Others(k) /\ HasUser(procs[k])
           /\ procs[k] \in Requests /\ procs[k].kind = "delete"
           /\ UNCHANGED <<cohort, schedules, execs, owned, released, requests, welcomed, aborted>>
           /\ procs[k].id \in Ids /\ Ids' = Ids
           /\ procs[k].user \in Documents
           /\ users'[procs[k].id] = [procs[k].user EXCEPT !.status = "deleted"]
           /\ users'[procs[k].id].status = "deleted"
           /\ users'[procs[k].id].onboarded = procs[k].user.onboarded
           /\ \A v \in Ids \ {procs[k].id} : users'[v] = users[v]
           /\ overwritten' = (overwritten \/ users[procs[k].id] # procs[k].user)
           /\ procs'[k] = Ended(k)
<1>. DEFINE r == procs[k]
            d == [r.user EXCEPT !.status = "deleted"]
<1>1. /\ r \in Requests /\ r.kind # "done" /\ Whole(r, Len(users), owned)
  BY Going DEF DeleteUser
<1>2. /\ r.at = "delete" /\ users' = [users EXCEPT ![r.id] = d]
      /\ overwritten' = (overwritten \/ users[r.id] # r.user)
      /\ End(k)
      /\ UNCHANGED <<cohort, schedules, execs, owned, released, requests, welcomed, aborted>>
  BY DEF DeleteUser
<1>. HIDE DEF r
<1>3. HasUser(r) /\ r.kind = "delete"
  BY <1>1, <1>2 DEF Whole, Place, HasUser, CreatorStates, MakerStates, Creators, Makers
<1>4. WholeUser(r.user, owned) /\ r.id \in 1..Len(users) /\ Len(users) \in Nat
  <2>1. WholeUser(r.user, owned) /\ r.id \in 1..Len(users)
    BY <1>1, <1>3 DEF Whole
  <2>. QED
    BY <2>1 DEF Types, DocumentsWhole
<1>5. r.user \in Documents /\ d \in Documents /\ d.number = r.user.number /\ d.status = "deleted"
      /\ d.onboarded = r.user.onboarded
  BY <1>4 DEF WholeUser, Documents
<1>. HIDE DEF d
<1>6. Writes(r.id, d)
  BY <1>2, <1>4, <1>5 DEF Writes, WholeUser, Types, DocumentsWhole, Ids
<1>7. /\ users' \in Seq(Documents) /\ Len(users') = Len(users)
      /\ Ids' = Ids /\ Ids = 1..Len(users)
      /\ users'[r.id] = d /\ \A v \in Ids \ {r.id} : users'[v] = users[v]
      /\ \A v \in Ids' : users'[v].number \in owned' \cup {None}
  BY <1>6, Written
<1>8. DocumentsWhole'
  BY <1>2, <1>7 DEF Types, DocumentsWhole, Ids
<1>9. RequestsWhole' /\ Others(k) /\ procs'[k] = Ended(k)
  BY <1>2, <1>4, <1>7, Ending
<1>. QED
  BY <1>1, <1>2, <1>3, <1>4, <1>5, <1>7, <1>8, <1>9 DEF Types, d, r

(* A schedule is inserted.                                                 *)
LEMMA InsertScheduleStep ==
    ASSUME Types, NEW k \in DOMAIN procs, InsertSchedule(k)
    PROVE  /\ Types' /\ Others(k) /\ procs[k] \in Requests
           /\ procs[k].kind = "schedule" /\ procs[k].at = "create" /\ procs[k].new \in Schedules
           /\ schedules' = schedules \cup {procs[k].new}
           /\ UNCHANGED <<cohort, users, execs, owned, released, ghosts>>
           /\ procs'[k] = [procs[k] EXCEPT !.at = "schedules"]
<1>. DEFINE r == procs[k]
            s == [r EXCEPT !.at = "schedules"]
<1>1. /\ r \in Requests /\ r.kind # "done" /\ Whole(r, Len(users), owned)
      /\ r.kind = "hour" <=> k = 1
  BY Going DEF InsertSchedule
<1>2. /\ r.at = "create" /\ r.kind = "schedule" /\ schedules' = schedules \cup {r.new}
      /\ procs' = [procs EXCEPT ![k] = s]
      /\ UNCHANGED <<cohort, users, execs, owned, released, ghosts>>
  BY DEF InsertSchedule, Goto
<1>. HIDE DEF r
<1>3. r.new \in Schedules
  BY <1>1, <1>2 DEF Whole
<1>4. RequestsWhole' /\ Others(k) /\ procs'[k] = s
  <2>1. s \in Requests
    BY <1>1, <1>2 DEF Requests, States, CreatorStates, MakerStates
  <2>2. /\ s.kind = r.kind /\ s.at = "schedules" /\ s.phone = r.phone /\ s.number = r.number
      /\ s.new = r.new /\ s.cohort = r.cohort /\ s.user = r.user /\ s.id = r.id
      /\ s.todo = r.todo
    BY <1>1 DEF Requests
  <2>. HIDE DEF s
  <2>3. Whole(s, Len(users), owned)
    BY <1>1, <1>2, <2>2 DEF Whole, Place, HasUser, HasCohort, CreatorStates, MakerStates, Creators, Makers
  <2>4. s.kind = "hour" <=> k = 1
    BY <1>1, <2>2
  <2>5. Len(users) \in Nat
    BY DEF Types, DocumentsWhole
  <2>6. MovesTo(k, s)
    BY <2>1, <2>3, <2>4, <2>5, <1>2 DEF MovesTo
  <2>. QED
    BY <2>6, MovedTo
<1>5. DocumentsWhole'
  BY <1>2, <1>3, SMTT(40) DEF Types, DocumentsWhole, Ids, ghosts
<1>. QED
  BY <1>1, <1>2, <1>3, <1>4, <1>5 DEF Types, r

(* One execution more, and one less to be made.                            *)
LEMMA CreateExecutionStep ==
    ASSUME Types, NEW k \in DOMAIN procs, CreateExecution(k)
    PROVE  /\ Types' /\ Others(k) /\ procs[k].at = "create execution"
           /\ procs[k] \in Requests /\ procs[k].kind \in Makers
           /\ procs[k].number \in Ids \X Schedules
           /\ \A u \in Ids, s \in Schedules :
                 execs'[u][s] = execs[u][s] + (IF <<u, s>> = procs[k].number THEN 1 ELSE 0)
           /\ UNCHANGED <<cohort, users, schedules, owned, released, ghosts>>
           /\ procs'[k] = [procs[k] EXCEPT !.at = "make", !.number = None,
                                           !.todo = @ \ {procs[k].number}]
<1>. DEFINE r == procs[k]
            t == r.number
            s == [r EXCEPT !.at = "make", !.number = None, !.todo = @ \ {t}]
<1>1. /\ r \in Requests /\ r.kind # "done" /\ Whole(r, Len(users), owned)
      /\ r.kind = "hour" <=> k = 1
  BY Going DEF CreateExecution
<1>2. /\ r.at = "create execution" /\ execs' = [execs EXCEPT ![t[1]][t[2]] = @ + 1]
      /\ procs' = [procs EXCEPT ![k] = s]
      /\ UNCHANGED <<cohort, users, schedules, owned, released, ghosts>>
  BY DEF CreateExecution
<1>. HIDE DEF r
<1>3. r.kind \in Makers
  BY <1>1, <1>2 DEF Whole, Place, CreatorStates, MakerStates, Creators, Makers
<1>4. t \in Ids \X Schedules
  <2>1. Ids = 1..Len(users)
    BY DEF Types, DocumentsWhole, Ids
  <2>2. t \in (1..Len(users)) \X Schedules
    BY <1>1, <1>2, <1>3 DEF Whole, Makers, Creators
  <2>. QED
    BY <2>1, <2>2
<1>5. /\ execs' \in Seq([Schedules -> Nat]) /\ Len(execs') = Len(execs)
      /\ \A u \in Ids, z \in Schedules :
            execs'[u][z] = execs[u][z] + (IF <<u, z>> = t THEN 1 ELSE 0)
  <2>. DEFINE counts == [Schedules -> Nat]
              u == t[1]
              row == [execs[u] EXCEPT ![t[2]] = @ + 1]
  <2>1. execs \in Seq(counts) /\ DOMAIN execs = Ids
    BY DEF Types, DocumentsWhole, Ids
  <2>2. u \in Ids /\ t[2] \in Schedules /\ t = <<u, t[2]>>
    BY <1>4
  <2>. HIDE DEF t
  <2>3. execs[u] \in counts
    <3>. HIDE DEF counts
    <3>. QED
      BY <2>1, <2>2
  <2>4. row \in counts /\ \A z \in Schedules : row[z] = execs[u][z] + (IF z = t[2] THEN 1 ELSE 0)
    BY <2>2, <2>3
  <2>5. execs' = [execs EXCEPT ![u] = row]
    BY <1>2
  <2>. HIDE DEF row, counts, u
  <2>6. /\ execs' \in Seq(counts) /\ Len(execs') = Len(execs)
        /\ execs'[u] = row /\ \A v \in Ids \ {u} : execs'[v] = execs[v]
    BY <2>1, <2>2, <2>4, <2>5
  <2>7. \A v \in Ids, z \in Schedules : execs[v][z] \in Nat
    <3>1. \A v \in Ids : execs[v] \in counts
      BY <2>1
    <3>. QED
      BY <3>1 DEF counts
  <2>8. ASSUME NEW v \in Ids, NEW z \in Schedules
        PROVE  execs'[v][z] = execs[v][z] + (IF <<v, z>> = t THEN 1 ELSE 0)
    <3>1. CASE v = u
      BY <3>1, <2>2, <2>4, <2>6
    <3>2. CASE v # u
      BY <3>2, <2>2, <2>6, <2>7
    <3>. QED
      BY <3>1, <3>2
  <2>. QED
    BY <2>6, <2>8 DEF counts
<1>6. RequestsWhole' /\ Others(k) /\ procs'[k] = s
  <2>. HIDE DEF t
  <2>1. s \in Requests
    BY <1>1, <1>2, <1>3 DEF Requests, States, CreatorStates, MakerStates
  <2>2. /\ s.kind = r.kind /\ s.at = "make" /\ s.phone = r.phone /\ s.number = None
      /\ s.new = r.new /\ s.cohort = r.cohort /\ s.user = r.user /\ s.id = r.id
      /\ s.todo = r.todo \ {t}
    BY <1>1 DEF Requests
  <2>. HIDE DEF s
  <2>3. Whole(s, Len(users), owned)
    BY <1>1, <1>2, <1>3, <2>2 DEF Whole, Place, HasUser, HasCohort, CreatorStates, MakerStates, Creators, Makers
  <2>4. s.kind = "hour" <=> k = 1
    BY <1>1, <2>2
  <2>5. Len(users) \in Nat
    BY DEF Types, DocumentsWhole
  <2>6. procs' = [procs EXCEPT ![k] = s] /\ users' = users /\ owned' = owned
    BY <1>2
  <2>7. MovesTo(k, s)
    BY <2>1, <2>3, <2>4, <2>5, <2>6 DEF MovesTo
  <2>. QED
    BY <2>7, MovedTo
<1>7. DocumentsWhole'
  BY <1>2, <1>5 DEF Types, DocumentsWhole, Ids, ghosts
<1>. QED
  BY <1>1, <1>2, <1>3, <1>4, <1>5, <1>6, <1>7 DEF Types, t, r

(* The onboarding thread sends the welcome.                                *)
LEMMA WelcomeStep ==
    ASSUME Types, NEW k \in DOMAIN procs, Welcome(k)
    PROVE  /\ Types' /\ Others(k) /\ procs[k] \in Requests
           /\ procs[k].kind = "thread" /\ procs[k].at = "welcome" /\ procs[k].id \in Ids
           /\ welcomed' = welcomed \cup {procs[k].id}
           /\ UNCHANGED <<documents, requests, aborted, overwritten>>
           /\ procs'[k] = [procs[k] EXCEPT !.at = "mark"]
<1>. DEFINE r == procs[k]
            s == [r EXCEPT !.at = "mark"]
<1>1. /\ r \in Requests /\ r.kind # "done" /\ Whole(r, Len(users), owned)
      /\ r.kind = "hour" <=> k = 1
  BY Going DEF Welcome
<1>2. /\ r.at = "welcome" /\ welcomed' = welcomed \cup {r.id}
      /\ procs' = [procs EXCEPT ![k] = s]
      /\ UNCHANGED <<documents, requests, aborted, overwritten>>
  BY DEF Welcome, Goto
<1>. HIDE DEF r
<1>3. r.kind = "thread"
  BY <1>1, <1>2 DEF Whole, Place, CreatorStates, MakerStates, Creators, Makers
<1>4. r.id \in Ids
  <2>1. r.id \in 1..Len(users)
    BY <1>1, <1>3 DEF Whole
  <2>. QED
    BY <2>1 DEF Types, DocumentsWhole, Ids
<1>5. RequestsWhole' /\ Others(k) /\ procs'[k] = s
  <2>1. s \in Requests
    BY <1>1, <1>2, <1>3 DEF Requests, States, CreatorStates, MakerStates
  <2>2. /\ s.kind = r.kind /\ s.at = "mark" /\ s.phone = r.phone /\ s.number = r.number
      /\ s.new = r.new /\ s.cohort = r.cohort /\ s.user = r.user /\ s.id = r.id
      /\ s.todo = r.todo
    BY <1>1 DEF Requests
  <2>. HIDE DEF s
  <2>3. Whole(s, Len(users), owned)
    BY <1>1, <1>2, <1>3, <2>2 DEF Whole, Place, HasUser, HasCohort, CreatorStates, MakerStates, Creators, Makers
  <2>4. s.kind = "hour" <=> k = 1
    BY <1>1, <2>2
  <2>5. Len(users) \in Nat
    BY DEF Types, DocumentsWhole
  <2>6. MovesTo(k, s)
    BY <2>1, <2>3, <2>4, <2>5, <1>2 DEF MovesTo, documents
  <2>. QED
    BY <2>6, MovedTo
<1>6. DocumentsWhole'
  BY <1>2, <1>4 DEF Types, DocumentsWhole, Ids, documents
<1>. QED
  BY <1>1, <1>2, <1>3, <1>4, <1>5, <1>6 DEF Types, r

(* modify_cohort saves the copy it loaded.                                 *)
LEMMA ModifyCohortStep ==
    ASSUME Types, NEW k \in DOMAIN procs, ModifyCohort(k)
    PROVE  /\ Types' /\ Others(k) /\ procs'[k] = Ended(k) /\ HasCohort(procs[k])
           /\ procs[k] \in Requests /\ procs[k].kind = "modify"
           /\ SaveCohort(procs[k].cohort, procs[k].cohort)
           /\ UNCHANGED <<users, schedules, execs, owned, released, requests, welcomed, aborted>>
<1>. DEFINE r == procs[k]
<1>1. /\ r \in Requests /\ r.kind # "done" /\ Whole(r, Len(users), owned)
      /\ r.kind = "hour" <=> k = 1
  BY Going DEF ModifyCohort
<1>2. /\ r.at = "modify" /\ SaveCohort(r.cohort, r.cohort) /\ End(k)
      /\ UNCHANGED <<users, schedules, execs, owned, released, requests, welcomed, aborted>>
  BY DEF ModifyCohort
<1>3. HasCohort(r) /\ r.kind = "modify"
  BY <1>1, <1>2 DEF Whole, Place, HasCohort, CreatorStates, MakerStates, Creators, Makers
<1>4. WholeCopy(r.cohort, owned)
  BY <1>1, <1>3 DEF Whole
<1>5. Len(users) \in Nat /\ owned' = owned /\ users' = users
  BY <1>2 DEF Types, DocumentsWhole
<1>6. RequestsWhole' /\ Others(k) /\ procs'[k] = Ended(k)
  BY <1>2, <1>5, Ending
<1>7. DocumentsWhole'
  BY <1>2, <1>4 DEF Types, DocumentsWhole, Ids, SaveCohort
<1>. QED
  BY <1>1, <1>2, <1>3, <1>6, <1>7 DEF Types

(* The numbers of the copy go back.                                        *)
LEMMA CloseCohortStep ==
    ASSUME Types, NEW k \in DOMAIN procs, CloseCohort(k)
    PROVE  /\ Types' /\ Others(k) /\ procs[k] \in Requests /\ procs[k].kind = "close"
           /\ procs'[k] = [procs[k] EXCEPT !.at = "status"]
           /\ UNCHANGED <<cohort, users, schedules, execs, owned, requests, welcomed, aborted, overwritten>>
<1>. DEFINE r == procs[k]
            s == [r EXCEPT !.at = "status"]
<1>1. /\ r \in Requests /\ r.kind # "done" /\ Whole(r, Len(users), owned)
      /\ r.kind = "hour" <=> k = 1
  BY Going DEF CloseCohort
<1>2. /\ r.at = "close" /\ procs' = [procs EXCEPT ![k] = s]
      /\ released' = released \cup (owned \cap Range(r.cohort.numbers))
      /\ UNCHANGED <<cohort, users, schedules, execs, owned, requests, welcomed, aborted, overwritten>>
  BY DEF CloseCohort, Goto
<1>. HIDE DEF r
<1>3. r.kind = "close"
  BY <1>1, <1>2 DEF Whole, Place, CreatorStates, MakerStates, Creators, Makers
<1>5. RequestsWhole' /\ Others(k) /\ procs'[k] = s
  <2>1. s \in Requests
    BY <1>1, <1>2, <1>3 DEF Requests, States, CreatorStates, MakerStates
  <2>2. /\ s.kind = r.kind /\ s.at = "status" /\ s.phone = r.phone /\ s.number = r.number
      /\ s.new = r.new /\ s.cohort = r.cohort /\ s.user = r.user /\ s.id = r.id
      /\ s.todo = r.todo
    BY <1>1 DEF Requests
  <2>. HIDE DEF s
  <2>3. Whole(s, Len(users), owned)
    BY <1>1, <1>2, <1>3, <2>2 DEF Whole, Place, HasUser, HasCohort, CreatorStates, MakerStates, Creators, Makers
  <2>4. s.kind = "hour" <=> k = 1
    BY <1>1, <2>2
  <2>5. Len(users) \in Nat
    BY DEF Types, DocumentsWhole
  <2>6. MovesTo(k, s)
    BY <2>1, <2>3, <2>4, <2>5, <1>2 DEF MovesTo
  <2>. QED
    BY <2>6, MovedTo
<1>6. DocumentsWhole'
  BY <1>2 DEF Types, DocumentsWhole, Ids
<1>. QED
  BY <1>1, <1>2, <1>3, <1>5, <1>6 DEF Types, r

(* Cohort.set_status saves the copy with its new status.                   *)
LEMMA SetCohortStatusStep ==
    ASSUME Types, NEW k \in DOMAIN procs, SetCohortStatus(k)
    PROVE  LET r == procs[k]
               c == [r.cohort EXCEPT !.status = r.new]
               first == r.cohort.status = "pending" /\ r.new = "active"
           IN  /\ Types' /\ Others(k) /\ r.at = "status" /\ r \in Requests
               /\ r.kind \in {"status", "close"} /\ HasCohort(r) /\ r.cohort \in Cohorts
               /\ c.numbers = r.cohort.numbers /\ c.status = r.new
               /\ IF c = r.cohort THEN UNCHANGED <<cohort, overwritten>> ELSE SaveCohort(c, r.cohort)
               /\ UNCHANGED <<users, schedules, execs, owned, released, requests, welcomed, aborted>>
               /\ IF r.kind = "close" THEN procs'[k] = Ended(k)
                  ELSE procs'[k] = [r EXCEPT !.at = IF first THEN "assign" ELSE "list", !.cohort = c,
                           !.todo = IF first THEN {u \in Ids : users[u].number = None} ELSE {}]
<1>. DEFINE r == procs[k]
            c == [r.cohort EXCEPT !.status = r.new]
            first == r.cohort.status = "pending" /\ r.new = "active"
            at == IF first THEN "assign" ELSE "list"
            todo == IF first THEN {u \in Ids : users[u].number = None} ELSE {}
            s == [r EXCEPT !.at = at, !.cohort = c, !.todo = todo]
<1>1. /\ r \in Requests /\ r.kind # "done" /\ Whole(r, Len(users), owned)
      /\ r.kind = "hour" <=> k = 1
  BY Going DEF SetCohortStatus
<1>2. /\ r.at = "status"
      /\ IF c = r.cohort THEN UNCHANGED <<cohort, overwritten>> ELSE SaveCohort(c, r.cohort)
      /\ IF r.kind = "close" THEN End(k) ELSE procs' = [procs EXCEPT ![k] = s]
      /\ UNCHANGED <<users, schedules, execs, owned, released, requests, welcomed, aborted>>
  BY DEF SetCohortStatus
<1>3. todo \subseteq 1..Len(users) /\ todo \subseteq Nat /\ at \in {"assign", "list"}
  BY DEF Types, DocumentsWhole, Ids
<1>4. Len(users) \in Nat /\ owned' = owned /\ users' = users
  BY <1>2 DEF Types, DocumentsWhole
<1>. HIDE DEF r
<1>5. HasCohort(r) /\ r.kind \in {"status", "close"}
  BY <1>1, <1>2 DEF Whole, Place, HasCohort, CreatorStates, MakerStates, Creators, Makers
<1>6. WholeCopy(r.cohort, owned) /\ r.new \in {"active", "paused", "completed"}
  BY <1>1, <1>5 DEF Whole
<1>7. c \in Cohorts /\ c.numbers = r.cohort.numbers /\ c.status = r.new /\ r.cohort \in Cohorts
  BY <1>6 DEF WholeCopy, Cohorts
<1>8. WholeCopy(c, owned)
  <2>. HIDE DEF c
  <2>. QED
    BY <1>6, <1>7 DEF WholeCopy
<1>. HIDE DEF c, at, todo
<1>9. DocumentsWhole'
  <2>1. WholeCopy(cohort', owned') /\ overwritten' \in BOOLEAN
    BY <1>2, <1>8 DEF SaveCohort, Types, DocumentsWhole
  <2>. QED
    BY <2>1, <1>2 DEF Types, DocumentsWhole, Ids
<1>10. CASE r.kind = "close"
  <2>1. RequestsWhole' /\ Others(k) /\ procs'[k] = Ended(k)
    BY <1>2, <1>4, <1>10, Ending
  <2>. QED
    BY <2>1, <1>1, <1>2, <1>5, <1>7, <1>9, <1>10 DEF Types, r, c
<1>11. CASE r.kind = "status"
  <2>1. s \in Requests
    BY <1>1, <1>3, <1>7 DEF Requests, States
  <2>2. /\ s.kind = r.kind /\ s.at = at /\ s.phone = r.phone /\ s.number = r.number
      /\ s.new = r.new /\ s.cohort = c /\ s.user = r.user /\ s.id = r.id
      /\ s.todo = todo
    BY <1>1 DEF Requests
  <2>. HIDE DEF s
  <2>3. Whole(s, Len(users), owned)
    BY <1>1, <1>2, <1>3, <1>8, <1>11, <2>2 DEF Whole, Place, HasUser, HasCohort, CreatorStates, MakerStates, Creators, Makers
  <2>4. s.kind = "hour" <=> k = 1
    BY <1>1, <2>2
  <2>6. MovesTo(k, s)
    BY <2>1, <2>3, <2>4, <1>2, <1>4, <1>11, SMTT(40) DEF MovesTo
  <2>7. RequestsWhole' /\ Others(k) /\ procs'[k] = s
    BY <2>6, MovedTo
  <2>. QED
    BY <2>7, <1>1, <1>2, <1>5, <1>7, <1>9, <1>11 DEF Types, s, r, c, at, todo
<1>. QED
  BY <1>5, <1>10, <1>11

(* A number, bought perhaps, is given to a user.                           *)
NumberAssigned(k) ==
    /\ Others(k) /\ procs[k] \in Requests
    /\ procs[k].kind = "status" /\ procs[k].at = "assign" /\ HasCohort(procs[k])
    /\ Ids' = Ids
    /\ \A v \in Ids : /\ users'[v].phone = users[v].phone /\ users'[v].status = users[v].status
                      /\ users'[v].by = users[v].by /\ users'[v].onboarded = users[v].onboarded
    /\ UNCHANGED <<schedules, execs, released, requests, welcomed, aborted>>
    /\ \/ UNCHANGED <<cohort, owned, overwritten>>
       \/ \E n \in Numbers :
             /\ owned' = owned \cup {n} /\ SaveCohort(cohort', procs[k].cohort)
             /\ cohort'.status = procs[k].cohort.status
             /\ Range(cohort'.numbers) = Range(procs[k].cohort.numbers) \cup {n}
    /\ \E todo \in SUBSET procs[k].todo, c \in Cohorts :
          procs'[k] = [procs[k] EXCEPT !.todo = todo, !.cohort = c]

(* The first activation gives a user a number, which it may have to buy.   *)
LEMMA AssignNumberStep ==
    ASSUME Types, NEW k \in DOMAIN procs, AssignNumber(k)
    PROVE  Types' /\ NumberAssigned(k)
<1>. DEFINE r == procs[k]
            given(u, n) == [users[u] EXCEPT !.number = n]
            s(u, c) == [r EXCEPT !.todo = @ \ {u}, !.cohort = c]
<1>1. /\ r \in Requests /\ r.kind # "done" /\ Whole(r, Len(users), owned)
      /\ r.kind = "hour" <=> k = 1
  BY Going DEF AssignNumber
<1>2. r.at = "assign"
  BY DEF AssignNumber
<1>3. r.kind = "status" /\ HasCohort(r) /\ WholeCopy(r.cohort, owned) /\ r.todo \subseteq Ids
  <2>. HIDE DEF r
  <2>1. r.kind = "status" /\ HasCohort(r)
    BY <1>1, <1>2 DEF Whole, Place, HasCohort, CreatorStates, MakerStates, Creators, Makers
  <2>2. WholeCopy(r.cohort, owned) /\ r.todo \subseteq 1..Len(users)
    BY <1>1, <2>1 DEF Whole
  <2>3. Ids = 1..Len(users)
    BY DEF Types, DocumentsWhole, Ids
  <2>. QED
    BY <2>1, <2>2, <2>3
<1>4. IcNumber(r.cohort) \in owned \cup {None, "buy"}
  BY <1>3, IcNumberType
<1>5. ASSUME NEW u \in r.todo, NEW n \in owned' \cup {None}, owned \subseteq owned', owned' \subseteq Numbers,
             users' = [users EXCEPT ![u] = given(u, n)]
      PROVE  /\ Ids' = Ids /\ Len(users') = Len(users) /\ users' \in Seq(Documents) /\ Len(users) \in Nat
             /\ \A v \in Ids' : users'[v].number \in owned' \cup {None}
             /\ \A v \in Ids : /\ users'[v].phone = users[v].phone /\ users'[v].status = users[v].status
                               /\ users'[v].by = users[v].by /\ users'[v].onboarded = users[v].onboarded
  <2>. DEFINE d == given(u, n)
  <2>1. u \in Ids /\ users[u] \in Documents
    BY <1>3 DEF Types, DocumentsWhole, Ids
  <2>2. d \in Documents /\ d.number = n
    BY <2>1, <1>5 DEF Documents
  <2>3. /\ d.phone = users[u].phone /\ d.status = users[u].status
        /\ d.by = users[u].by /\ d.onboarded = users[u].onboarded
    BY <2>1 DEF Documents
  <2>4. users' = [users EXCEPT ![u] = d]
    BY <1>5
  <2>. HIDE DEF d
  <2>5. Writes(u, d)
    BY <1>5, <2>1, <2>2, <2>4 DEF Writes, WholeUser
  <2>6. /\ users' \in Seq(Documents) /\ Len(users') = Len(users) /\ Len(users) \in Nat
        /\ Ids' = Ids
        /\ users'[u] = d /\ \A v \in Ids \ {u} : users'[v] = users[v]
        /\ \A v \in Ids' : users'[v].number \in owned' \cup {None}
    BY <2>5, Written
  <2>. QED
    BY <2>3, <2>6
<1>6. ASSUME NEW u \in r.todo, NEW c \in Cohorts, WholeCopy(c, owned'), owned \subseteq owned',
             Len(users') = Len(users), Len(users) \in Nat,
             procs' = [procs EXCEPT ![k] = s(u, c)]
      PROVE  RequestsWhole' /\ Others(k) /\ procs'[k] = s(u, c)
  <2>. DEFINE z == s(u, c)
  <2>. HIDE DEF r
  <2>1. z \in Requests
    BY <1>1 DEF Requests
  <2>2. /\ z.kind = r.kind /\ z.at = r.at /\ z.phone = r.phone /\ z.number = r.number
        /\ z.new = r.new /\ z.cohort = c /\ z.user = r.user /\ z.id = r.id
        /\ z.todo = r.todo \ {u}
    BY <1>1 DEF Requests
  <2>3. procs' = [procs EXCEPT ![k] = z]
    BY <1>6
  <2>. HIDE DEF z
  <2>4. Whole(r, Len(users), owned')
    BY <1>1, <1>6, WholeGrows
  <2>5. Whole(z, Len(users), owned')
    BY <1>2, <1>3, <1>6, <2>2, <2>4
       DEF Whole, Place, HasUser, HasCohort, CreatorStates, MakerStates, Creators, Makers
  <2>6. Whole(z, Len(users'), owned')
    BY <1>6, <2>5
  <2>7. MovesTo(k, z)
    BY <2>1, <2>2, <2>3, <2>6, <1>1, <1>3, <1>6, SMTT(40) DEF MovesTo
  <2>. QED
    BY <2>7, MovedTo DEF z
<1>7. ASSUME NEW u \in r.todo, NEW n \in Numbers \ owned,
             owned' = owned \cup {n}, SaveCohort(Bought(r.cohort, n), r.cohort),
             users' = [users EXCEPT ![u] = given(u, n)],
             procs' = [procs EXCEPT ![k] = s(u, Bought(r.cohort, n))],
             UNCHANGED <<schedules, execs, released, requests, welcomed, aborted>>
      PROVE  Types' /\ NumberAssigned(k)
  <2>. DEFINE c == Bought(r.cohort, n)
  <2>1. owned \subseteq owned' /\ owned' \subseteq Numbers /\ n \in owned'
    BY <1>7 DEF Types, DocumentsWhole
  <2>2. /\ WholeCopy(c, owned') /\ c.status = r.cohort.status
        /\ Range(c.numbers) = Range(r.cohort.numbers) \cup {n}
    BY <1>3, <1>7, BoughtWhole, ZenonT(60)
  <2>3. SaveCohort(c, r.cohort) /\ cohort' = c /\ c \in Cohorts /\ overwritten' \in BOOLEAN
    BY <1>7, <2>2 DEF SaveCohort, WholeCopy, Types, DocumentsWhole
  <2>4. /\ Ids' = Ids /\ Len(users') = Len(users) /\ users' \in Seq(Documents) /\ Len(users) \in Nat
        /\ \A v \in Ids' : users'[v].number \in owned' \cup {None}
        /\ \A v \in Ids : /\ users'[v].phone = users[v].phone /\ users'[v].status = users[v].status
                          /\ users'[v].by = users[v].by /\ users'[v].onboarded = users[v].onboarded
    BY <1>5, <1>7, <2>1
  <2>5. RequestsWhole' /\ Others(k) /\ procs'[k] = s(u, c)
    BY <1>6, <1>7, <2>1, <2>2, <2>3, <2>4
  <2>6. DocumentsWhole'
    BY <1>7, <2>1, <2>2, <2>3, <2>4 DEF Types, DocumentsWhole, Ids
  <2>7. r.todo \ {u} \in SUBSET r.todo
    OBVIOUS
  <2>. QED
    BY <1>1, <1>2, <1>3, <1>7, <2>2, <2>3, <2>4, <2>5, <2>6, <2>7 DEF Types, NumberAssigned
<1>8. ASSUME NEW u \in r.todo, IcNumber(r.cohort) # "buy",
             users' = [users EXCEPT ![u] = given(u, IcNumber(r.cohort))],
             procs' = [procs EXCEPT ![k].todo = @ \ {u}],
             UNCHANGED <<cohort, owned, overwritten>>,
             UNCHANGED <<schedules, execs, released, requests, welcomed, aborted>>
      PROVE  Types' /\ NumberAssigned(k)
  <2>1. owned \subseteq owned' /\ owned' \subseteq Numbers
    BY <1>8 DEF Types, DocumentsWhole
  <2>2. r.cohort \in Cohorts /\ [r EXCEPT !.todo = @ \ {u}] = s(u, r.cohort)
    <3>. HIDE DEF r
    <3>. QED
      BY <1>1, <1>3 DEF WholeCopy, Requests
  <2>3. procs' = [procs EXCEPT ![k] = s(u, r.cohort)]
    BY <1>8, <2>2
  <2>4. /\ Ids' = Ids /\ Len(users') = Len(users) /\ users' \in Seq(Documents) /\ Len(users) \in Nat
        /\ \A v \in Ids' : users'[v].number \in owned' \cup {None}
        /\ \A v \in Ids : /\ users'[v].phone = users[v].phone /\ users'[v].status = users[v].status
                          /\ users'[v].by = users[v].by /\ users'[v].onboarded = users[v].onboarded
    <3>1. IcNumber(r.cohort) \in owned' \cup {None}
      BY <1>4, <1>8
    <3>. QED
      BY <1>5, <1>8, <2>1, <3>1
  <2>5. WholeCopy(r.cohort, owned')
    BY <1>3, <1>8
  <2>6. RequestsWhole' /\ Others(k) /\ procs'[k] = s(u, r.cohort)
    BY <1>6, <2>1, <2>2, <2>3, <2>4, <2>5
  <2>7. DocumentsWhole'
    BY <1>8, <2>4 DEF Types, DocumentsWhole, Ids
  <2>8. r.todo \ {u} \in SUBSET r.todo
    OBVIOUS
  <2>. QED
    BY <1>1, <1>2, <1>3, <1>8, <2>2, <2>4, <2>6, <2>7, <2>8 DEF Types, NumberAssigned
<1>. QED
  BY <1>7, <1>8, ZenonT(60) DEF AssignNumber
-----------------------------------------------------------------------------
(* An onboarding thread is a whole request.                                *)
LEMMA ThreadWhole ==
    ASSUME Types, NEW u \in Ids, NEW k \in Nat
    PROVE  /\ Thread(u, k) \in Requests /\ Whole(Thread(u, k), Len(users), owned)
           /\ Thread(u, k).kind = "thread" /\ Thread(u, k).at = "welcome"
           /\ Thread(u, k).id = u /\ Thread(u, k).user = None
<1>. DEFINE t == Thread(u, k)
<1>1. u \in 1..Len(users) /\ u \in Nat
  BY DEF Types, DocumentsWhole, Ids
<1>2. /\ t.kind = "thread" /\ t.at = "welcome" /\ t.rows = {} /\ t.phone = None /\ t.number = None
      /\ t.new = k /\ t.cohort = None /\ t.user = None /\ t.id = u /\ t.todo = {}
      /\ t \in Requests
  BY <1>1 DEF Thread, Request, Requests, RequestKinds, Makers, States
<1>. HIDE DEF t
<1>3. Whole(t, Len(users), owned)
  BY <1>1, <1>2 DEF Whole, Place, HasUser, HasCohort, CreatorStates, MakerStates, Creators, Makers
<1>. QED
  BY <1>2, <1>3 DEF t

(* Process k goes on as s, and thread t begins if P is true.               *)
Forks(k, s, t, P) ==
    LET Q == [procs EXCEPT ![k] = s]
    IN  procs' = IF P THEN Append(Q, t) ELSE Q

Forked(k, s, t, P) ==
    /\ DOMAIN procs \subseteq DOMAIN procs' /\ procs'[k] = s
    /\ \A j \in DOMAIN procs \ {k} : procs'[j] = procs[j]
    /\ \A j \in DOMAIN procs' \ DOMAIN procs : procs'[j] = t
    /\ \A i, j \in DOMAIN procs' \ DOMAIN procs : i = j
    /\ P => \E j \in DOMAIN procs' : procs'[j] = t

(* A process goes on, and a thread may begin.                              *)
LEMMA Forking ==
    ASSUME Types, NEW k \in DOMAIN procs, NEW s \in Requests \cup {Done}, s.kind = "hour" <=> k = 1,
           s.kind # "done" => Whole(s, Len(users), owned),
           NEW t \in Requests, t.kind # "hour", Whole(t, Len(users), owned),
           NEW P, Forks(k, s, t, P),
           UNCHANGED <<documents, welcomed, aborted, overwritten>>, requests' \in Nat
    PROVE  Types' /\ Forked(k, s, t, P)
<1>. DEFINE R == Requests \cup {Done}
            n == Len(users)
            Q == [procs EXCEPT ![k] = s]
<1>1. procs \in Seq(R) /\ n \in Nat /\ AllWhole(procs, n, owned) /\ s \in R
  BY DEF Types, DocumentsWhole, RequestsWhole, AllWhole
<1>2. procs' = IF P THEN Append(Q, t) ELSE Q
  BY DEF Forks
<1>3. s.kind # "done" => Whole(s, n, owned)
  OBVIOUS
<1>4. Whole(t, n, owned)
  OBVIOUS
<1>. HIDE DEF R, n
<1>5. /\ Q \in Seq(R) /\ DOMAIN Q = DOMAIN procs /\ Q[k] = s
      /\ \A j \in DOMAIN procs \ {k} : Q[j] = procs[j]
  BY <1>1, Replaced
<1>. HIDE DEF Q
<1>6. AllWhole(Q, n, owned)
  <2>1. GoesOn(procs, Q, k, n, n, owned, owned)
    BY <1>1, <1>3, <1>5 DEF R, GoesOn
  <2>. QED
    BY <2>1, MoveWhole
<1>7. /\ AllWhole(Append(Q, t), n, owned)
      /\ Len(Q) \in Nat /\ DOMAIN Q = 1..Len(Q)
      /\ DOMAIN Append(Q, t) = 1..(Len(Q) + 1)
      /\ Append(Q, t)[Len(Q) + 1] = t
      /\ \A j \in DOMAIN Q : Append(Q, t)[j] = Q[j]
  BY <1>1, <1>4, <1>6, AppendWhole
<1>8. AllWhole(procs', n, owned)
  BY <1>2, <1>6, <1>7
<1>9. Types'
  <2>1. DocumentsWhole'
    BY DEF Types, DocumentsWhole, documents, Ids
  <2>2. Len(users') = n /\ owned' = owned
    BY DEF documents, n
  <2>. QED
    BY <1>8, <2>1, <2>2 DEF Types, RequestsWhole
<1>10. Forked(k, s, t, P)
  <2>1. CASE P
    <3>1. procs' = Append(Q, t)
      BY <2>1, <1>2
    <3>2. /\ DOMAIN procs' = 1..(Len(Q) + 1) /\ procs'[Len(Q) + 1] = t /\ DOMAIN procs = 1..Len(Q)
          /\ \A j \in DOMAIN procs : procs'[j] = Q[j]
      BY <3>1, <1>5, <1>7
    <3>3. /\ DOMAIN procs \subseteq DOMAIN procs' /\ Len(Q) + 1 \in DOMAIN procs'
          /\ \A j \in DOMAIN procs' \ DOMAIN procs : j = Len(Q) + 1
      BY <3>2, <1>7
    <3>. QED
      BY <3>2, <3>3, <1>5 DEF Forked
  <2>2. CASE ~P
    BY <2>2, <1>2, <1>5 DEF Forked
  <2>. QED
    BY <2>1, <2>2
<1>. QED
  BY <1>9, <1>10

(* onboard_user begins a thread if the copy of the user, and the cohort,   *)
(* are active.                                                             *)
LEMMA OnboardStep ==
    ASSUME Types, NEW k \in DOMAIN procs, Onboard(k)
    PROVE  /\ Types' /\ UNCHANGED <<documents, ghosts>>
           /\ procs[k] \in Requests /\ procs[k].kind \in Creators /\ HasUser(procs[k])
           /\ procs[k].kind # "text" => AllMade(procs[k])
           /\ procs[k].kind = "text" => procs[k].at = "onboard"
           /\ procs[k].id \in Ids /\ procs[k].user \in Documents
           /\ Forked(k, IF procs[k].kind = "text" THEN Done ELSE [procs[k] EXCEPT !.at = "save"],
                     Thread(procs[k].id, k),
                     procs[k].user.status = "active" /\ cohort.status = "active")
<1>. DEFINE r == procs[k]
            s == IF r.kind = "text" THEN Done ELSE [r EXCEPT !.at = "save"]
            t == Thread(r.id, k)
            P == r.user.status = "active" /\ cohort.status = "active"
<1>1. /\ r \in Requests /\ r.kind # "done" /\ Whole(r, Len(users), owned)
      /\ r.kind = "hour" <=> k = 1
  BY Going DEF Onboard, AllMade
<1>2. /\ r.at = "onboard" \/ (r.kind \in {"page", "upload"} /\ AllMade(r))
      /\ UNCHANGED <<documents, ghosts>> /\ Forks(k, s, t, P)
  BY DEF Onboard, Forks
<1>. HIDE DEF r
<1>3. r.kind \in Creators /\ HasUser(r) /\ (r.kind # "text" => AllMade(r)) /\ (r.kind = "text" => r.at = "onboard")
  BY <1>1, <1>2 DEF Whole, Place, HasUser, AllMade, CreatorStates, MakerStates, Creators, Makers
<1>4. WholeUser(r.user, owned) /\ r.id \in Ids
  <2>1. WholeUser(r.user, owned) /\ r.id \in 1..Len(users)
    BY <1>1, <1>3 DEF Whole
  <2>. QED
    BY <2>1 DEF Types, DocumentsWhole, Ids
<1>5. t \in Requests /\ Whole(t, Len(users), owned) /\ t.kind # "hour"
  <2>1. k \in Nat
    BY DEF Types, RequestsWhole, AllWhole
  <2>. QED
    BY <1>4, <2>1, ThreadWhole
<1>6. /\ s \in Requests \cup {Done} /\ (s.kind = "hour" <=> k = 1)
      /\ s.kind # "done" => Whole(s, Len(users), owned)
  <2>1. CASE r.kind = "text"
    BY <2>1, <1>1 DEF Done
  <2>2. CASE r.kind # "text"
    <3>. DEFINE z == [r EXCEPT !.at = "save"]
    <3>1. z \in Requests
      BY <1>1 DEF Requests, States
    <3>2. /\ z.kind = r.kind /\ z.at = "save" /\ z.phone = r.phone /\ z.number = r.number
          /\ z.new = r.new /\ z.cohort = r.cohort /\ z.user = r.user /\ z.id = r.id /\ z.todo = r.todo
      BY <1>1 DEF Requests
    <3>3. s = z
      BY <2>2
    <3>. HIDE DEF z
    <3>4. Whole(z, Len(users), owned)
      BY <1>1, <1>2, <1>3, <2>2, <3>2
         DEF Whole, Place, HasUser, HasCohort, AllMade, CreatorStates, MakerStates, Creators, Makers
    <3>. QED
      BY <3>1, <3>2, <3>3, <3>4, <1>1, <1>3 DEF Creators
  <2>. QED
    BY <2>1, <2>2
<1>. HIDE DEF s, t, P
<1>7. Types' /\ Forked(k, s, t, P)
  <2>1. UNCHANGED <<documents, welcomed, aborted, overwritten>> /\ requests' \in Nat
    BY <1>2 DEF ghosts, Types, DocumentsWhole
  <2>. QED
    BY <2>1, <1>2, <1>5, <1>6, Forking
<1>. QED
  BY <1>1, <1>2, <1>3, <1>4, <1>7 DEF s, t, P, r, WholeUser

(* change_cohort_status begins one for the next of the users it listed.    *)
LEMMA OnboardListedStep ==
    ASSUME Types, NEW k \in DOMAIN procs, OnboardListed(k)
    PROVE  /\ Types' /\ UNCHANGED <<documents, ghosts>>
           /\ procs[k] \in Requests /\ procs[k].kind = "status" /\ procs[k].at = "loop"
           /\ \E u \in procs[k].todo :
                 /\ u \in Ids
                 /\ Forked(k, [procs[k] EXCEPT !.todo = @ \ {u}], Thread(u, k), cohort.status = "active")
<1>1. PICK u \in procs[k].todo :
          LET next == [procs EXCEPT ![k].todo = @ \ {u}]
          IN  procs' = IF cohort.status = "active" THEN Append(next, Thread(u, k)) ELSE next
  BY DEF OnboardListed
<1>. DEFINE r == procs[k]
            s == [r EXCEPT !.todo = @ \ {u}]
            t == Thread(u, k)
            P == cohort.status = "active"
<1>2. /\ r \in Requests /\ r.kind # "done" /\ Whole(r, Len(users), owned)
      /\ r.kind = "hour" <=> k = 1
  BY Going DEF OnboardListed
<1>3. r.at = "loop" /\ u \in r.todo /\ UNCHANGED <<documents, ghosts>> /\ Forks(k, s, t, P)
  BY <1>1 DEF OnboardListed, Forks
<1>. HIDE DEF r
<1>4. r.kind = "status"
  BY <1>2, <1>3 DEF Whole, Place, CreatorStates, MakerStates, Creators, Makers
<1>5. u \in Ids
  <2>1. u \in 1..Len(users)
    BY <1>2, <1>3, <1>4 DEF Whole
  <2>. QED
    BY <2>1 DEF Types, DocumentsWhole, Ids
<1>6. t \in Requests /\ Whole(t, Len(users), owned) /\ t.kind # "hour"
  <2>1. k \in Nat
    BY DEF Types, RequestsWhole, AllWhole
  <2>. QED
    BY <1>5, <2>1, ThreadWhole
<1>7. /\ s \in Requests \cup {Done} /\ (s.kind = "hour" <=> k = 1)
      /\ Whole(s, Len(users), owned)
  <2>1. s \in Requests
    BY <1>2 DEF Requests
  <2>2. /\ s.kind = r.kind /\ s.at = r.at /\ s.phone = r.phone /\ s.number = r.number
        /\ s.new = r.new /\ s.cohort = r.cohort /\ s.user = r.user /\ s.id = r.id
        /\ s.todo = r.todo \ {u}
    BY <1>2 DEF Requests
  <2>. HIDE DEF s
  <2>3. Whole(s, Len(users), owned)
    BY <1>2, <1>3, <1>4, <2>2 DEF Whole, Place, HasUser, HasCohort, CreatorStates, MakerStates, Creators, Makers
  <2>. QED
    BY <2>1, <2>2, <2>3, <1>2
<1>. HIDE DEF s, t, P
<1>8. Types' /\ Forked(k, s, t, P)
  <2>1. UNCHANGED <<documents, welcomed, aborted, overwritten>> /\ requests' \in Nat
    BY <1>3 DEF ghosts, Types, DocumentsWhole
  <2>. QED
    BY <2>1, <1>3, <1>6, <1>7, Forking
<1>. QED
  BY <1>2, <1>3, <1>4, <1>5, <1>8 DEF s, t, P, r

(* The user of u is marked; so is the copy the creator has of it.          *)
Marked(k) ==
    LET u == procs[k].id
    IN  /\ DOMAIN procs' = DOMAIN procs
        /\ procs'[k] = [procs[k] EXCEPT !.at = "schedules"]
        /\ \A j \in DOMAIN procs \ {k} :
              \/ procs'[j] = procs[j]
              \/ /\ procs[j] \in Requests /\ procs'[j] \in Requests
                 /\ procs[j].id = u /\ procs[j].user \in Documents
                 /\ procs'[j].kind = procs[j].kind /\ procs'[j].at = procs[j].at
                 /\ procs'[j].phone = procs[j].phone /\ procs'[j].new = procs[j].new
                 /\ procs'[j].id = procs[j].id /\ procs'[j].todo = procs[j].todo
                 /\ procs'[j].user.phone = procs[j].user.phone /\ procs'[j].user.by = procs[j].user.by
                 /\ procs'[j].user.status = procs[j].user.status
        /\ Ids' = Ids /\ u \in Ids
        /\ \A v \in Ids : /\ users'[v].phone = users[v].phone /\ users'[v].status = users[v].status
                          /\ users'[v].number = users[v].number
                          /\ users'[v].by = users[v].by
                          /\ v # u => users'[v] = users[v]

(* The onboarding thread marks the user onboarded.                         *)
LEMMA MarkOnboardedStep ==
    ASSUME Types, NEW k \in DOMAIN procs, MarkOnboarded(k)
    PROVE  /\ Types' /\ Marked(k) /\ procs[k] \in Requests
           /\ procs[k].kind = "thread" /\ procs[k].at = "mark"
           /\ UNCHANGED <<cohort, schedules, execs, owned, released, ghosts>>
<1>. DEFINE r == procs[k]
            u == r.id
            moved(i) == [procs[i] EXCEPT !.at = "schedules"]
            s == moved(k)
            d == [users[u] EXCEPT !.onboarded = TRUE]
            R == Requests \cup {Done}
            shown(i) == [procs[i] EXCEPT !.user.onboarded = TRUE]
            sees(i) == i # k /\ i = r.new /\ procs[i].kind # "done" /\ procs[i].id = u /\ procs[i].user # None
<1>1. /\ r \in Requests /\ r.kind # "done" /\ Whole(r, Len(users), owned)
      /\ r.kind = "hour" <=> k = 1
  BY Going DEF MarkOnboarded
<1>2. /\ r.at = "mark" /\ users' = [users EXCEPT ![u] = d]
      /\ DOMAIN procs' = DOMAIN procs /\ procs'[k] = s
      /\ \A i \in DOMAIN procs : sees(i) => procs'[i] = shown(i)
      /\ \A i \in DOMAIN procs \ {k} : ~sees(i) => procs'[i] = procs[i]
      /\ \E e : procs' = [i \in DOMAIN procs |-> e[i]]
      /\ UNCHANGED <<cohort, schedules, execs, owned, released, ghosts>>
  <2>1. /\ r.at = "mark" /\ users' = [users EXCEPT ![u] = d]
        /\ UNCHANGED <<cohort, schedules, execs, owned, released, ghosts>>
    BY DEF MarkOnboarded
  <2>2. procs' = [i \in DOMAIN procs |->
                    IF i = k THEN moved(i)
                    ELSE IF i = r.new /\ procs[i].kind # "done" /\ procs[i].id = u /\ procs[i].user # None
                    THEN shown(i) ELSE procs[i]]
    BY DEF MarkOnboarded
  <2>. HIDE DEF moved, shown
  <2>3. procs' = [i \in DOMAIN procs |-> procs'[i]]
    BY <2>2
  <2>4. DOMAIN procs' = DOMAIN procs /\ procs'[k] = s
    BY <2>2
  <2>5. ASSUME NEW i \in DOMAIN procs, sees(i)
        PROVE  procs'[i] = shown(i)
    BY <2>2, <2>5
  <2>6. ASSUME NEW i \in DOMAIN procs \ {k}, ~sees(i)
        PROVE  procs'[i] = procs[i]
    BY <2>2, <2>6
  <2>. QED
    BY <2>1, <2>3, <2>4, <2>5, <2>6
<1>3. r.kind = "thread"
  <2>. HIDE DEF r
  <2>. QED
    BY <1>1, <1>2 DEF Whole, Place, CreatorStates, MakerStates, Creators, Makers
<1>4. u \in 1..Len(users) /\ u \in Ids
  <2>1. u \in 1..Len(users)
    BY <1>1, <1>3 DEF Whole
  <2>. QED
    BY <2>1 DEF Types, DocumentsWhole, Ids
<1>5. users[u] \in Documents /\ users[u].number \in owned \cup {None}
  BY <1>4 DEF Types, DocumentsWhole, Ids
<1>6. /\ d \in Documents /\ d.number = users[u].number /\ d.phone = users[u].phone
      /\ d.status = users[u].status /\ d.by = users[u].by
  BY <1>5 DEF Documents
<1>. HIDE DEF d
<1>7. /\ users' \in Seq(Documents) /\ Len(users') = Len(users) /\ Len(users) \in Nat
      /\ Ids' = Ids
      /\ users'[u] = d /\ \A v \in Ids \ {u} : users'[v] = users[v]
      /\ \A v \in Ids' : users'[v].number \in owned' \cup {None}
  <2>1. owned \subseteq owned' /\ WholeUser(d, owned')
    BY <1>2, <1>5, <1>6 DEF WholeUser
  <2>2. Writes(u, d)
    BY <1>2, <1>4, <2>1 DEF Writes
  <2>. QED
    BY <2>2, Written
<1>8. /\ procs \in Seq(R) /\ AllWhole(procs, Len(users), owned)
      /\ Len(procs) \in Nat /\ DOMAIN procs = 1..Len(procs)
  BY DEF Types, RequestsWhole, AllWhole
<1>. HIDE DEF moved, s, sees, shown
<1>9. ASSUME NEW j \in DOMAIN procs, sees(j)
      PROVE  /\ procs[j] \in Requests /\ procs'[j] \in Requests
             /\ procs[j].id = u /\ procs[j].user \in Documents
             /\ procs'[j].kind = procs[j].kind /\ procs'[j].at = procs[j].at
             /\ procs'[j].phone = procs[j].phone /\ procs'[j].new = procs[j].new
             /\ procs'[j].id = procs[j].id /\ procs'[j].todo = procs[j].todo
             /\ procs'[j].user.phone = procs[j].user.phone /\ procs'[j].user.by = procs[j].user.by
             /\ procs'[j].user.status = procs[j].user.status
             /\ Whole(procs'[j], Len(users), owned)
             /\ procs[j].kind = "hour" <=> j = 1
  <2>. DEFINE q == procs[j]
              z == [q EXCEPT !.user.onboarded = TRUE]
              c == [q.user EXCEPT !.onboarded = TRUE]
  <2>1. q \in R
    <3>. HIDE DEF R
    <3>. QED
      BY <1>8
  <2>2. q \in Requests
    BY <2>1, <1>9, NotDone DEF R, sees
  <2>3. Whole(q, Len(users), owned) /\ (q.kind = "hour" <=> j = 1)
    BY <2>2, <1>8, <1>9 DEF AllWhole, sees
  <2>4. procs'[j] = z /\ q.id = u /\ q.user # None
    BY <1>2, <1>9 DEF sees, shown
  <2>. HIDE DEF q
  <2>5. WholeUser(q.user, owned)
    BY <2>3, <2>4 DEF Whole
  <2>6. /\ c \in Documents /\ c.number = q.user.number /\ c.phone = q.user.phone
        /\ c.by = q.user.by /\ c.status = q.user.status
    BY <2>5 DEF WholeUser, Documents
  <2>7. z = [q EXCEPT !.user = c]
    OBVIOUS
  <2>. HIDE DEF c, z
  <2>8. z \in Requests
    BY <2>2, <2>6, <2>7 DEF Requests
  <2>9. /\ z.kind = q.kind /\ z.at = q.at /\ z.phone = q.phone /\ z.number = q.number
        /\ z.new = q.new /\ z.cohort = q.cohort /\ z.user = c /\ z.id = q.id /\ z.todo = q.todo
    BY <2>2, <2>7 DEF Requests
  <2>10. Whole(z, Len(users), owned)
    BY <2>3, <2>4, <2>5, <2>6, <2>9 DEF Whole, WholeUser, HasUser, HasCohort
  <2>. QED
    BY <2>2, <2>3, <2>4, <2>5, <2>6, <2>8, <2>9, <2>10 DEF q, WholeUser
<1>10. s \in Requests /\ s.kind = "thread" /\ Whole(s, Len(users), owned)
  <2>. HIDE DEF r
  <2>1. s \in Requests
    BY <1>1 DEF Requests, States, MakerStates, s, moved, r
  <2>2. /\ s.kind = r.kind /\ s.at = "schedules" /\ s.phone = r.phone /\ s.number = r.number
        /\ s.new = r.new /\ s.cohort = r.cohort /\ s.user = r.user /\ s.id = r.id /\ s.todo = r.todo
    BY <1>1 DEF Requests, s, moved, r
  <2>3. Whole(s, Len(users), owned)
    BY <1>1, <1>2, <1>3, <2>2 DEF Whole, Place, HasUser, HasCohort, CreatorStates, MakerStates, Creators, Makers
  <2>. QED
    BY <2>1, <2>2, <2>3, <1>3
<1>11. ASSUME NEW j \in DOMAIN procs
       PROVE  /\ procs'[j] \in R /\ (procs'[j].kind = "hour" <=> j = 1)
              /\ procs'[j].kind # "done" => Whole(procs'[j], Len(users), owned)
  <2>1. CASE j = k
    BY <2>1, <1>1, <1>2, <1>3, <1>10
  <2>2. CASE sees(j)
    BY <2>2, <1>9
  <2>3. CASE j # k /\ ~sees(j)
    <3>1. procs'[j] = procs[j] /\ procs[j] \in R
      <4>. HIDE DEF R
      <4>. QED
        BY <2>3, <1>2, <1>8
    <3>. QED
      BY <3>1, <1>8 DEF AllWhole
  <2>. QED
    BY <2>1, <2>2, <2>3
<1>12. RequestsWhole'
  <2>1. procs' \in Seq(R)
    <3>. HIDE DEF R
    <3>1. PICK e : procs' = [i \in DOMAIN procs |-> e[i]]
      BY <1>2
    <3>2. \A i \in 1..Len(procs) : e[i] \in R
      BY <3>1, <1>8, <1>11
    <3>. QED
      BY <3>1, <3>2, <1>8, IsASeq
  <2>2. AllWhole(procs', Len(users), owned)
    BY <2>1, <1>2, <1>8, <1>11 DEF AllWhole
  <2>3. Len(users') = Len(users) /\ owned' = owned
    BY <1>2, <1>7
  <2>. QED
    BY <2>2, <2>3 DEF RequestsWhole
<1>13. DocumentsWhole'
  BY <1>2, <1>7 DEF Types, DocumentsWhole, Ids, ghosts
<1>14. Marked(k)
  <2>1. \A j \in DOMAIN procs \ {k} : procs'[j] = procs[j] \/ sees(j)
    BY <1>2
  <2>2. \A v \in Ids : /\ users'[v].phone = users[v].phone /\ users'[v].status = users[v].status
                       /\ users'[v].number = users[v].number
                       /\ users'[v].by = users[v].by
                       /\ v # u => users'[v] = users[v]
    BY <1>6, <1>7
  <2>3. procs'[k] = [procs[k] EXCEPT !.at = "schedules"]
    BY <1>2 DEF s, moved
  <2>. QED
    BY <2>1, <2>2, <2>3, <1>2, <1>4, <1>7, <1>9 DEF Marked
<1>. QED
  BY <1>1, <1>2, <1>3, <1>12, <1>13, <1>14 DEF Types
-----------------------------------------------------------------------------
(* A request begins, and the hourly job is no longer alone.                *)
Begun(t) ==
    /\ UNCHANGED <<documents, welcomed, aborted, overwritten>>
    /\ Forked(1, [procs[1] EXCEPT !.new = None], t, TRUE)
    /\ procs[1] \in Requests /\ procs[1].kind = "hour"
    /\ t \in Requests /\ t.kind \notin {"thread", "hour"} /\ t.user = None /\ ~HasUser(t)
    /\ t.at \in {"lookup", "create", "load"} /\ (t.kind = "schedule" => t.at = "create")
    /\ t.kind = "text" => ~Locked(t.phone)

(* A request of any kind begins.                                           *)
LEMMA BeginStep ==
    ASSUME Types, NEW t \in Requests, t.kind \notin {"thread", "hour"}, t.user = None, ~HasUser(t),
           t.at \in {"lookup", "create", "load"}, t.kind = "schedule" => t.at = "create",
           t.kind = "text" => ~Locked(t.phone),
           Whole(t, Len(users), owned), Begin(t)
    PROVE  Types' /\ Begun(t)
<1>. DEFINE r == procs[1]
            k == 1
            s == [r EXCEPT !.new = None]
<1>1. /\ 1 \in DOMAIN procs /\ r \in Requests /\ r.kind = "hour" /\ Whole(r, Len(users), owned)
  <2>1. 1 \in DOMAIN procs /\ procs[1].kind = "hour"
    BY DEF Types, RequestsWhole, AllWhole
  <2>2. procs[1] \in Requests /\ Whole(procs[1], Len(users), owned)
    <3>. DEFINE R == Requests \cup {Done}
    <3>1. procs \in Seq(R)
      BY DEF Types, RequestsWhole, AllWhole
    <3>. HIDE DEF R
    <3>2. procs[1] \in R
      BY <2>1, <3>1
    <3>3. procs[1] \in Requests
      BY <2>1, <3>2, NotDone DEF R
    <3>. QED
      BY <2>1, <3>3 DEF Types, RequestsWhole, AllWhole
  <2>. QED
    BY <2>1, <2>2
<1>2. /\ procs' = Append([procs EXCEPT ![1] = s], t) /\ requests' = requests + 1
      /\ UNCHANGED <<documents, welcomed, aborted, overwritten>>
  BY DEF Begin
<1>3. Forks(1, s, t, TRUE) /\ requests' \in Nat
  BY <1>2 DEF Forks, Types, DocumentsWhole
<1>. HIDE DEF r
<1>4. s \in Requests
  BY <1>1 DEF Requests
<1>5. /\ s.kind = r.kind /\ s.at = r.at /\ s.phone = r.phone /\ s.number = r.number
      /\ s.new = None /\ s.cohort = r.cohort /\ s.user = r.user /\ s.id = r.id /\ s.todo = r.todo
  BY <1>1 DEF Requests
<1>. HIDE DEF s
<1>6. Whole(s, Len(users), owned)
  BY <1>1, <1>5 DEF Whole, Place, HasUser, HasCohort, Creators
<1>7. Types' /\ Forked(1, s, t, TRUE)
  BY <1>1, <1>2, <1>3, <1>4, <1>5, <1>6, Forking
<1>. QED
  BY <1>1, <1>2, <1>7 DEF Begun, s, r

(* Whichever request arrives, one has begun.                               *)
LEMMA ArriveStep ==
    ASSUME Types, Arrive
    PROVE  Types' /\ \E t : Begun(t)
<1>1. Len(users) \in Nat /\ LiveIds \subseteq 1..Len(users) /\ owned \subseteq Numbers
  BY DEF Types, DocumentsWhole, LiveIds, Ids
<1>2. ASSUME NEW p \in Phones, NEW n \in Numbers, NEW z \in {"active", "pending"}, Text(p, n, z)
      PROVE  Types' /\ \E t : Begun(t)
  <2>. DEFINE t == [Request("text", "lookup", {}, n, z) EXCEPT !.phone = p]
  <2>1. /\ t.kind = "text" /\ t.at = "lookup" /\ t.rows = {} /\ t.phone = p /\ t.number = n
        /\ t.new = z /\ t.cohort = None /\ t.user = None /\ t.id = 0 /\ t.todo = {}
        /\ t \in Requests
    BY DEF Request, Requests, RequestKinds, Makers, Creators, States, CreatorStates
  <2>2. Begin(t) /\ ~Locked(p) /\ n \in owned
    BY <1>2 DEF Text
  <2>. HIDE DEF t
  <2>3. Whole(t, Len(users), owned) /\ ~HasUser(t)
    BY <2>1, <2>2, <1>1 DEF Whole, Place, HasUser, HasCohort, CreatorStates, MakerStates, Creators, Makers
  <2>. QED
    BY <2>1, <2>2, <2>3, BeginStep
<1>3. ASSUME NEW p \in Phones, Page(p)
      PROVE  Types' /\ \E t : Begun(t)
  <2>. DEFINE t == [Request("page", "lookup", {}, None, "active") EXCEPT !.phone = p]
  <2>1. /\ t.kind = "page" /\ t.at = "lookup" /\ t.rows = {} /\ t.phone = p /\ t.number = None
        /\ t.new = "active" /\ t.cohort = None /\ t.user = None /\ t.id = 0 /\ t.todo = {}
        /\ t \in Requests
    BY DEF Request, Requests, RequestKinds, Makers, Creators, States, CreatorStates
  <2>2. Begin(t)
    BY <1>3 DEF Page
  <2>. HIDE DEF t
  <2>3. Whole(t, Len(users), owned) /\ ~HasUser(t)
    BY <2>1, <2>2, <1>1 DEF Whole, Place, HasUser, HasCohort, CreatorStates, MakerStates, Creators, Makers
  <2>. QED
    BY <2>1, <2>2, <2>3, BeginStep
<1>4. ASSUME NEW rows \in SUBSET Phones, Upload(rows)
      PROVE  Types' /\ \E t : Begun(t)
  <2>. DEFINE t == Request("upload", "lookup", rows, None, "active")
  <2>1. /\ t.kind = "upload" /\ t.at = "lookup" /\ t.rows = rows /\ t.phone = None /\ t.number = None
        /\ t.new = "active" /\ t.cohort = None /\ t.user = None /\ t.id = 0 /\ t.todo = {}
        /\ t \in Requests
    BY DEF Request, Requests, RequestKinds, Makers, Creators, States, CreatorStates
  <2>2. Begin(t)
    BY <1>4 DEF Upload
  <2>. HIDE DEF t
  <2>3. Whole(t, Len(users), owned) /\ ~HasUser(t)
    BY <2>1, <2>2, <1>1 DEF Whole, Place, HasUser, HasCohort, CreatorStates, MakerStates, Creators, Makers
  <2>. QED
    BY <2>1, <2>2, <2>3, BeginStep
<1>5. ASSUME NEW z \in Schedules, CreateSchedule(z)
      PROVE  Types' /\ \E t : Begun(t)
  <2>. DEFINE t == Request("schedule", "create", {}, None, z)
  <2>1. /\ t.kind = "schedule" /\ t.at = "create" /\ t.rows = {} /\ t.phone = None /\ t.number = None
        /\ t.new = z /\ t.cohort = None /\ t.user = None /\ t.id = 0 /\ t.todo = {}
        /\ t \in Requests
    BY DEF Request, Requests, RequestKinds, Makers, Creators, States, CreatorStates
  <2>2. Begin(t)
    BY <1>5 DEF CreateSchedule
  <2>. HIDE DEF t
  <2>3. Whole(t, Len(users), owned) /\ ~HasUser(t)
    BY <2>1, <2>2, <1>1 DEF Whole, Place, HasUser, HasCohort, CreatorStates, MakerStates, Creators, Makers
  <2>. QED
    BY <2>1, <2>2, <2>3, BeginStep
<1>6. ASSUME NEW kind, NEW z, EditCohort(kind, z),
             \/ kind = "status" /\ z \in {"active", "paused"}
             \/ kind = "modify" /\ z = None
             \/ kind = "close" /\ z = "completed"
      PROVE  Types' /\ \E t : Begun(t)
  <2>. DEFINE t == Request(kind, "load", {}, None, z)
  <2>1. /\ t.kind = kind /\ t.at = "load" /\ t.rows = {} /\ t.phone = None /\ t.number = None
        /\ t.new = z /\ t.cohort = None /\ t.user = None /\ t.id = 0 /\ t.todo = {}
        /\ t \in Requests
    BY <1>6 DEF Request, Requests, RequestKinds, Makers, Creators, States, CreatorStates
  <2>2. Begin(t)
    BY <1>6 DEF EditCohort
  <2>. HIDE DEF t
  <2>3. Whole(t, Len(users), owned) /\ ~HasUser(t)
    BY <2>1, <2>2, <1>1, <1>6 DEF Whole, Place, HasUser, HasCohort, CreatorStates, MakerStates, Creators, Makers
  <2>. QED
    BY <2>1, <2>2, <2>3, <1>6, BeginStep
<1>7. ASSUME NEW kind, NEW u \in LiveIds, NEW z, EditUser(kind, u, z),
             \/ kind = "rephone" /\ z \in Phones
             \/ kind = "delete" /\ z = None
      PROVE  Types' /\ \E t : Begun(t)
  <2>. DEFINE t == [Request(kind, "load", {}, None, z) EXCEPT !.id = u]
  <2>1. /\ t.kind = kind /\ t.at = "load" /\ t.rows = {} /\ t.phone = None /\ t.number = None
        /\ t.new = z /\ t.cohort = None /\ t.user = None /\ t.id = u /\ t.todo = {}
        /\ t \in Requests
    BY <1>1, <1>7 DEF Request, Requests, RequestKinds, Makers, Creators, States, CreatorStates
  <2>2. Begin(t)
    BY <1>7 DEF EditUser
  <2>. HIDE DEF t
  <2>3. Whole(t, Len(users), owned) /\ ~HasUser(t)
    BY <2>1, <2>2, <1>1, <1>7 DEF Whole, Place, HasUser, HasCohort, CreatorStates, MakerStates, Creators, Makers
  <2>. QED
    BY <2>1, <2>2, <2>3, <1>7, BeginStep
<1>. QED
  BY <1>2, <1>3, <1>4, <1>5, <1>6, <1>7 DEF Arrive
-----------------------------------------------------------------------------
(* The initial documents and the hourly job are whole.                     *)
LEMMA InitTypes ==
    ASSUME Init
    PROVE  Types
<1>1. /\ users = <<>> /\ execs = <<>> /\ schedules = {} /\ released = {} /\ procs = <<Hourly>>
      /\ requests = 0 /\ welcomed = {} /\ aborted = FALSE /\ overwritten = FALSE
      /\ \/ cohort = [status |-> "pending", numbers |-> <<>>] /\ owned = {}
         \/ cohort = [status |-> "active", numbers |-> <<FirstNumber>>] /\ owned = {FirstNumber}
  BY DEF Init
<1>2. FirstNumber \in Numbers
  BY EnrollmentAssumption
<1>3. WholeCopy(cohort, owned) /\ owned \subseteq Numbers
  <2>1. <<>> \in Seq(Numbers) /\ Range(<<>>) = {} /\ IsInjective(<<>>)
    BY DEF Range, IsInjective
  <2>2. <<FirstNumber>> \in Seq(Numbers) /\ Range(<<FirstNumber>>) = {FirstNumber} /\ IsInjective(<<FirstNumber>>)
    BY <1>2 DEF Range, IsInjective
  <2>3. CASE cohort = [status |-> "pending", numbers |-> <<>>] /\ owned = {}
    BY <2>1, <2>3 DEF WholeCopy, Cohorts
  <2>4. CASE cohort = [status |-> "active", numbers |-> <<FirstNumber>>] /\ owned = {FirstNumber}
    BY <2>2, <2>4, <1>2 DEF WholeCopy, Cohorts
  <2>. QED
    BY <1>1, <2>3, <2>4
<1>4. DocumentsWhole
  <2>1. \A S : <<>> \in Seq(S) /\ DOMAIN <<>> = {}
    OBVIOUS
  <2>2. users \in Seq(Documents) /\ execs \in Seq([Schedules -> Nat]) /\ DOMAIN users = {} /\ Len(execs) = Len(users)
    BY <1>1, <2>1
  <2>3. /\ schedules = {} /\ released = {} /\ welcomed = {} /\ requests \in Nat
        /\ aborted \in BOOLEAN /\ overwritten \in BOOLEAN
    BY <1>1
  <2>. QED
    BY <1>3, <2>2, <2>3 DEF DocumentsWhole, Ids
<1>5. RequestsWhole
  <2>. DEFINE R == Requests \cup {Done}
  <2>1. Hourly \in Requests /\ Hourly.kind = "hour" /\ Hourly.kind # "done"
    BY DEF Hourly, Request, Requests, RequestKinds, Makers, States
  <2>2. Whole(Hourly, 0, owned)
    BY DEF Hourly, Request, Whole, Place, HasUser, HasCohort, CreatorStates, MakerStates, Creators, Makers
  <2>3. Hourly \in R
    BY <2>1
  <2>. HIDE DEF R
  <2>4. procs \in Seq(R) /\ DOMAIN procs = {1} /\ procs[1] = Hourly /\ Len(users) = 0
    BY <1>1, <2>3
  <2>. QED
    BY <2>1, <2>2, <2>4 DEF RequestsWhole, AllWhole, R
<1>. QED
  BY <1>4, <1>5 DEF Types

(* Every step keeps the documents and the requests whole.                  *)
LEMMA NextTypes ==
    ASSUME Types, [Next]_vars
    PROVE  Types'
<1>1. ASSUME NEW k \in DOMAIN procs, Create(k)
      PROVE  Types'
  BY <1>1, TextLookupStep, PageLookupStep, NextRowStep, BuyStep, CountStep, InsertStep, SaveUserStep
     DEF Create
<1>2. ASSUME NEW k \in DOMAIN procs, Make(k)
      PROVE  Types'
  BY <1>2, InsertScheduleStep, ListMissingStep, TestExecutionStep, CreateExecutionStep, EndStep DEF Make
<1>3. ASSUME NEW k \in DOMAIN procs, Greet(k)
      PROVE  Types'
  BY <1>3, OnboardStep, WelcomeStep, MarkOnboardedStep DEF Greet
<1>4. ASSUME NEW k \in DOMAIN procs, Administer(k)
      PROVE  Types'
  BY <1>4, LoadCohortStep, ModifyCohortStep, CloseCohortStep, SetCohortStatusStep, AssignNumberStep,
     Raising, ListUsersStep, OnboardListedStep, EndStep, LoadUserStep, DeleteUserStep
     DEF Administer, AssignFails
<1>5. CASE UNCHANGED vars
  BY <1>5 DEF Types, DocumentsWhole, RequestsWhole, AllWhole, vars, documents, ghosts, Ids
<1>. QED
  BY <1>1, <1>2, <1>3, <1>4, <1>5, ArriveStep, HourStep, SMTT(40) DEF Next, Step
-----------------------------------------------------------------------------
(* What a step of process k leaves of the others: all but the user object   *)
(* that an onboarding thread shares with its creator.                       *)
Kept(r, s) ==
    /\ s.kind = r.kind /\ s.at = r.at /\ s.new = r.new /\ s.id = r.id
    /\ s.todo = r.todo /\ s.phone = r.phone /\ s.user.status = r.user.status

Elsewhere(k) ==
    /\ DOMAIN procs \subseteq DOMAIN procs'
    /\ \A j \in DOMAIN procs \ {k} : Kept(procs[j], procs'[j])

(* A step of one process changes nothing of another but that user object.  *)
LEMMA StepElsewhere ==
    ASSUME Types, NEW k \in DOMAIN procs, Step(k)
    PROVE  Elsewhere(k)
<1>1. ASSUME Others(k)
      PROVE  Elsewhere(k)
  BY <1>1 DEF Others, Elsewhere, Kept
<1>2. CASE Raise(k)
  BY <1>1, <1>2, Raising
<1>3. CASE Create(k)
  <2>1. CASE TextLookup(k)
    BY <1>1, <2>1, TextLookupStep
  <2>2. CASE PageLookup(k)
    BY <1>1, <2>2, PageLookupStep, SMTT(40)
  <2>3. CASE NextRow(k)
    BY <1>1, <2>3, NextRowStep
  <2>4. CASE Buy(k)
    BY <1>1, <2>4, BuyStep
  <2>5. CASE Count(k)
    BY <1>1, <2>5, CountStep
  <2>6. CASE Insert(k)
    BY <1>1, <2>6, InsertStep
  <2>7. CASE SaveUser(k)
    BY <1>1, <2>7, SaveUserStep
  <2>. QED
    BY <1>3, <2>1, <2>2, <2>3, <2>4, <2>5, <2>6, <2>7 DEF Create
<1>4. CASE Make(k)
  BY <1>1, <1>4, InsertScheduleStep, ListMissingStep, TestExecutionStep, CreateExecutionStep, EndStep DEF Make
<1>5. CASE Greet(k)
  <2>1. CASE Onboard(k)
    BY <2>1, OnboardStep DEF Forked, Elsewhere, Kept
  <2>2. CASE Welcome(k)
    BY <1>1, <2>2, WelcomeStep
  <2>3. CASE MarkOnboarded(k)
    BY <2>3, MarkOnboardedStep, ZenonT(60) DEF Marked, Elsewhere, Kept
  <2>. QED
    BY <1>5, <2>1, <2>2, <2>3 DEF Greet
<1>6. CASE Administer(k)
  <2>1. CASE OnboardListed(k)
    BY <2>1, OnboardListedStep DEF Forked, Elsewhere, Kept
  <2>2. CASE AssignNumber(k)
    BY <1>1, <2>2, AssignNumberStep DEF NumberAssigned
  <2>3. CASE SetCohortStatus(k)
    BY <1>1, <2>3, SetCohortStatusStep
  <2>4. CASE LoadCohort(k)
    BY <1>1, <2>4, LoadCohortStep
  <2>5. CASE ModifyCohort(k)
    BY <1>1, <2>5, ModifyCohortStep
  <2>6. CASE CloseCohort(k)
    BY <1>1, <2>6, CloseCohortStep
  <2>7. CASE AssignFails(k)
    BY <1>2, <2>7 DEF AssignFails
  <2>8. CASE ListUsers(k)
    BY <1>1, <2>8, ListUsersStep
  <2>9. CASE StatusDone(k)
    BY <1>1, <2>9, EndStep
  <2>10. CASE LoadUser(k)
    BY <1>1, <2>10, LoadUserStep
  <2>11. CASE DeleteUser(k)
    BY <1>1, <2>11, DeleteUserStep, ZenonT(60)
  <2>. QED
    BY <1>6, <2>1, <2>2, <2>3, <2>4, <2>5, <2>6, <2>7, <2>8, <2>9, <2>10, <2>11 DEF Administer
<1>. QED
  BY <1>3, <1>4, <1>5, <1>6 DEF Step

(* A process that takes a step is not done.                                *)
LEMMA StepGoes ==
    ASSUME NEW k \in DOMAIN procs, Types, Step(k)
    PROVE  procs[k] \in Requests /\ procs[k].kind # "done" /\ Whole(procs[k], Len(users), owned)
<1>1. procs[k].at # "done"
  <2>1. Create(k) => procs[k].at # "done"
    BY ZenonT(60) DEF Create, TextLookup, PageLookup, NextRow, Buy, Count, Insert, SaveUser, AllMade
  <2>2. Make(k) => procs[k].at # "done"
    BY DEF Make, InsertSchedule, ListMissing, TestExecution, CreateExecution, MakingDone, AllMade
  <2>3. Greet(k) => procs[k].at # "done"
    BY SMTT(40) DEF Greet, Onboard, Welcome, MarkOnboarded, AllMade
  <2>4. Administer(k) => procs[k].at # "done"
    BY DEF Administer, LoadCohort, ModifyCohort, CloseCohort, SetCohortStatus, AssignNumber, AssignFails,
       ListUsers, OnboardListed, StatusDone, LoadUser, DeleteUser
  <2>. QED
    BY <2>1, <2>2, <2>3, <2>4, SMTT(40) DEF Step
<1>. QED
  BY <1>1, Going

(* What a request keeps when it goes on with the same user.                *)
Same(r, s) ==
    s.kind = r.kind /\ s.phone = r.phone /\ s.new = r.new /\ s.user = r.user /\ s.id = r.id

(* The fields a process has after each action, for the actions it goes on  *)
(* after.                                                                  *)
LEMMA InsertScheduleGoes ==
    ASSUME Types, NEW k \in DOMAIN procs, InsertSchedule(k)
    PROVE  Same(procs[k], procs'[k]) /\ procs'[k].at = "schedules"
<1>. DEFINE r == procs[k]
<1>1. r \in Requests /\ procs'[k] = [r EXCEPT !.at = "schedules"]
  BY InsertScheduleStep
<1>. HIDE DEF r
<1>2. Same(r, procs'[k]) /\ procs'[k].at = "schedules"
  BY <1>1 DEF Requests, Same
<1>. QED
  BY <1>2 DEF r

(* It is to make what ListMissing found.                                   *)
LEMMA ListMissingGoes ==
    ASSUME Types, NEW k \in DOMAIN procs, ListMissing(k)
    PROVE  Same(procs[k], procs'[k]) /\ procs'[k].at = "make" /\ procs'[k].todo = ToMake(procs[k])
<1>. DEFINE r == procs[k]
<1>1. r \in Requests /\ procs'[k] = [r EXCEPT !.at = "make", !.todo = ToMake(r)]
  BY StepGoes, ListMissingStep DEF Step, Make
<1>. HIDE DEF r
<1>2. Same(r, procs'[k]) /\ procs'[k].at = "make" /\ procs'[k].todo = ToMake(r)
  BY <1>1 DEF Requests, Same
<1>. QED
  BY <1>2 DEF r

(* It is to make one execution less.                                       *)
LEMMA CreateExecutionGoes ==
    ASSUME Types, NEW k \in DOMAIN procs, CreateExecution(k)
    PROVE  Same(procs[k], procs'[k]) /\ procs'[k].at = "make" /\ procs'[k].todo = procs[k].todo \ {procs[k].number}
<1>. DEFINE r == procs[k]
<1>1. r \in Requests /\ procs'[k] = [r EXCEPT !.at = "make", !.number = None, !.todo = @ \ {r.number}]
  BY StepGoes, CreateExecutionStep DEF Step, Make
<1>. HIDE DEF r
<1>2. Same(r, procs'[k]) /\ procs'[k].at = "make" /\ procs'[k].todo = r.todo \ {r.number}
  BY <1>1 DEF Requests, Same
<1>. QED
  BY <1>2 DEF r

(* After the count comes the insertion.                                    *)
LEMMA CountGoes ==
    ASSUME Types, NEW k \in DOMAIN procs, Count(k), ~Raise(k)
    PROVE  Same(procs[k], procs'[k]) /\ procs'[k].at = "insert"
<1>. DEFINE r == procs[k]
<1>1. r \in Requests /\ procs'[k] = [r EXCEPT !.at = "insert"]
  BY StepGoes, CountStep DEF Step, Create
<1>. HIDE DEF r
<1>2. Same(r, procs'[k]) /\ procs'[k].at = "insert"
  BY <1>1 DEF Requests, Same
<1>. QED
  BY <1>2 DEF r

(* After the welcome, the mark.                                            *)
LEMMA WelcomeGoes ==
    ASSUME Types, NEW k \in DOMAIN procs, Welcome(k)
    PROVE  Same(procs[k], procs'[k]) /\ procs'[k].at = "mark"
<1>. DEFINE r == procs[k]
<1>1. r \in Requests /\ procs'[k] = [r EXCEPT !.at = "mark"]
  BY WelcomeStep
<1>. HIDE DEF r
<1>2. Same(r, procs'[k]) /\ procs'[k].at = "mark"
  BY <1>1 DEF Requests, Same
<1>. QED
  BY <1>2 DEF r

(* After the mark, the executions.                                         *)
LEMMA MarkOnboardedGoes ==
    ASSUME Types, NEW k \in DOMAIN procs, MarkOnboarded(k)
    PROVE  Same(procs[k], procs'[k]) /\ procs'[k].at = "schedules"
<1>. DEFINE r == procs[k]
<1>1. r \in Requests /\ procs'[k] = [r EXCEPT !.at = "schedules"]
  BY MarkOnboardedStep DEF Marked
<1>. HIDE DEF r
<1>2. Same(r, procs'[k]) /\ procs'[k].at = "schedules"
  BY <1>1 DEF Requests, Same
<1>. QED
  BY <1>2 DEF r

(* After its save a text onboards.                                         *)
LEMMA TextSaved ==
    ASSUME Types, NEW k \in DOMAIN procs, SaveUser(k), procs[k].kind = "text"
    PROVE  Same(procs[k], procs'[k]) /\ procs'[k].at = "onboard"
<1>. DEFINE r == procs[k]
<1>1. r \in Requests /\ procs'[k] = [r EXCEPT !.at = "onboard"]
  BY SaveUserStep
<1>. HIDE DEF r
<1>2. Same(r, procs'[k]) /\ procs'[k].at = "onboard"
  BY <1>1 DEF Requests, Same
<1>. QED
  BY <1>2 DEF r

(* After its save an upload reads the next row.                            *)
LEMMA UploadSaved ==
    ASSUME Types, NEW k \in DOMAIN procs, SaveUser(k), procs[k].kind = "upload"
    PROVE  Same(procs[k], procs'[k]) /\ procs'[k].at = "lookup"
<1>. DEFINE r == procs[k]
<1>1. r \in Requests /\ procs'[k] = [r EXCEPT !.at = "lookup"]
  BY SaveUserStep
<1>. HIDE DEF r
<1>2. Same(r, procs'[k]) /\ procs'[k].at = "lookup"
  BY <1>1 DEF Requests, Same
<1>. QED
  BY <1>2 DEF r

(* A page that loaded the cohort goes to its change.                       *)
LEMMA LoadCohortGoes ==
    ASSUME Types, NEW k \in DOMAIN procs, LoadCohort(k)
    PROVE  Same(procs[k], procs'[k]) /\ procs'[k].at = procs[k].kind
<1>. DEFINE r == procs[k]
<1>1. r \in Requests /\ procs'[k] = [r EXCEPT !.cohort = cohort, !.at = r.kind]
  BY StepGoes, LoadCohortStep DEF Step, Administer
<1>. HIDE DEF r
<1>2. Same(r, procs'[k]) /\ procs'[k].at = r.kind
  BY <1>1 DEF Requests, Same
<1>. QED
  BY <1>2 DEF r

(* After the numbers, the status.                                          *)
LEMMA CloseCohortGoes ==
    ASSUME Types, NEW k \in DOMAIN procs, CloseCohort(k)
    PROVE  Same(procs[k], procs'[k]) /\ procs'[k].at = "status"
<1>. DEFINE r == procs[k]
<1>1. r \in Requests /\ procs'[k] = [r EXCEPT !.at = "status"]
  BY CloseCohortStep
<1>. HIDE DEF r
<1>2. Same(r, procs'[k]) /\ procs'[k].at = "status"
  BY <1>1 DEF Requests, Same
<1>. QED
  BY <1>2 DEF r

(* After the list, the loop.                                               *)
LEMMA ListUsersGoes ==
    ASSUME Types, NEW k \in DOMAIN procs, ListUsers(k)
    PROVE  Same(procs[k], procs'[k]) /\ procs'[k].at = "loop" /\ procs'[k].todo = IF procs[k].new = "active" THEN NotOnboarded ELSE {}
<1>. DEFINE r == procs[k]
<1>1. r \in Requests /\ procs'[k] = [r EXCEPT !.at = "loop", !.cohort = None, !.todo = IF r.new = "active" THEN NotOnboarded ELSE {}]
  BY StepGoes, ListUsersStep DEF Step, Administer
<1>. HIDE DEF r
<1>2. Same(r, procs'[k]) /\ procs'[k].at = "loop" /\ procs'[k].todo = IF r.new = "active" THEN NotOnboarded ELSE {}
  BY <1>1 DEF Requests, Same
<1>. QED
  BY <1>2 DEF r

(* After the purchase, the count.                                          *)
LEMMA BuyGoes ==
    ASSUME Types, NEW k \in DOMAIN procs, Buy(k), ~Raise(k)
    PROVE  Same(procs[k], procs'[k]) /\ procs'[k].at = "count"
<1>. DEFINE r == procs[k]
<1>1. r \in Requests /\ \E n \in Numbers : procs'[k] = [r EXCEPT !.at = "count", !.number = n, !.cohort = None]
  BY BuyStep
<1>. HIDE DEF r
<1>2. Same(r, procs'[k]) /\ procs'[k].at = "count"
  BY <1>1 DEF Requests, Same
<1>. QED
  BY <1>2 DEF r

(* After the test, the creation.                                           *)
LEMMA TestExecutionGoes ==
    ASSUME Types, NEW k \in DOMAIN procs, TestExecution(k), ~Raise(k)
    PROVE  /\ Same(procs[k], procs'[k]) /\ procs'[k].at = "create execution" /\ procs'[k].todo = procs[k].todo
           /\ UNCHANGED <<documents, ghosts>>
<1>. DEFINE r == procs[k]
<1>1. PICK t \in r.todo : /\ UNCHANGED <<documents, ghosts>>
                          /\ procs'[k] = [r EXCEPT !.at = "create execution", !.number = t]
  BY TestExecutionStep
<1>2. r \in Requests
  BY StepGoes DEF Step, Make
<1>. HIDE DEF r
<1>3. Same(r, procs'[k]) /\ procs'[k].at = "create execution" /\ procs'[k].todo = r.todo
  BY <1>1, <1>2 DEF Requests, Same
<1>. QED
  BY <1>1, <1>3, SMTT(40) DEF r

(* After the status, numbers or the list.                                  *)
LEMMA SetCohortStatusGoes ==
    ASSUME Types, NEW k \in DOMAIN procs, SetCohortStatus(k), procs[k].kind = "status"
    PROVE  Same(procs[k], procs'[k]) /\ procs'[k].at \in {"assign", "list"}
<1>. DEFINE r == procs[k]
            first == r.cohort.status = "pending" /\ r.new = "active"
            at == IF first THEN "assign" ELSE "list"
            c == [r.cohort EXCEPT !.status = r.new]
            todo == IF first THEN {u \in Ids : users[u].number = None} ELSE {}
<1>1. r \in Requests /\ procs'[k] = [r EXCEPT !.at = at, !.cohort = c, !.todo = todo]
  BY SetCohortStatusStep
<1>2. at \in {"assign", "list"}
  OBVIOUS
<1>. HIDE DEF r, at, c, todo
<1>3. Same(r, procs'[k]) /\ procs'[k].at \in {"assign", "list"}
  BY <1>1, <1>2 DEF Requests, Same
<1>. QED
  BY <1>3, SMTT(40) DEF r

(* After a number, the next one.                                           *)
LEMMA AssignNumberGoes ==
    ASSUME Types, NEW k \in DOMAIN procs, AssignNumber(k)
    PROVE  Same(procs[k], procs'[k]) /\ procs'[k].at = "assign"
<1>. DEFINE r == procs[k]
<1>1. NumberAssigned(k)
  BY AssignNumberStep
<1>2. PICK todo \in SUBSET r.todo, c \in Cohorts : procs'[k] = [r EXCEPT !.todo = todo, !.cohort = c]
  BY <1>1 DEF NumberAssigned
<1>3. r \in Requests /\ r.at = "assign"
  BY <1>1 DEF NumberAssigned
<1>. HIDE DEF r
<1>4. Same(r, procs'[k]) /\ procs'[k].at = "assign"
  BY <1>2, <1>3 DEF Requests, Same
<1>. QED
  BY <1>4 DEF r

(* After the onboarding, the save, unless a text is done.                  *)
LEMMA OnboardGoes ==
    ASSUME Types, NEW k \in DOMAIN procs, Onboard(k), procs[k].kind # "text"
    PROVE  Same(procs[k], procs'[k]) /\ procs'[k].at = "save"
<1>. DEFINE r == procs[k]
<1>1. r \in Requests /\ procs'[k] = [r EXCEPT !.at = "save"]
  BY OnboardStep DEF Forked
<1>. HIDE DEF r
<1>2. Same(r, procs'[k]) /\ procs'[k].at = "save"
  BY <1>1 DEF Requests, Same
<1>. QED
  BY <1>2 DEF r

(* After a user, the next one; in an active cohort the user has a thread.  *)
LEMMA OnboardListedGoes ==
    ASSUME Types, NEW k \in DOMAIN procs, OnboardListed(k)
    PROVE  /\ Same(procs[k], procs'[k]) /\ procs'[k].at = "loop"
           /\ \E u \in procs[k].todo :
                 /\ u \in Ids /\ procs'[k].todo = procs[k].todo \ {u}
                 /\ cohort.status = "active" => \E j \in DOMAIN procs' : procs'[j] = Thread(u, k)
<1>. DEFINE r == procs[k]
<1>1. PICK u \in r.todo : u \in Ids /\ Forked(k, [r EXCEPT !.todo = @ \ {u}], Thread(u, k), cohort.status = "active")
  BY OnboardListedStep
<1>2. r \in Requests /\ r.at = "loop"
  BY OnboardListedStep
<1>3. /\ procs'[k] = [r EXCEPT !.todo = @ \ {u}]
      /\ cohort.status = "active" => \E j \in DOMAIN procs' : procs'[j] = Thread(u, k)
  BY <1>1 DEF Forked
<1>. HIDE DEF r
<1>4. Same(r, procs'[k]) /\ procs'[k].at = "loop" /\ procs'[k].todo = r.todo \ {u}
  BY <1>2, <1>3 DEF Requests, Same
<1>. QED
  BY <1>1, <1>3, <1>4 DEF r

(* A page that loaded a user has a copy of the document.                   *)
LEMMA LoadUserGoes ==
    ASSUME Types, NEW k \in DOMAIN procs, LoadUser(k), procs'[k] # Done
    PROVE  /\ procs[k].kind \in {"rephone", "delete"} /\ procs'[k].kind = procs[k].kind
           /\ procs'[k].id = procs[k].id /\ procs'[k].user = users[procs[k].id]
           /\ procs'[k].at \in {"delete", "save"} /\ procs[k].id \in Ids
<1>. DEFINE r == procs[k]
            at == IF r.kind = "delete" THEN "delete" ELSE "save"
<1>1. r \in Requests /\ Whole(r, Len(users), owned) /\ r.kind \in {"rephone", "delete"}
  BY StepGoes DEF Step, Administer, LoadUser
<1>2. procs'[k] = [r EXCEPT !.user = users[r.id], !.at = at]
  BY LoadUserStep
<1>3. r.id \in Ids
  <2>1. r.id \in 1..Len(users)
    BY <1>1 DEF Whole
  <2>. QED
    BY <2>1 DEF Types, DocumentsWhole, Ids
<1>. HIDE DEF r
<1>4. procs'[k].kind = r.kind /\ procs'[k].id = r.id /\ procs'[k].user = users[r.id] /\ procs'[k].at = at
  BY <1>1, <1>2 DEF Requests
<1>. QED
  BY <1>1, <1>3, <1>4, SMTT(40) DEF r

(* The creator of a user has its id.                                       *)
LEMMA InsertGoes ==
    ASSUME Types, NEW k \in DOMAIN procs, Insert(k)
    PROVE  /\ procs'[k].kind = procs[k].kind /\ procs'[k].at = "schedules" /\ procs'[k].id = Len(users) + 1
           /\ procs[k].kind \in Creators
<1>. DEFINE r == procs[k]
            n == Len(users) + 1
<1>1. r \in Requests /\ r.kind \in Creators /\ procs'[k] = [r EXCEPT !.at = "schedules", !.user = procs'[k].user, !.id = n]
  BY InsertStep
<1>. HIDE DEF r, n
<1>2. procs'[k].kind = r.kind /\ procs'[k].at = "schedules" /\ procs'[k].id = n
  BY <1>1 DEF Requests
<1>. QED
  BY <1>1, <1>2, SMTT(40) DEF r, n

(* Duplicates.                                                             *)
ByText(doc) == doc.status # "deleted" /\ doc.by = "text"

OneUserByText ==
    \A u, v \in Ids : ByText(users[u]) /\ ByText(users[v]) /\ users[u].phone = users[v].phone => u = v

TextsTakeTurns ==
    \A j, k \in DOMAIN procs :
        procs[j].kind = "text" /\ procs[k].kind = "text" /\ procs[j].phone = procs[k].phone => j = k

(* Of the phone a text is from, the only user by a text is its own.        *)
TextFound ==
    \A k \in DOMAIN procs : procs[k].kind = "text" =>
        /\ procs[k].at \in {"buy", "count", "insert"} =>
               \A u \in Ids : ByText(users[u]) => users[u].phone # procs[k].phone
        /\ HasUser(procs[k]) =>
               /\ procs[k].user.by = "text" /\ procs[k].user.phone = procs[k].phone
               /\ \A u \in Ids : ByText(users[u]) /\ users[u].phone = procs[k].phone => u = procs[k].id

PagesMakePageUsers ==
    \A k \in DOMAIN procs : procs[k].kind = "page" /\ HasUser(procs[k]) => procs[k].user.by = "page"

Turns == OneUserByText /\ TextsTakeTurns /\ TextFound /\ PagesMakePageUsers

(* Numbers.                                                                *)
NumbersListed == ~overwritten => owned \subseteq Range(cohort.numbers)

(* Schedules.                                                              *)
WillMake(r, u, s) ==
    \/ /\ r.kind \in Creators /\ r.id = u
       /\ r.at = "schedules" \/ (r.at \in {"make", "create execution"} /\ <<u, s>> \in r.todo)
    \/ /\ r.kind = "schedule" /\ r.new = s
       /\ r.at = "schedules" \/ (r.at \in {"make", "create execution"} /\ <<u, s>> \in r.todo)

SchedulesComing ==
    ~aborted /\ ~overwritten =>
        \A u \in LiveIds, s \in schedules :
            execs[u][s] > 0 \/ \E k \in DOMAIN procs : WillMake(procs[k], u, s)

(* Welcomes.                                                               *)
WillWelcome(r, u) ==
    \/ /\ r.kind \in Creators /\ r.id = u /\ r.user.status = "active"
       /\ r.at \in MakerStates \cup {"onboard"}
    \/ r.kind = "thread" /\ r.id = u /\ r.at = "welcome"
    \/ r.kind = "status" /\ r.new = "active" /\ (r.at \in {"assign", "list"} \/ (r.at = "loop" /\ u \in r.todo))

WelcomesComing ==
    ~aborted /\ ~overwritten /\ cohort.status = "active" =>
        \A u \in Ids : users[u].status = "active" =>
            u \in welcomed \/ \E k \in DOMAIN procs : WillWelcome(procs[k], u)

(* Who is onboarded, in a document or in a copy, was welcomed before.       *)
WelcomedFirst(r, w) ==
    /\ HasUser(r) /\ r.user.onboarded => r.id \in w
    /\ r.kind = "thread" /\ r.at # "welcome" => r.id \in w

OnboardedWelcomed ==
    /\ \A u \in Ids : users[u].onboarded => u \in welcomed
    /\ \A k \in DOMAIN procs : WelcomedFirst(procs[k], welcomed)

(* Hourly.                                                                 *)
AloneMakes ==
    procs[1].new = "alone" =>
        /\ \A k \in DOMAIN procs : k # 1 => procs[k].kind = "done"
        /\ procs[1].at \in {"make", "create execution"} =>
              \A s \in schedules : execs[procs[1].id][s] > 0 \/ <<procs[1].id, s>> \in procs[1].todo
-----------------------------------------------------------------------------
(* A purchase that is saved with the copy it was bought for keeps the      *)
(* numbers listed.                                                         *)
LEMMA SavedListed ==
    ASSUME NumbersListed, NEW c, NEW n, SaveCohort(cohort', c), owned' = owned \cup {n},
           Range(cohort'.numbers) = Range(c.numbers) \cup {n}
    PROVE  NumbersListed'
BY DEF NumbersListed, SaveCohort

(* NumbersListed is inductive: a purchase is lost only by a save that      *)
(* overwrites.                                                             *)
LEMMA NumbersStep ==
    ASSUME Types, NumbersListed, [Next]_vars
    PROVE  NumbersListed'
<1>1. CASE UNCHANGED <<cohort, owned>> /\ (overwritten => overwritten')
  BY <1>1 DEF NumbersListed
<1>2. CASE UNCHANGED vars
  BY <1>2 DEF NumbersListed, vars, documents, ghosts
<1>3. CASE Arrive
  BY <1>1, <1>3, ArriveStep DEF Begun, documents
<1>4. ASSUME NEW u \in Ids, Hour(u)
      PROVE  NumbersListed'
  BY <1>1, <1>4, HourStep DEF documents, ghosts
<1>5. ASSUME NEW k \in DOMAIN procs, Raise(k)
      PROVE  NumbersListed'
  BY <1>1, <1>5 DEF Raise, documents
<1>6. ASSUME NEW k \in DOMAIN procs, Create(k)
      PROVE  NumbersListed'
  <2>1. CASE TextLookup(k)
    BY <1>1, <1>5, <2>1, TextLookupStep DEF documents, ghosts
  <2>2. CASE PageLookup(k)
    BY <1>1, <2>2, PageLookupStep, SMTT(40) DEF documents, ghosts
  <2>3. CASE NextRow(k)
    BY <1>1, <1>5, <2>3, NextRowStep DEF documents, ghosts
  <2>4. CASE Buy(k)
    BY <1>5, <2>4, BuyStep, SavedListed
  <2>5. CASE Count(k)
    BY <1>1, <1>5, <2>5, CountStep DEF documents, ghosts
  <2>6. CASE Insert(k)
    BY <1>1, <2>6, InsertStep DEF ghosts
  <2>7. CASE SaveUser(k)
    BY <1>1, <2>7, SaveUserStep
  <2>. QED
    BY <1>6, <2>1, <2>2, <2>3, <2>4, <2>5, <2>6, <2>7 DEF Create
<1>7. ASSUME NEW k \in DOMAIN procs, Make(k)
      PROVE  NumbersListed'
  <2>1. CASE InsertSchedule(k)
    BY <1>1, <2>1, InsertScheduleStep DEF ghosts
  <2>2. CASE ListMissing(k)
    BY <1>1, <2>2, ListMissingStep DEF documents, ghosts
  <2>3. CASE TestExecution(k)
    BY <1>1, <1>5, <2>3, TestExecutionStep DEF documents, ghosts
  <2>4. CASE CreateExecution(k)
    BY <1>1, <2>4, CreateExecutionStep DEF ghosts
  <2>5. CASE MakingDone(k)
    BY <1>1, <2>5, EndStep DEF documents, ghosts
  <2>. QED
    BY <1>7, <2>1, <2>2, <2>3, <2>4, <2>5 DEF Make
<1>8. ASSUME NEW k \in DOMAIN procs, Greet(k)
      PROVE  NumbersListed'
  <2>1. CASE Onboard(k)
    BY <1>1, <2>1, OnboardStep DEF documents, ghosts
  <2>2. CASE Welcome(k)
    BY <1>1, <2>2, WelcomeStep DEF documents
  <2>3. CASE MarkOnboarded(k)
    BY <1>1, <2>3, MarkOnboardedStep DEF ghosts
  <2>. QED
    BY <1>8, <2>1, <2>2, <2>3 DEF Greet
<1>9. ASSUME NEW k \in DOMAIN procs, Administer(k)
      PROVE  NumbersListed'
  <2>1. CASE LoadCohort(k)
    BY <1>1, <2>1, LoadCohortStep DEF documents, ghosts
  <2>2. CASE ModifyCohort(k)
    BY <2>2, ModifyCohortStep DEF NumbersListed, SaveCohort
  <2>3. CASE CloseCohort(k)
    BY <1>1, <2>3, CloseCohortStep
  <2>4. CASE SetCohortStatus(k)
    BY <2>4, SetCohortStatusStep DEF NumbersListed, SaveCohort
  <2>5. CASE AssignNumber(k)
    BY <1>1, <2>5, AssignNumberStep, SavedListed DEF NumberAssigned
  <2>6. CASE AssignFails(k)
    BY <1>5, <2>6 DEF AssignFails
  <2>7. CASE ListUsers(k)
    BY <1>1, <2>7, ListUsersStep DEF documents, ghosts
  <2>8. CASE OnboardListed(k)
    BY <1>1, <2>8, OnboardListedStep DEF documents, ghosts
  <2>9. CASE StatusDone(k)
    BY <1>1, <2>9, EndStep DEF documents, ghosts
  <2>10. CASE LoadUser(k)
    BY <1>1, <2>10, LoadUserStep DEF documents, ghosts
  <2>11. CASE DeleteUser(k)
    BY <1>1, <2>11, DeleteUserStep
  <2>. QED
    BY <1>9, <2>1, <2>2, <2>3, <2>4, <2>5, <2>6, <2>7, <2>8, <2>9, <2>10, <2>11 DEF Administer
<1>. QED
  BY <1>2, <1>3, <1>4, <1>6, <1>7, <1>8, <1>9 DEF Next, Step

(* TypesInvariant: whatever requests meet, in whatever order their         *)
(* database calls come, the documents of cohort, users, schedules and      *)
(* executions are whole, and so is every copy a request has loaded of one. *)
THEOREM TypesInvariant == Spec => []Types
<1>1. Init => Types
  BY InitTypes
<1>2. Types /\ [Next]_vars => Types'
  BY NextTypes
<1>. QED
  BY <1>1, <1>2, PTL DEF Spec

(* NumbersStayKnown: the property NumbersKnown.  The cohort's document has *)
(* every number it bought (Cohort.get_ic_number), and with it the number   *)
(* of every user, unless a save of an old copy overwrote another's change. *)
THEOREM NumbersStayKnown == Spec => []NumbersKnown
<1>1. Init => Types /\ NumbersListed
  <2>1. ASSUME Init
        PROVE  NumbersListed
    <3>1. \/ cohort = [status |-> "pending", numbers |-> <<>>] /\ owned = {}
          \/ cohort = [status |-> "active", numbers |-> <<FirstNumber>>] /\ owned = {FirstNumber}
      BY <2>1 DEF Init
    <3>2. Range(<<FirstNumber>>) = {FirstNumber}
      BY DEF Range
    <3>. QED
      BY <3>1, <3>2 DEF NumbersListed
  <2>. QED
    BY <2>1, InitTypes
<1>2. Types /\ NumbersListed /\ [Next]_vars => Types' /\ NumbersListed'
  BY NextTypes, NumbersStep
<1>3. Types /\ NumbersListed => NumbersKnown
  <2>. SUFFICES ASSUME Types, NumbersListed
                PROVE  NumbersKnown
    OBVIOUS
  <2>1. TypeOK
    <3>1. ASSUME NEW k \in DOMAIN procs, procs[k].kind # "done"
          PROVE  /\ procs[k].user \in Documents \cup {None}
                 /\ procs[k].todo \subseteq IF procs[k].kind = "status" THEN Ids ELSE Ids \X Schedules
      <4>1. procs[k] \in Requests /\ Whole(procs[k], Len(users), owned)
        <5>. DEFINE R == Requests \cup {Done}
        <5>1. procs \in Seq(R)
          BY DEF Types, RequestsWhole, AllWhole
        <5>. HIDE DEF R
        <5>2. procs[k] \in R
          BY <5>1
        <5>. QED
          BY <5>2, <3>1, NotDone DEF R, Types, RequestsWhole, AllWhole
      <4>2. procs[k].user \in Documents \cup {None}
        BY <4>1 DEF Requests
      <4>3. procs[k].todo \subseteq IF procs[k].kind = "status" THEN 1..Len(users) ELSE (1..Len(users)) \X Schedules
        BY <4>1 DEF Whole
      <4>4. Ids = 1..Len(users)
        BY DEF Types, DocumentsWhole, Ids
      <4>. QED
        BY <4>2, <4>3, <4>4
    <3>2. /\ cohort.status \in {"pending", "active", "paused", "completed"}
          /\ cohort.numbers \in Seq(Numbers) /\ IsInjective(cohort.numbers)
          /\ users \in Seq(Documents) /\ Len(execs) = Len(users)
          /\ released \subseteq owned /\ owned \subseteq Numbers
      BY DEF Types, DocumentsWhole, WholeCopy, Cohorts
    <3>. QED
      BY <3>1, <3>2 DEF TypeOK
  <2>2. ~overwritten => owned = Range(cohort.numbers)
    BY DEF NumbersListed, Types, DocumentsWhole, WholeCopy
  <2>3. ~overwritten => \A u \in Ids : users[u].number \in Range(cohort.numbers) \cup {None}
    BY <2>2 DEF Types, DocumentsWhole
  <2>. QED
    BY <2>1, <2>2, <2>3 DEF NumbersKnown
<1>. QED
  BY <1>1, <1>2, <1>3, PTL DEF Spec
-----------------------------------------------------------------------------
Finding == {"buy", "count", "insert"}

(* No user becomes one by a text, or gets another phone and stays one.     *)
TextUsersKept ==
    /\ Ids' = Ids
    /\ \A u \in Ids : ByText(users'[u]) => ByText(users[u]) /\ users'[u].phone = users[u].phone

(* A request that was r has, as s, not more to answer for than it had.     *)
KeepsTurn(r, s) ==
    /\ s.kind = "text" =>
          /\ r.kind = "text" /\ s.phone = r.phone
          /\ s.at \in Finding => r.at \in Finding \/ WithPhone(r.phone) = {}
          /\ HasUser(s) => /\ HasUser(r) /\ s.id = r.id
                           /\ s.user.by = r.user.by /\ s.user.phone = r.user.phone
    /\ s.kind = "page" => r.kind = "page" /\ (HasUser(s) => HasUser(r) /\ s.user.by = r.user.by)

(* Turns is kept by a step that makes no user by a text, and gives no      *)
(* process more to answer for than it had.                                 *)
LEMMA TurnsKept ==
    ASSUME Turns, TextUsersKept,
           \A j \in DOMAIN procs' :
               \/ procs'[j].kind \notin {"text", "page"}
               \/ j \in DOMAIN procs /\ KeepsTurn(procs[j], procs'[j])
    PROVE  Turns'
<1>1. OneUserByText'
  BY DEF Turns, OneUserByText, TextUsersKept
<1>2. TextsTakeTurns'
  BY DEF Turns, TextsTakeTurns, KeepsTurn
<1>3. PagesMakePageUsers'
  BY DEF Turns, PagesMakePageUsers, KeepsTurn
<1>4. ASSUME NEW j \in DOMAIN procs', procs'[j].kind = "text"
      PROVE  /\ procs'[j].at \in Finding =>
                   \A u \in Ids' : ByText(users'[u]) => users'[u].phone # procs'[j].phone
             /\ HasUser(procs'[j]) =>
                   /\ procs'[j].user.by = "text" /\ procs'[j].user.phone = procs'[j].phone
                   /\ \A u \in Ids' : ByText(users'[u]) /\ users'[u].phone = procs'[j].phone => u = procs'[j].id
  <2>1. j \in DOMAIN procs /\ KeepsTurn(procs[j], procs'[j])
    BY <1>4
  <2>2. procs[j].kind = "text" /\ procs'[j].phone = procs[j].phone
    BY <2>1, <1>4 DEF KeepsTurn
  <2>3. ASSUME procs'[j].at \in Finding, NEW u \in Ids, ByText(users[u])
        PROVE  users[u].phone # procs[j].phone
    <3>1. CASE procs[j].at \in Finding
      BY <2>1, <2>2, <2>3, <3>1 DEF Turns, TextFound, Finding
    <3>2. CASE WithPhone(procs[j].phone) = {}
      BY <2>3, <3>2 DEF WithPhone, LiveIds, ByText
    <3>. QED
      BY <2>1, <1>4, <2>3, <3>1, <3>2 DEF KeepsTurn
  <2>4. ASSUME HasUser(procs'[j])
        PROVE  /\ procs'[j].user.by = "text" /\ procs'[j].user.phone = procs'[j].phone
               /\ \A u \in Ids : ByText(users[u]) /\ users[u].phone = procs[j].phone => u = procs'[j].id
    BY <2>1, <2>2, <2>4, <1>4 DEF KeepsTurn, Turns, TextFound
  <2>. QED
    BY <2>2, <2>3, <2>4 DEF TextUsersKept
<1>5. TextFound'
  BY <1>4 DEF TextFound, Finding, HasUser
<1>. QED
  BY <1>1, <1>2, <1>3, <1>5 DEF Turns

(* The same, when only process k goes on.                                  *)
LEMMA TurnsMove ==
    ASSUME Turns, TextUsersKept, NEW k \in DOMAIN procs, Others(k),
           procs'[k].kind \notin {"text", "page"} \/ KeepsTurn(procs[k], procs'[k])
    PROVE  Turns'
<1>1. \A j \in DOMAIN procs \ {k} : KeepsTurn(procs[j], procs'[j])
  BY DEF Others, KeepsTurn
<1>. QED
  BY <1>1, TurnsKept DEF Others

(* A step that changes no user makes none by a text.                       *)
LEMMA UsersStay ==
    ASSUME users' = users
    PROVE  TextUsersKept
BY DEF TextUsersKept, Ids, ByText

(* What User.create leaves of a request, for the provers one field at a    *)
(* time.                                                                   *)
LEMMA CreatingFields ==
    ASSUME NEW r \in Requests
    PROVE  /\ Creating(r).kind = r.kind /\ Creating(r).phone = r.phone /\ Creating(r).user = r.user
           /\ Creating(r).id = r.id /\ Creating(r).new = r.new
           /\ Creating(r).at \in {"buy", "count"}
           /\ ~HasUser(Creating(r))
           /\ Creating(r).todo = r.todo
BY DEF Creating, Requests, HasUser, MakerStates

(* A text that inserts its user found none by a text before, and held the  *)
(* lock since.                                                             *)
LEMMA TurnsInsert ==
    ASSUME Types, Turns, NEW k \in DOMAIN procs, Insert(k)
    PROVE  Turns'
<1>. DEFINE r == procs[k]
            s == procs'[k]
            n == Len(users) + 1
<1>1. /\ Others(k) /\ r.at = "insert" /\ r \in Requests /\ r.kind \in Creators
      /\ Ids' = Ids \cup {n} /\ n \notin Ids
      /\ \A u \in Ids : users'[u] = users[u]
      /\ users'[n] = s.user /\ s.user.phone = r.phone /\ s.user.by = r.kind
      /\ s = [r EXCEPT !.at = "schedules", !.user = s.user, !.id = n]
  BY InsertStep
<1>2. s.kind = r.kind /\ s.phone = r.phone /\ s.at = "schedules" /\ s.id = n
  <2>. HIDE DEF r
  <2>. QED
    BY <1>1 DEF Requests
<1>3. /\ \A u \in Ids : ByText(users'[u]) <=> ByText(users[u])
      /\ ByText(users'[n]) => r.kind = "text"
  BY <1>1 DEF ByText
<1>4. r.kind = "text" => \A u \in Ids : ByText(users[u]) => users[u].phone # r.phone
  BY <1>1 DEF Turns, TextFound
<1>5. \A j \in DOMAIN procs \ {k} : procs'[j] = procs[j]
  BY <1>1 DEF Others
<1>6. OneUserByText'
  BY <1>1, <1>3, <1>4 DEF Turns, OneUserByText
<1>7. TextsTakeTurns'
  <2>1. \A j \in DOMAIN procs : procs'[j].kind = procs[j].kind /\ procs'[j].phone = procs[j].phone
    BY <1>2, <1>5
  <2>. QED
    BY <1>1, <2>1 DEF Turns, TextsTakeTurns, Others
<1>8. PagesMakePageUsers'
  BY <1>1, <1>2, <1>5 DEF Turns, PagesMakePageUsers, Others
<1>9. TextFound'
  <2>1. ASSUME NEW j \in DOMAIN procs', procs'[j].kind = "text"
        PROVE  /\ procs'[j].at \in {"buy", "count", "insert"} =>
                     \A u \in Ids' : ByText(users'[u]) => users'[u].phone # procs'[j].phone
               /\ HasUser(procs'[j]) =>
                     /\ procs'[j].user.by = "text" /\ procs'[j].user.phone = procs'[j].phone
                     /\ \A u \in Ids' : ByText(users'[u]) /\ users'[u].phone = procs'[j].phone => u = procs'[j].id
    <3>1. CASE j = k
      BY <3>1, <2>1, <1>1, <1>2, <1>3, <1>4
    <3>2. CASE j # k
      <4>1. j \in DOMAIN procs /\ procs'[j] = procs[j]
        BY <3>2, <1>1, <1>5 DEF Others
      <4>2. r.kind = "text" => procs[j].phone # r.phone
        BY <2>1, <3>2, <4>1 DEF Turns, TextsTakeTurns
      <4>. QED
        BY <2>1, <4>1, <4>2, <1>1, <1>3 DEF Turns, TextFound
    <3>. QED
      BY <3>1, <3>2
  <2>. QED
    BY <2>1 DEF TextFound, HasUser
<1>. QED
  BY <1>6, <1>7, <1>8, <1>9, SMTT(40) DEF Turns

(* A save of another kind makes no user by a text; that of a text saves    *)
(* its own.                                                                *)
LEMMA TurnsSave ==
    ASSUME Types, Turns, NEW k \in DOMAIN procs, SaveUser(k)
    PROVE  Turns'
<1>. DEFINE r == procs[k]
            s == procs'[k]
<1>1. /\ Others(k) /\ HasUser(r) /\ r \in Requests
      /\ r.kind \in {"text", "page", "upload", "rephone"}
      /\ r.id \in Ids /\ Ids' = Ids
      /\ users'[r.id] = Saved(r)
      /\ \A v \in Ids \ {r.id} : users'[v] = users[v]
      /\ CASE r.kind = "text" -> s = [r EXCEPT !.at = "onboard"]
           [] r.kind = "upload" -> s = [r EXCEPT !.at = "lookup"]
           [] OTHER -> s = Ended(k)
  BY SaveUserStep
<1>2. r.user \in Documents
  <2>1. Whole(r, Len(users), owned)
    BY SaveUserStep
  <2>. QED
    BY <1>1, <2>1 DEF Whole, WholeUser
<1>3. CASE r.kind # "text"
  <2>1. TextUsersKept
    <3>1. ByText(users'[r.id]) => ByText(users[r.id]) /\ users'[r.id].phone = users[r.id].phone
      <4>1. CASE r.kind = "page"
        <5>1. Saved(r) = r.user /\ r.user.by = "page"
          BY <1>1, <4>1 DEF Saved, Turns, PagesMakePageUsers
        <5>. QED
          BY <1>1, <5>1 DEF ByText
      <4>2. CASE r.kind = "upload" /\ r.user # users[r.id]
        <5>1. Saved(r) = [r.user EXCEPT !.by = "upload"]
          BY <4>2 DEF Saved
        <5>2. Saved(r).by = "upload"
          BY <5>1, <1>2 DEF Documents
        <5>. QED
          BY <1>1, <5>2 DEF ByText
      <4>3. CASE r.kind = "upload" /\ r.user = users[r.id]
        <5>1. Saved(r) = users[r.id]
          BY <4>3 DEF Saved
        <5>. QED
          BY <1>1, <5>1 DEF ByText
      <4>4. CASE r.kind = "rephone"
        <5>1. Saved(r) = [r.user EXCEPT !.phone = r.new, !.by = "page"]
          BY <4>4 DEF Saved
        <5>2. Saved(r).by = "page"
          BY <5>1, <1>2 DEF Documents
        <5>. QED
          BY <1>1, <5>2 DEF ByText
      <4>. QED
        BY <1>1, <1>3, <4>1, <4>2, <4>3, <4>4
    <3>. QED
      BY <1>1, <3>1 DEF TextUsersKept, ByText
  <2>2. s.kind \notin {"text", "page"}
    <3>1. Ended(k).kind \in {"hour", "done"}
      BY DEF Ended, Hourly, Request, Done
    <3>2. CASE r.kind = "upload"
      <4>1. s = [r EXCEPT !.at = "lookup"]
        BY <1>1, <3>2
      <4>. HIDE DEF s
      <4>. QED
        BY <4>1, <3>2, <1>1 DEF Requests
    <3>3. CASE r.kind # "upload"
      BY <1>1, <1>3, <3>1, <3>3
    <3>. QED
      BY <3>2, <3>3
  <2>. QED
    BY <1>1, <2>1, <2>2, TurnsMove
<1>4. CASE r.kind = "text"
  <2>1. /\ Saved(r) = r.user /\ r.user.by = "text" /\ r.user.phone = r.phone
        /\ \A u \in Ids : ByText(users[u]) /\ users[u].phone = r.phone => u = r.id
    BY <1>1, <1>4 DEF Saved, Turns, TextFound
  <2>2. s.kind = r.kind /\ s.phone = r.phone /\ s.at = "onboard" /\ s.id = r.id /\ s.user = r.user
    <3>1. s = [r EXCEPT !.at = "onboard"]
      BY <1>1, <1>4
    <3>. HIDE DEF s, r
    <3>. QED
      BY <3>1, <1>1 DEF Requests
  <2>3. \A u \in Ids \ {r.id} : (ByText(users'[u]) <=> ByText(users[u])) /\ users'[u].phone = users[u].phone
    BY <1>1 DEF ByText
  <2>4. users'[r.id].phone = r.phone
    BY <1>1, <2>1
  <2>5. \A j \in DOMAIN procs \ {k} : procs'[j] = procs[j]
    BY <1>1 DEF Others
  <2>6. OneUserByText'
    BY <1>1, <2>1, <2>3, <2>4 DEF Turns, OneUserByText
  <2>7. TextsTakeTurns'
    <3>1. \A j \in DOMAIN procs : procs'[j].kind = procs[j].kind /\ procs'[j].phone = procs[j].phone
      BY <2>2, <2>5
    <3>. QED
      BY <1>1, <3>1 DEF Turns, TextsTakeTurns, Others
  <2>8. PagesMakePageUsers'
    BY <1>1, <1>4, <2>2, <2>5 DEF Turns, PagesMakePageUsers, Others
  <2>9. ASSUME NEW j \in DOMAIN procs', procs'[j].kind = "text"
        PROVE  /\ procs'[j].at \in {"buy", "count", "insert"} =>
                     \A u \in Ids' : ByText(users'[u]) => users'[u].phone # procs'[j].phone
               /\ HasUser(procs'[j]) =>
                     /\ procs'[j].user.by = "text" /\ procs'[j].user.phone = procs'[j].phone
                     /\ \A u \in Ids' : ByText(users'[u]) /\ users'[u].phone = procs'[j].phone => u = procs'[j].id
    <3>1. CASE j = k
      BY <3>1, <1>1, <2>1, <2>2, <2>3
    <3>2. CASE j # k
      <4>1. j \in DOMAIN procs /\ procs'[j] = procs[j]
        BY <3>2, <1>1, <2>5 DEF Others
      <4>2. procs[j].phone # r.phone
        BY <2>9, <3>2, <4>1, <1>4 DEF Turns, TextsTakeTurns
      <4>. QED
        BY <2>9, <4>1, <4>2, <1>1, <2>3, <2>4 DEF Turns, TextFound
    <3>. QED
      BY <3>1, <3>2
  <2>10. TextFound'
    BY <2>9 DEF TextFound, HasUser
  <2>. QED
    BY <2>6, <2>7, <2>8, <2>10 DEF Turns
<1>. QED
  BY <1>3, <1>4

(* A process that ended is no text and no page.                            *)
LEMMA EndedKind ==
    ASSUME NEW k
    PROVE  Ended(k).kind \in {"hour", "done"} /\ Done.kind = "done"
BY DEF Ended, Hourly, Request, Done

(* Turns is inductive.                                                     *)
LEMMA TurnsStep ==
    ASSUME Types, Turns, [Next]_vars
    PROVE  Turns'
<1>1. ASSUME NEW k \in DOMAIN procs, Others(k), users' = users,
             procs'[k] \in {Done, Ended(k)}
      PROVE  Turns'
  BY <1>1, EndedKind, UsersStay, TurnsMove
<1>2. ASSUME NEW k \in DOMAIN procs, Raise(k)
      PROVE  Turns'
  BY <1>1, <1>2, Raising DEF Raise, documents
<1>11. ASSUME NEW k \in DOMAIN procs, NEW s, NEW t, NEW P, users' = users, Forked(k, s, t, P),
              t.kind = "thread", KeepsTurn(procs[k], s)
       PROVE  Turns'
  <2>1. ASSUME NEW j \in DOMAIN procs'
        PROVE  \/ procs'[j].kind \notin {"text", "page"}
               \/ j \in DOMAIN procs /\ KeepsTurn(procs[j], procs'[j])
    <3>1. CASE j = k
      BY <1>11, <3>1 DEF Forked
    <3>2. CASE j # k /\ j \in DOMAIN procs
      BY <1>11, <3>2 DEF Forked, KeepsTurn
    <3>3. CASE j \notin DOMAIN procs
      BY <1>11, <3>3 DEF Forked
    <3>. QED
      BY <3>1, <3>2, <3>3
  <2>. QED
    BY <1>11, <2>1, UsersStay, TurnsKept
<1>3. CASE UNCHANGED vars
  <2>1. \A j \in DOMAIN procs : KeepsTurn(procs[j], procs[j])
    BY DEF KeepsTurn
  <2>. QED
    BY <1>3, <2>1, UsersStay, TurnsKept DEF vars, documents
<1>4. CASE Arrive
  <2>1. PICK t : Begun(t)
    BY <1>4, ArriveStep
  <2>2. /\ users' = users /\ DOMAIN procs \subseteq DOMAIN procs'
        /\ procs'[1] = [procs[1] EXCEPT !.new = None]
        /\ \A j \in DOMAIN procs \ {1} : procs'[j] = procs[j]
        /\ \A j \in DOMAIN procs' \ DOMAIN procs : procs'[j] = t
        /\ \A i, j \in DOMAIN procs' \ DOMAIN procs : i = j
        /\ procs[1] \in Requests /\ procs[1].kind = "hour"
    BY <2>1 DEF Begun, Forked, documents
  <2>3. /\ ~HasUser(t) /\ t.at \notin Finding
        /\ t.kind = "text" => ~Locked(t.phone)
    BY <2>1 DEF Begun, Finding
  <2>4. procs'[1].kind = "hour"
    BY <2>2 DEF Requests
  <2>5. OneUserByText'
    BY <2>2 DEF Turns, OneUserByText, Ids
  <2>6. PagesMakePageUsers'
    BY <2>2, <2>3, <2>4 DEF Turns, PagesMakePageUsers
  <2>7. TextFound'
    <3>1. ASSUME NEW j \in DOMAIN procs', procs'[j].kind = "text"
          PROVE  \/ j \in DOMAIN procs /\ procs'[j] = procs[j]
                 \/ procs'[j] = t
      BY <3>1, <2>2, <2>4
    <3>2. users' = users /\ Ids' = Ids
      BY <2>2 DEF Ids
    <3>. QED
      BY <3>1, <3>2, <2>3 DEF Turns, TextFound, Finding
  <2>8. TextsTakeTurns'
    <3>1. ASSUME NEW i \in DOMAIN procs', NEW j \in DOMAIN procs', i # j,
                 procs'[i].kind = "text", procs'[j].kind = "text", procs'[i].phone = procs'[j].phone
          PROVE  FALSE
      <4>1. \A m \in DOMAIN procs : m # 1 => procs'[m] = procs[m]
        BY <2>2
      <4>2. i # 1 /\ j # 1
        BY <2>4, <3>1
      <4>3. CASE i \in DOMAIN procs /\ j \in DOMAIN procs
        BY <4>1, <4>2, <4>3, <3>1 DEF Turns, TextsTakeTurns
      <4>4. CASE i \in DOMAIN procs /\ j \notin DOMAIN procs
        BY <4>1, <4>2, <4>4, <3>1, <2>2, <2>3 DEF Locked
      <4>5. CASE i \notin DOMAIN procs /\ j \in DOMAIN procs
        BY <4>1, <4>2, <4>5, <3>1, <2>2, <2>3 DEF Locked
      <4>6. CASE i \notin DOMAIN procs /\ j \notin DOMAIN procs
        BY <2>2, <4>6, <3>1
      <4>. QED
        BY <4>3, <4>4, <4>5, <4>6
    <3>. QED
      BY <3>1 DEF TextsTakeTurns
  <2>. QED
    BY <2>5, <2>6, <2>7, <2>8 DEF Turns
<1>5. ASSUME NEW u \in Ids, Hour(u)
      PROVE  Turns'
  <2>1. Others(1) /\ users' = users /\ procs'[1].kind = "hour" /\ 1 \in DOMAIN procs
    BY <1>5, HourStep DEF documents, Types, RequestsWhole, AllWhole
  <2>. QED
    BY <2>1, UsersStay, TurnsMove
<1>6. ASSUME NEW k \in DOMAIN procs, Create(k)
      PROVE  Turns'
  <2>. DEFINE r == procs[k]
  <2>1. CASE TextLookup(k)
    <3>1. CASE Raise(k) \/ procs'[k] = Done
      BY <1>1, <1>2, <2>1, <3>1, TextLookupStep DEF Raise, documents
    <3>2. CASE users' = users /\ WithPhone(r.phone) = {} /\ procs'[k] = Creating(r)
      <4>1. r \in Requests
        BY <2>1, Going DEF TextLookup
      <4>2. KeepsTurn(r, procs'[k])
        BY <4>1, <3>2, <2>1, TextLookupStep, CreatingFields DEF KeepsTurn
      <4>. QED
        BY <2>1, <3>2, <4>2, TextLookupStep, UsersStay, TurnsMove
    <3>. QED
      BY <2>1, <3>1, <3>2, TextLookupStep DEF documents
  <2>2. CASE PageLookup(k)
    <3>1. r \in Requests
      BY <2>2, Going DEF PageLookup
    <3>2. CASE procs'[k] = Creating(r)
      <4>1. KeepsTurn(r, procs'[k])
        BY <3>1, <3>2, <2>2, PageLookupStep, CreatingFields, SMTT(40) DEF KeepsTurn
      <4>. QED
        BY <2>2, <4>1, PageLookupStep, UsersStay, TurnsMove DEF documents
    <3>. QED
      BY <1>1, <2>2, <3>2, PageLookupStep DEF documents
  <2>3. CASE NextRow(k)
    <3>1. CASE Raise(k) \/ procs'[k] = Done
      BY <1>1, <1>2, <2>3, <3>1, NextRowStep DEF Raise, documents
    <3>2. CASE users' = users /\ procs'[k].kind = "upload"
      BY <2>3, <3>2, NextRowStep, UsersStay, TurnsMove
    <3>. QED
      BY <2>3, <3>1, <3>2, NextRowStep DEF documents
  <2>4. CASE Buy(k)
    <3>1. CASE Raise(k)
      BY <1>2, <3>1
    <3>2. ASSUME NEW n, procs'[k] = [r EXCEPT !.at = "count", !.number = n, !.cohort = None], users' = users
          PROVE  Turns'
      <4>1. r \in Requests /\ r.at = "buy" /\ Others(k)
        BY <2>4, BuyStep
      <4>2. procs'[k].kind = r.kind /\ procs'[k].phone = r.phone /\ procs'[k].at = "count"
        <5>. HIDE DEF r
        <5>. QED
          BY <4>1, <3>2 DEF Requests
      <4>3. KeepsTurn(r, procs'[k])
        BY <4>1, <4>2 DEF KeepsTurn, HasUser, Finding, MakerStates
      <4>. QED
        BY <4>1, <4>3, <3>2, UsersStay, TurnsMove
    <3>. QED
      BY <2>4, <3>1, <3>2, BuyStep
  <2>5. CASE Count(k)
    <3>1. CASE Raise(k)
      BY <1>2, <3>1
    <3>2. CASE procs'[k] = [r EXCEPT !.at = "insert"] /\ users' = users
      <4>1. r \in Requests /\ r.at = "count" /\ Others(k)
        BY <2>5, CountStep, Going DEF Count
      <4>2. procs'[k].kind = r.kind /\ procs'[k].phone = r.phone /\ procs'[k].at = "insert"
        <5>. HIDE DEF r
        <5>. QED
          BY <4>1, <3>2 DEF Requests
      <4>3. KeepsTurn(r, procs'[k])
        BY <4>1, <4>2 DEF KeepsTurn, HasUser, Finding, MakerStates
      <4>. QED
        BY <4>1, <4>3, <3>2, UsersStay, TurnsMove
    <3>. QED
      BY <2>5, <3>1, <3>2, CountStep DEF documents
  <2>. QED
    BY <1>6, <2>1, <2>2, <2>3, <2>4, <2>5, TurnsInsert, TurnsSave DEF Create
<1>7. ASSUME NEW k \in DOMAIN procs, Make(k)
      PROVE  Turns'
  <2>. DEFINE r == procs[k]
  <2>1. ASSUME r \in Requests, Others(k), users' = users, procs'[k].kind = r.kind, procs'[k].phone = r.phone,
               procs'[k].user = r.user, procs'[k].id = r.id, r.at \in MakerStates, procs'[k].at \in MakerStates
        PROVE  Turns'
    <3>1. KeepsTurn(r, procs'[k])
      BY <2>1 DEF KeepsTurn, HasUser, Finding, MakerStates, Creators
    <3>. QED
      BY <2>1, <3>1, UsersStay, TurnsMove
  <2>2. CASE InsertSchedule(k)
    <3>1. /\ Others(k) /\ r \in Requests /\ r.kind = "schedule" /\ users' = users
          /\ procs'[k] = [r EXCEPT !.at = "schedules"]
      BY <2>2, InsertScheduleStep
    <3>2. procs'[k].kind = "schedule"
      <4>. HIDE DEF r
      <4>. QED
        BY <3>1 DEF Requests
    <3>. QED
      BY <3>1, <3>2, UsersStay, TurnsMove
  <2>3. CASE ListMissing(k)
    <3>1. /\ Others(k) /\ r \in Requests /\ r.at = "schedules" /\ users' = users
          /\ procs'[k] = [r EXCEPT !.at = "make", !.todo = ToMake(r)]
      BY <2>3, ListMissingStep, Going DEF documents
    <3>2. /\ procs'[k].kind = r.kind /\ procs'[k].phone = r.phone /\ procs'[k].user = r.user
          /\ procs'[k].id = r.id /\ procs'[k].at = "make"
      <4>. HIDE DEF r
      <4>. QED
        BY <3>1, SMTT(40) DEF Requests
    <3>. QED
      BY <2>1, <3>1, <3>2 DEF MakerStates
  <2>4. CASE TestExecution(k)
    <3>1. CASE Raise(k)
      BY <1>2, <3>1
    <3>2. ASSUME NEW t, procs'[k] = [r EXCEPT !.at = "create execution", !.number = t], users' = users
          PROVE  Turns'
      <4>1. r \in Requests /\ r.at = "make" /\ Others(k)
        BY <2>4, TestExecutionStep, Going DEF TestExecution
      <4>2. /\ procs'[k].kind = r.kind /\ procs'[k].phone = r.phone /\ procs'[k].user = r.user
            /\ procs'[k].id = r.id /\ procs'[k].at = "create execution"
        <5>. HIDE DEF r
        <5>. QED
          BY <3>2, <4>1 DEF Requests
      <4>. QED
        BY <2>1, <3>2, <4>1, <4>2, SMTT(40) DEF MakerStates
    <3>. QED
      BY <2>4, <3>1, <3>2, TestExecutionStep DEF documents
  <2>5. CASE CreateExecution(k)
    <3>1. /\ Others(k) /\ r \in Requests /\ r.at = "create execution" /\ users' = users
          /\ procs'[k] = [r EXCEPT !.at = "make", !.number = None, !.todo = @ \ {r.number}]
      BY <2>5, CreateExecutionStep
    <3>2. /\ procs'[k].kind = r.kind /\ procs'[k].phone = r.phone /\ procs'[k].user = r.user
          /\ procs'[k].id = r.id /\ procs'[k].at = "make"
      <4>. HIDE DEF r
      <4>. QED
        BY <3>1 DEF Requests
    <3>. QED
      BY <2>1, <3>1, <3>2 DEF MakerStates
  <2>6. CASE MakingDone(k)
    BY <1>1, <2>6, EndStep DEF documents
  <2>. QED
    BY <1>7, <2>2, <2>3, <2>4, <2>5, <2>6 DEF Make
<1>8. ASSUME NEW k \in DOMAIN procs, Greet(k)
      PROVE  Turns'
  <2>. DEFINE r == procs[k]
  <2>1. CASE Onboard(k)
    <3>. DEFINE s == IF r.kind = "text" THEN Done ELSE [r EXCEPT !.at = "save"]
                t == Thread(r.id, k)
    <3>1. /\ users' = users /\ r \in Requests /\ r.kind \in Creators /\ HasUser(r)
          /\ Forked(k, s, t, r.user.status = "active" /\ cohort.status = "active")
      BY <2>1, OnboardStep DEF documents
    <3>2. t.kind = "thread"
      BY DEF Thread, Request
    <3>3. KeepsTurn(r, s)
      <4>1. CASE r.kind = "text"
        BY <4>1 DEF KeepsTurn, Done
      <4>2. CASE r.kind # "text"
        <5>1. s = [r EXCEPT !.at = "save"]
          BY <4>2
        <5>. HIDE DEF s, r
        <5>2. s.kind = r.kind /\ s.user = r.user
          BY <3>1, <5>1 DEF Requests
        <5>. QED
          BY <3>1, <4>2, <5>2 DEF KeepsTurn
      <4>. QED
        BY <4>1, <4>2
    <3>. HIDE DEF s, t
    <3>. QED
      BY <3>1, <3>2, <3>3, <1>11
  <2>2. CASE Welcome(k)
    <3>1. /\ Others(k) /\ r \in Requests /\ r.kind = "thread" /\ users' = users
          /\ procs'[k] = [r EXCEPT !.at = "mark"]
      BY <2>2, WelcomeStep DEF documents
    <3>2. procs'[k].kind = "thread"
      <4>. HIDE DEF r
      <4>. QED
        BY <3>1 DEF Requests
    <3>. QED
      BY <3>1, <3>2, UsersStay, TurnsMove
  <2>3. CASE MarkOnboarded(k)
    <3>1. Marked(k) /\ r \in Requests /\ r.kind = "thread"
      BY <2>3, MarkOnboardedStep
    <3>2. procs'[k].kind = "thread" /\ DOMAIN procs' = DOMAIN procs
      <4>1. procs'[k] = [r EXCEPT !.at = "schedules"] /\ DOMAIN procs' = DOMAIN procs
        BY <3>1 DEF Marked
      <4>. HIDE DEF r
      <4>. QED
        BY <3>1, <4>1 DEF Requests
    <3>3. TextUsersKept
      BY <3>1 DEF Marked, TextUsersKept, ByText
    <3>4. ASSUME NEW j \in DOMAIN procs \ {k}
          PROVE  KeepsTurn(procs[j], procs'[j])
      BY <3>1 DEF Marked, KeepsTurn, HasUser
    <3>. QED
      BY <3>2, <3>3, <3>4, TurnsKept
  <2>. QED
    BY <1>8, <2>1, <2>2, <2>3 DEF Greet
<1>9. ASSUME NEW k \in DOMAIN procs, Administer(k)
      PROVE  Turns'
  <2>. DEFINE r == procs[k]
  <2>1. ASSUME r \in Requests, r.kind \notin {"text", "page"}, Others(k), TextUsersKept, procs'[k].kind = r.kind
        PROVE  Turns'
    BY <2>1, TurnsMove
  <2>2. CASE LoadCohort(k)
    <3>1. /\ r \in Requests /\ r.kind \in {"status", "modify", "close"} /\ Others(k) /\ users' = users
          /\ procs'[k] = [r EXCEPT !.cohort = cohort, !.at = r.kind]
      BY <2>2, LoadCohortStep, Going DEF LoadCohort, documents
    <3>2. procs'[k].kind = r.kind
      <4>. HIDE DEF r
      <4>. QED
        BY <3>1 DEF Requests
    <3>. QED
      BY <2>1, <3>1, <3>2, UsersStay
  <2>3. CASE ModifyCohort(k)
    BY <1>1, <2>3, ModifyCohortStep
  <2>4. CASE CloseCohort(k)
    <3>1. /\ r \in Requests /\ r.kind = "close" /\ Others(k) /\ users' = users
          /\ procs'[k] = [r EXCEPT !.at = "status"]
      BY <2>4, CloseCohortStep
    <3>2. procs'[k].kind = r.kind
      <4>. HIDE DEF r
      <4>. QED
        BY <3>1 DEF Requests
    <3>. QED
      BY <2>1, <3>1, <3>2, UsersStay
  <2>5. CASE SetCohortStatus(k)
    <3>. DEFINE first == r.cohort.status = "pending" /\ r.new = "active"
                at == IF first THEN "assign" ELSE "list"
                c == [r.cohort EXCEPT !.status = r.new]
                todo == IF first THEN {u \in Ids : users[u].number = None} ELSE {}
    <3>1. /\ r \in Requests /\ r.kind \in {"status", "close"} /\ Others(k) /\ users' = users
          /\ procs'[k] = Ended(k) \/ procs'[k] = [r EXCEPT !.at = at, !.cohort = c, !.todo = todo]
      BY <2>5, SetCohortStatusStep
    <3>2. CASE procs'[k] = Ended(k)
      BY <1>1, <3>1, <3>2
    <3>3. CASE procs'[k] = [r EXCEPT !.at = at, !.cohort = c, !.todo = todo]
      <4>1. procs'[k].kind = r.kind
        <5>. HIDE DEF r
        <5>. QED
          BY <3>1, <3>3 DEF Requests
      <4>. QED
        BY <2>1, <3>1, <4>1, UsersStay
    <3>. QED
      BY <3>1, <3>2, <3>3, SMTT(40)
  <2>6. CASE AssignNumber(k)
    <3>1. NumberAssigned(k) /\ r \in Requests /\ r.kind = "status" /\ Others(k)
      BY <2>6, AssignNumberStep DEF NumberAssigned
    <3>2. TextUsersKept
      BY <3>1 DEF NumberAssigned, TextUsersKept, ByText
    <3>3. procs'[k].kind = r.kind
      <4>1. PICK todo \in SUBSET r.todo, c \in Cohorts : procs'[k] = [r EXCEPT !.todo = todo, !.cohort = c]
        BY <3>1 DEF NumberAssigned
      <4>. HIDE DEF r
      <4>. QED
        BY <3>1, <4>1 DEF Requests
    <3>. QED
      BY <2>1, <3>1, <3>2, <3>3, SMTT(40)
  <2>7. CASE AssignFails(k)
    BY <1>2, <2>7 DEF AssignFails
  <2>8. CASE ListUsers(k)
    <3>. DEFINE todo == IF r.new = "active" THEN NotOnboarded ELSE {}
    <3>1. /\ r \in Requests /\ r.kind = "status" /\ Others(k) /\ users' = users
          /\ procs'[k] = [r EXCEPT !.at = "loop", !.cohort = None, !.todo = todo]
      BY <2>8, ListUsersStep, Going DEF documents, Whole, Place, ListUsers, Creators, Makers, MakerStates, CreatorStates
    <3>2. procs'[k].kind = r.kind
      <4>. HIDE DEF r
      <4>. QED
        BY <3>1 DEF Requests
    <3>. QED
      BY <2>1, <3>1, <3>2, UsersStay, SMTT(40)
  <2>9. CASE OnboardListed(k)
    <3>1. PICK u : /\ users' = users /\ r \in Requests /\ r.kind = "status"
                   /\ Forked(k, [r EXCEPT !.todo = @ \ {u}], Thread(u, k), cohort.status = "active")
      BY <2>9, OnboardListedStep DEF documents
    <3>. DEFINE s == [r EXCEPT !.todo = @ \ {u}]
                t == Thread(u, k)
    <3>2. t.kind = "thread"
      BY DEF Thread, Request
    <3>3. KeepsTurn(r, s)
      <4>1. s = [r EXCEPT !.todo = @ \ {u}]
        OBVIOUS
      <4>. HIDE DEF s, r
      <4>2. s.kind = r.kind
        BY <3>1, <4>1 DEF Requests
      <4>. QED
        BY <3>1, <4>2 DEF KeepsTurn
    <3>. HIDE DEF s, t
    <3>4. Forked(k, s, t, cohort.status = "active")
      BY <3>1 DEF s, t
    <3>. QED
      BY <3>1, <3>2, <3>3, <3>4, <1>11
  <2>10. CASE StatusDone(k)
    BY <1>1, <2>10, EndStep DEF documents
  <2>11. CASE LoadUser(k)
    <3>. DEFINE at == IF r.kind = "delete" THEN "delete" ELSE "save"
    <3>1. /\ r \in Requests /\ r.kind \in {"rephone", "delete"} /\ Others(k) /\ users' = users
          /\ procs'[k] = Done \/ procs'[k] = [r EXCEPT !.user = users[r.id], !.at = at]
      BY <2>11, LoadUserStep, Going DEF LoadUser, documents
    <3>2. CASE procs'[k] = Done
      BY <1>1, <3>1, <3>2
    <3>3. CASE procs'[k] = [r EXCEPT !.user = users[r.id], !.at = at]
      <4>1. procs'[k].kind = r.kind
        <5>. HIDE DEF r
        <5>. QED
          BY <3>1, <3>3 DEF Requests
      <4>. QED
        BY <2>1, <3>1, <4>1, UsersStay
    <3>. QED
      BY <3>1, <3>2, <3>3
  <2>12. CASE DeleteUser(k)
    <3>1. TextUsersKept
      BY <2>12, DeleteUserStep DEF TextUsersKept, ByText
    <3>. QED
      BY <2>12, <3>1, DeleteUserStep, EndedKind, TurnsMove
  <2>. QED
    BY <1>9, <2>2, <2>3, <2>4, <2>5, <2>6, <2>7, <2>8, <2>9, <2>10, <2>11, <2>12 DEF Administer
<1>. QED
  BY <1>3, <1>4, <1>5, <1>6, <1>7, <1>8, <1>9 DEF Next, Step

(* TextsMakeNoDuplicates: the property DuplicatesNeedAPage.  The texts of  *)
(* a phone, which take its UserLock, create no two users of it             *)
(* (User.create after text lookup), whatever pages and uploads do          *)
(* meanwhile.                                                              *)
THEOREM TextsMakeNoDuplicates == Spec => []DuplicatesNeedAPage
<1>1. Init => Types /\ Turns
  <2>1. ASSUME Init
        PROVE  Turns
    <3>1. users = <<>> /\ procs = <<Hourly>> /\ Hourly.kind = "hour"
      BY <2>1 DEF Init, Hourly, Request
    <3>2. Ids = {} /\ \A k \in DOMAIN procs : procs[k].kind = "hour"
      BY <3>1 DEF Ids
    <3>. QED
      BY <3>2 DEF Turns, OneUserByText, TextsTakeTurns, TextFound, PagesMakePageUsers
  <2>. QED
    BY <2>1, InitTypes
<1>2. Types /\ Turns /\ [Next]_vars => Types' /\ Turns'
  BY NextTypes, TurnsStep
<1>3. Turns => DuplicatesNeedAPage
  BY DEF Turns, OneUserByText, ByText, DuplicatesNeedAPage, LiveIds
<1>. QED
  BY <1>1, <1>2, <1>3, PTL DEF Spec
-----------------------------------------------------------------------------
(* All the hourly job does is make executions.                             *)
LEMMA HourMakes ==
    ASSUME Types, 1 \in DOMAIN procs, procs[1].kind = "hour", Step(1)
    PROVE  ListMissing(1) \/ TestExecution(1) \/ CreateExecution(1) \/ MakingDone(1)
<1>1. procs[1].at \in MakerStates \cup {"idle"}
  <2>1. procs[1] \in Requests /\ Whole(procs[1], Len(users), owned)
    <3>. DEFINE R == Requests \cup {Done}
    <3>1. procs \in Seq(R)
      BY DEF Types, RequestsWhole, AllWhole
    <3>. HIDE DEF R
    <3>2. procs[1] \in R
      BY <3>1, SMTT(40)
    <3>. QED
      BY <3>2, NotDone DEF R, Types, RequestsWhole, AllWhole
  <2>. QED
    BY <2>1 DEF Whole, Place, Makers, Creators
<1>. USE DEF MakerStates
<1>2. ~Create(1)
  BY <1>1 DEF Create, TextLookup, PageLookup, NextRow, Buy, Count, Insert, SaveUser, AllMade
<1>3. ~InsertSchedule(1)
  BY <1>1 DEF InsertSchedule
<1>4. ~Greet(1)
  BY <1>1 DEF Greet, Onboard, Welcome, MarkOnboarded, AllMade
<1>5. ~Administer(1)
  BY <1>1 DEF Administer, LoadCohort, ModifyCohort, CloseCohort, SetCohortStatus, AssignNumber, AssignFails,
     ListUsers, OnboardListed, StatusDone, LoadUser, DeleteUser
<1>. QED
  BY <1>2, <1>3, <1>4, <1>5 DEF Step, Make

(* AloneMakes is inductive: while the hourly job is alone no other process *)
(* can take a step, and an arrival ends it.                                *)
LEMMA AloneStep ==
    ASSUME Types, AloneMakes, [Next]_vars
    PROVE  AloneMakes'
<1>1. /\ 1 \in DOMAIN procs /\ procs[1].kind = "hour" /\ procs[1] \in Requests
      /\ Whole(procs[1], Len(users), owned)
      /\ None # "alone"
  <2>. DEFINE R == Requests \cup {Done}
  <2>1. procs \in Seq(R) /\ 1 \in DOMAIN procs /\ procs[1].kind = "hour"
    BY DEF Types, RequestsWhole, AllWhole
  <2>. HIDE DEF R
  <2>2. procs[1] \in R
    BY <2>1
  <2>. QED
    BY <2>1, <2>2, NotDone, EnrollmentAssumption DEF R, Types, RequestsWhole, AllWhole
<1>2. CASE UNCHANGED vars
  BY <1>2 DEF AloneMakes, vars, documents
<1>3. ASSUME procs'[1].new = None
      PROVE  AloneMakes'
  BY <1>1, <1>3 DEF AloneMakes
<1>4. CASE Arrive
  <2>1. procs'[1] = [procs[1] EXCEPT !.new = None]
    BY <1>4, ArriveStep DEF Begun, Forked
  <2>2. procs'[1].new = None
    BY <1>1, <2>1 DEF Requests
  <2>. QED
    BY <1>3, <2>2
<1>5. ASSUME NEW u \in Ids, Hour(u)
      PROVE  AloneMakes'
  <2>1. Others(1) /\ procs'[1].at = "schedules" /\ (procs'[1].new = "alone" => AtRest)
    BY <1>1, <1>5, HourStep
  <2>2. ASSUME AtRest, NEW j \in DOMAIN procs, j # 1
        PROVE  procs[j].kind = "done"
    <3>1. CASE procs[j].at = "idle"
      <4>1. Whole(procs[j], Len(users), owned) /\ procs[j].kind # "hour"
        BY <2>2, <3>1, Going
      <4>. QED
        BY <3>1, <4>1 DEF Whole, Place, Creators, Makers, CreatorStates, MakerStates
    <3>. QED
      BY <2>2, <3>1 DEF AtRest
  <2>. QED
    BY <2>1, <2>2 DEF AloneMakes, Others
<1>6. ASSUME NEW k \in DOMAIN procs, k # 1, Step(k)
      PROVE  AloneMakes'
  <2>1. procs'[1].new = procs[1].new
    BY <1>1, <1>6, StepElsewhere DEF Elsewhere, Kept
  <2>2. procs[1].new # "alone"
    <3>1. procs[k].kind # "done"
      BY <1>6, StepGoes
    <3>. QED
      BY <1>6, <3>1 DEF AloneMakes
  <2>. QED
    BY <2>1, <2>2 DEF AloneMakes
<1>7. CASE Step(1)
  <2>. DEFINE r == procs[1]
  <2>2. r.at # "idle" => r.id \in Ids
    <3>1. r.at # "idle" => r.id \in 1..Len(users)
      BY <1>1 DEF Whole
    <3>. QED
      BY <3>1 DEF Types, DocumentsWhole, Ids
  <2>1. CASE ListMissing(1) \/ TestExecution(1) \/ CreateExecution(1) \/ MakingDone(1)
    <3>1. ASSUME procs'[1] = Ended(1)
          PROVE  AloneMakes'
      BY <1>3, <3>1 DEF Ended, Hourly, Request
    <3>2. ASSUME Others(1), procs'[1].new = r.new, procs'[1].id = r.id,
                 r.new = "alone" => \A s \in schedules' : execs'[r.id][s] > 0 \/ <<r.id, s>> \in procs'[1].todo
          PROVE  AloneMakes'
      BY <3>2 DEF AloneMakes, Others
    <3>3. CASE ListMissing(1)
      <4>1. /\ Others(1) /\ UNCHANGED <<schedules, execs>> /\ r.at = "schedules"
            /\ procs'[1] = [r EXCEPT !.at = "make", !.todo = ToMake(r)]
        BY <1>1, <3>3, ListMissingStep DEF documents
      <4>2. procs'[1].new = r.new /\ procs'[1].id = r.id /\ procs'[1].todo = ToMake(r)
        <5>. HIDE DEF r
        <5>. QED
          BY <1>1, <4>1 DEF Requests, r
      <4>3. ASSUME NEW s \in schedules
            PROVE  execs[r.id][s] > 0 \/ <<r.id, s>> \in ToMake(r)
        <5>1. r.id \in Ids /\ s \in Schedules
          BY <1>1, <4>1 DEF Whole, Types, DocumentsWhole, Ids
        <5>2. execs[r.id][s] \in Nat
          <6>1. r.id \in DOMAIN execs /\ execs \in Seq([Schedules -> Nat])
            BY <5>1, SMTT(40) DEF Types, DocumentsWhole, Ids
          <6>. QED
            BY <5>1, <6>1
        <5>. QED
          BY <5>2, <1>1 DEF ToMake
      <4>. QED
        BY <3>2, <4>1, <4>2, <4>3
    <3>4. CASE TestExecution(1)
      <4>1. CASE Raise(1)
        BY <1>1, <3>1, <4>1, Raising
      <4>2. ASSUME NEW t, procs'[1] = [r EXCEPT !.at = "create execution", !.number = t],
                   UNCHANGED <<documents, ghosts>>
            PROVE  AloneMakes'
        <5>1. Others(1) /\ r.at = "make"
          BY <1>1, <3>4, TestExecutionStep
        <5>2. procs'[1].new = r.new /\ procs'[1].id = r.id /\ procs'[1].todo = r.todo
          <6>. HIDE DEF r
          <6>. QED
            BY <1>1, <4>2 DEF Requests, r
        <5>. QED
          BY <3>2, <4>2, <5>1, <5>2, SMTT(40) DEF documents, AloneMakes
      <4>. QED
        BY <1>1, <3>4, <4>1, <4>2, TestExecutionStep
    <3>5. CASE CreateExecution(1)
      <4>1. /\ Others(1) /\ r.at = "create execution" /\ schedules' = schedules
            /\ r.number \in Ids \X Schedules
            /\ procs'[1] = [r EXCEPT !.at = "make", !.number = None, !.todo = @ \ {r.number}]
            /\ \A u \in Ids, s \in Schedules :
                  execs'[u][s] = execs[u][s] + (IF <<u, s>> = r.number THEN 1 ELSE 0)
        BY <1>1, <3>5, CreateExecutionStep
      <4>2. procs'[1].new = r.new /\ procs'[1].id = r.id /\ procs'[1].todo = r.todo \ {r.number}
        <5>. HIDE DEF r
        <5>. QED
          BY <1>1, <4>1 DEF Requests, r
      <4>3. ASSUME r.new = "alone", NEW s \in schedules
            PROVE  execs'[r.id][s] > 0 \/ <<r.id, s>> \in procs'[1].todo
        <5>1. r.id \in Ids /\ s \in Schedules
          BY <2>2, <4>1, <4>3 DEF Types, DocumentsWhole
        <5>2. execs[r.id][s] \in Nat
          <6>1. r.id \in DOMAIN execs /\ execs \in Seq([Schedules -> Nat])
            BY <5>1 DEF Types, DocumentsWhole, Ids
          <6>. QED
            BY <5>1, <6>1
        <5>3. execs[r.id][s] > 0 \/ <<r.id, s>> \in r.todo
          BY <4>1, <4>3 DEF AloneMakes
        <5>4. CASE <<r.id, s>> = r.number
          <6>1. execs'[r.id][s] = execs[r.id][s] + 1
            BY <4>1, <5>1, <5>4
          <6>. QED
            BY <5>2, <6>1
        <5>5. CASE <<r.id, s>> # r.number
          <6>1. execs'[r.id][s] = execs[r.id][s] + 0
            BY <4>1, <5>1, <5>5
          <6>. QED
            BY <4>2, <5>2, <5>3, <5>5, <6>1
        <5>. QED
          BY <5>4, <5>5
      <4>. QED
        BY <3>2, <4>1, <4>2, <4>3
    <3>6. CASE MakingDone(1)
      BY <1>1, <3>1, <3>6, EndStep
    <3>. QED
      BY <2>1, <3>3, <3>4, <3>5, <3>6
  <2>. QED
    BY <1>1, <1>7, <2>1, HourMakes
<1>. QED
  BY <1>2, <1>4, <1>5, <1>6, <1>7 DEF Next

(* HourlyJobMakesAll: the property HourlyJobRepairs.  When the hourly job, *)
(* alone since it came to a user, is done with ensure_schedule_executions, *)
(* the user has an execution of every schedule.                            *)
THEOREM HourlyJobMakesAll == Spec => []HourlyJobRepairs
<1>1. Init => Types /\ AloneMakes
  <2>1. ASSUME Init
        PROVE  AloneMakes
    <3>1. procs[1].new = None
      BY <2>1 DEF Init, Hourly, Request
    <3>. QED
      BY <3>1, EnrollmentAssumption DEF AloneMakes
  <2>. QED
    BY <2>1, InitTypes
<1>2. Types /\ AloneMakes /\ [Next]_vars => Types' /\ AloneMakes'
  BY NextTypes, AloneStep
<1>3. AloneMakes => HourlyJobRepairs
  BY DEF AloneMakes, HourlyJobRepairs, AllMade
<1>. QED
  BY <1>1, <1>2, <1>3, PTL DEF Spec
-----------------------------------------------------------------------------
(* No user comes back, and no execution is lost.                            *)
NothingLost ==
    /\ ~overwritten' => LiveIds' \subseteq LiveIds
    /\ \A u \in Ids, s \in Schedules : execs[u][s] > 0 => execs'[u][s] > 0
    /\ (aborted => aborted') /\ (overwritten => overwritten')

(* A step that leaves users and executions loses nothing.                  *)
LEMMA NothingTouched ==
    ASSUME UNCHANGED <<users, execs, aborted, overwritten>>
    PROVE  NothingLost
BY DEF NothingLost, LiveIds, Ids

(* SchedulesComing is kept when nothing is lost and every process still    *)
(* makes what it was to make, or has made it.                              *)
LEMMA SchedulesKept ==
    ASSUME Types, SchedulesComing, NothingLost, schedules' = schedules,
           \A u \in LiveIds, s \in schedules : \A j \in DOMAIN procs :
               WillMake(procs[j], u, s) =>
                   execs'[u][s] > 0 \/ (j \in DOMAIN procs' /\ WillMake(procs'[j], u, s))
    PROVE  SchedulesComing'
<1>. SUFFICES ASSUME ~aborted', ~overwritten', NEW u \in LiveIds', NEW s \in schedules'
              PROVE  execs'[u][s] > 0 \/ \E j \in DOMAIN procs' : WillMake(procs'[j], u, s)
  BY DEF SchedulesComing, WillMake
<1>1. u \in LiveIds /\ s \in schedules /\ ~aborted /\ ~overwritten
  BY DEF NothingLost
<1>2. u \in Ids /\ s \in Schedules
  BY <1>1 DEF LiveIds, Types, DocumentsWhole
<1>3. execs[u][s] > 0 \/ \E j \in DOMAIN procs : WillMake(procs[j], u, s)
  BY <1>1 DEF SchedulesComing
<1>. QED
  BY <1>1, <1>2, <1>3 DEF NothingLost

(* The same, when only process k goes on.                                  *)
LEMMA SchedulesMove ==
    ASSUME Types, SchedulesComing, NothingLost, schedules' = schedules,
           NEW k \in DOMAIN procs, Elsewhere(k),
           \A u \in LiveIds, s \in schedules :
               WillMake(procs[k], u, s) =>
                   execs'[u][s] > 0 \/ (k \in DOMAIN procs' /\ WillMake(procs'[k], u, s))
    PROVE  SchedulesComing'
<1>1. ASSUME NEW u \in LiveIds, NEW s \in schedules, NEW j \in DOMAIN procs, j # k, WillMake(procs[j], u, s)
      PROVE  j \in DOMAIN procs' /\ WillMake(procs'[j], u, s)
  BY <1>1 DEF Elsewhere, Kept, WillMake
<1>. QED
  BY <1>1, SchedulesKept

(* A process that is not about to make an execution.                       *)
LEMMA NotMaking ==
    ASSUME NEW r, r.kind \notin Creators \cup {"schedule"} \/ r.at \notin MakerStates \/ AllMade(r)
    PROVE  \A u, s : ~WillMake(r, u, s)
BY DEF WillMake, MakerStates, AllMade

(* Executions are counted by naturals.                                     *)
LEMMA ExecutionsCounted ==
    ASSUME Types, NEW u \in Ids, NEW s \in Schedules
    PROVE  execs[u][s] \in Nat
<1>1. u \in DOMAIN execs /\ execs \in Seq([Schedules -> Nat])
  BY DEF Types, DocumentsWhole, Ids
<1>. QED
  BY <1>1

(* SchedulesComing is inductive: a new user lists the schedules after its  *)
(* insertion, a new schedule the users after its own.                      *)
LEMMA SchedulesStep ==
    ASSUME Types, SchedulesComing, [Next]_vars
    PROVE  SchedulesComing'
<1>1. CASE UNCHANGED vars
  <2>1. UNCHANGED <<users, execs, schedules, aborted, overwritten>> /\ procs' = procs
    BY <1>1 DEF vars, documents, ghosts
  <2>2. NothingLost
    BY <2>1, NothingTouched
  <2>. QED
    BY <2>1, <2>2, SchedulesKept
<1>2. CASE Arrive
  <2>1. PICK t : Begun(t)
    BY <1>2, ArriveStep
  <2>2. NothingLost /\ schedules' = schedules
    BY <2>1, NothingTouched DEF Begun, documents
  <2>3. ASSUME NEW j \in DOMAIN procs
        PROVE  procs[j].kind = "hour" \/ (j \in DOMAIN procs' /\ procs'[j] = procs[j])
    BY <2>1 DEF Begun, Forked
  <2>4. ASSUME NEW j \in DOMAIN procs, NEW u, NEW s, WillMake(procs[j], u, s)
        PROVE  j \in DOMAIN procs' /\ WillMake(procs'[j], u, s)
    BY <2>3, <2>4, NotMaking DEF Creators
  <2>. QED
    BY <2>2, <2>4, SchedulesKept
<1>3. ASSUME NEW u \in Ids, Hour(u)
      PROVE  SchedulesComing'
  <2>1. /\ NothingLost /\ schedules' = schedules /\ 1 \in DOMAIN procs
        /\ procs[1].kind = "hour" /\ Others(1)
    BY <1>3, HourStep, NothingTouched DEF documents, ghosts, Types, RequestsWhole, AllWhole
  <2>2. Elsewhere(1)
    BY <2>1 DEF Others, Elsewhere, Kept
  <2>. QED
    BY <2>1, <2>2, NotMaking, SchedulesMove DEF Creators
<1>4. ASSUME NEW k \in DOMAIN procs, Step(k)
      PROVE  SchedulesComing'
  <2>. DEFINE r == procs[k]
              s == procs'[k]
  <2>1. Elsewhere(k) /\ r \in Requests /\ Whole(r, Len(users), owned)
    BY <1>4, StepElsewhere, StepGoes
  <2>2. CASE Raise(k)
    BY <2>2 DEF Raise, SchedulesComing
  <2>3. ASSUME NothingLost, schedules' = schedules,
               r.kind \notin Creators \cup {"schedule"} \/ r.at \notin MakerStates \/ AllMade(r)
        PROVE  SchedulesComing'
    BY <2>1, <2>3, NotMaking, SchedulesMove
  <2>4. CASE Create(k)
    <3>1. CASE TextLookup(k)
      BY <2>2, <2>3, <3>1, TextLookupStep, NothingTouched DEF documents, ghosts, MakerStates
    <3>2. CASE PageLookup(k)
      BY <2>3, <3>2, PageLookupStep, NothingTouched DEF documents, ghosts, MakerStates
    <3>3. CASE NextRow(k)
      BY <2>2, <2>3, <3>3, NextRowStep, NothingTouched DEF documents, ghosts, MakerStates
    <3>4. CASE Buy(k)
      <4>1. CASE ~Raise(k)
        <5>1. NothingLost
          BY <3>4, <4>1, BuyStep DEF NothingLost, LiveIds, Ids, SaveCohort
        <5>. QED
          BY <2>3, <3>4, <4>1, <5>1, BuyStep DEF MakerStates
      <4>. QED
        BY <2>2, <4>1
    <3>5. CASE Count(k)
      BY <2>2, <2>3, <3>5, CountStep, NothingTouched DEF documents, ghosts, MakerStates, Count
    <3>6. CASE Insert(k)
      <4>. DEFINE n == Len(users) + 1
      <4>1. /\ s.kind \in Creators /\ s.id = n /\ s.at = "schedules" /\ r.at = "insert"
            /\ Ids' = Ids \cup {n} /\ n \notin Ids /\ k \in DOMAIN procs'
            /\ \A u \in Ids : users'[u] = users[u] /\ execs'[u] = execs[u]
            /\ UNCHANGED <<schedules, aborted, overwritten>>
        BY <3>6, InsertStep, InsertGoes DEF ghosts, Others
      <4>. SUFFICES ASSUME ~aborted', ~overwritten', NEW u \in LiveIds', NEW z \in schedules'
                    PROVE  execs'[u][z] > 0 \/ \E j \in DOMAIN procs' : WillMake(procs'[j], u, z)
        BY DEF SchedulesComing, WillMake
      <4>2. CASE u = n
        BY <4>1, <4>2 DEF WillMake
      <4>3. CASE u # n
        <5>1. u \in LiveIds /\ u \in Ids /\ z \in schedules /\ ~aborted /\ ~overwritten
          BY <4>1, <4>3 DEF LiveIds
        <5>2. execs[u][z] > 0 \/ \E j \in DOMAIN procs : WillMake(procs[j], u, z)
          BY <5>1 DEF SchedulesComing
        <5>3. ~WillMake(r, u, z)
          BY <4>1, NotMaking DEF MakerStates
        <5>4. \A j \in DOMAIN procs : WillMake(procs[j], u, z) => j \in DOMAIN procs' /\ WillMake(procs'[j], u, z)
          BY <2>1, <5>3 DEF Elsewhere, Kept, WillMake
        <5>. QED
          BY <4>1, <5>1, <5>2, <5>4
      <4>. QED
        BY <4>2, <4>3, SMTT(40)
    <3>7. CASE SaveUser(k)
      <4>1. NothingLost /\ schedules' = schedules
        <5>1. ~overwritten' => Saved(r).status = users[r.id].status
          <6>1. ~overwritten' => r.user = users[r.id]
            BY <3>7, SaveUserStep
          <6>2. r.user \in Documents
            BY <2>1, <3>7, SaveUserStep DEF Whole, WholeUser
          <6>3. Saved(r).status = r.user.status
            BY <6>2 DEF Saved, Documents
          <6>. QED
            BY <6>1, <6>3
        <5>2. ~overwritten' => LiveIds' \subseteq LiveIds
          BY <3>7, <5>1, SaveUserStep DEF LiveIds
        <5>. QED
          BY <3>7, <5>2, SaveUserStep DEF NothingLost
      <4>2. AllMade(r) \/ r.at = "save"
        BY <3>7, SaveUserStep
      <4>. QED
        BY <2>3, <4>1, <4>2 DEF MakerStates
    <3>. QED
      BY <2>4, <3>1, <3>2, <3>3, <3>4, <3>5, <3>6, <3>7 DEF Create
  <2>5. CASE Make(k)
    <3>1. CASE InsertSchedule(k)
      <4>1. /\ s.kind = "schedule" /\ s.at = "schedules" /\ s.new = r.new /\ r.at = "create"
            /\ schedules' = schedules \cup {r.new} /\ k \in DOMAIN procs'
            /\ UNCHANGED <<users, execs, aborted, overwritten>>
        BY <3>1, InsertScheduleStep, InsertScheduleGoes, ZenonT(60) DEF Same, ghosts, Others
      <4>. SUFFICES ASSUME ~aborted', ~overwritten', NEW u \in LiveIds', NEW z \in schedules'
                    PROVE  execs'[u][z] > 0 \/ \E j \in DOMAIN procs' : WillMake(procs'[j], u, z)
        BY ZenonT(60) DEF SchedulesComing, WillMake
      <4>2. CASE z = r.new
        BY <4>1, <4>2 DEF WillMake
      <4>3. CASE z # r.new
        <5>1. u \in LiveIds /\ z \in schedules /\ ~aborted /\ ~overwritten
          BY <4>1, <4>3 DEF LiveIds, Ids
        <5>2. execs[u][z] > 0 \/ \E j \in DOMAIN procs : WillMake(procs[j], u, z)
          BY <5>1 DEF SchedulesComing
        <5>3. ~WillMake(r, u, z)
          BY <4>1, NotMaking DEF MakerStates
        <5>4. \A j \in DOMAIN procs : WillMake(procs[j], u, z) => j \in DOMAIN procs' /\ WillMake(procs'[j], u, z)
          BY <2>1, <5>3, ZenonT(60) DEF Elsewhere, Kept, WillMake
        <5>. QED
          BY <4>1, <5>2, <5>4
      <4>. QED
        BY <4>2, <4>3
    <3>2. CASE ListMissing(k)
      <4>1. /\ NothingLost /\ schedules' = schedules /\ execs' = execs /\ k \in DOMAIN procs' /\ r.at = "schedules"
        BY <3>2, ListMissingStep, NothingTouched DEF documents, ghosts, Others
      <4>2. s.kind = r.kind /\ s.new = r.new /\ s.id = r.id /\ s.at = "make" /\ s.todo = ToMake(r)
        BY <3>2, ListMissingGoes DEF Same
      <4>3. ASSUME NEW u \in LiveIds, NEW z \in schedules, WillMake(r, u, z)
            PROVE  execs'[u][z] > 0 \/ WillMake(s, u, z)
        <5>1. u \in Ids /\ z \in Schedules
          BY DEF LiveIds, Types, DocumentsWhole
        <5>2. execs[u][z] \in Nat
          BY <5>1, ExecutionsCounted
        <5>3. CASE r.kind = "schedule"
          <6>1. <<u, z>> \in ToMake(r)
            BY <4>3, <5>3 DEF WillMake, ToMake, Creators
          <6>. QED
            BY <4>2, <4>3, <5>3, <6>1 DEF WillMake, Creators
        <5>4. CASE r.kind \in Creators
          <6>1. r.id = u
            BY <4>3, <5>4 DEF WillMake, Creators
          <6>2. <<u, z>> \in ToMake(r) \/ execs[u][z] > 0
            BY <5>2, <5>4, <6>1 DEF ToMake, Creators
          <6>. QED
            BY <4>1, <4>2, <5>4, <6>1, <6>2 DEF WillMake
        <5>. QED
          BY <4>3, <5>3, <5>4 DEF WillMake
      <4>. QED
        BY <2>1, <4>1, <4>3, SchedulesMove
    <3>3. CASE TestExecution(k) /\ ~Raise(k)
      <4>1. s.kind = r.kind /\ s.new = r.new /\ s.id = r.id /\ s.at = "create execution" /\ s.todo = r.todo
        BY <3>3, TestExecutionGoes DEF Same
      <4>2. NothingLost /\ schedules' = schedules /\ k \in DOMAIN procs' /\ r.at = "make"
        BY <3>3, TestExecutionStep, TestExecutionGoes, NothingTouched DEF documents, ghosts, Others
      <4>3. ASSUME NEW u \in LiveIds, NEW z \in schedules, WillMake(r, u, z)
            PROVE  WillMake(s, u, z)
        BY <4>1, <4>2, <4>3 DEF WillMake
      <4>. QED
        BY <2>1, <4>2, <4>3, SchedulesMove
    <3>4. CASE CreateExecution(k)
      <4>1. /\ s.kind = r.kind /\ s.new = r.new /\ s.id = r.id /\ s.at = "make"
            /\ s.todo = r.todo \ {r.number}
        BY <3>4, CreateExecutionGoes DEF Same
      <4>2. /\ r.at = "create execution" /\ r.number \in Ids \X Schedules /\ k \in DOMAIN procs'
            /\ UNCHANGED <<users, schedules, aborted, overwritten>>
        BY <3>4, CreateExecutionStep DEF ghosts, Others
      <4>7. \A u \in Ids, z \in Schedules : execs'[u][z] = execs[u][z] + (IF <<u, z>> = r.number THEN 1 ELSE 0)
        BY <3>4, CreateExecutionStep
      <4>3. ASSUME NEW u \in Ids, NEW z \in Schedules
            PROVE  /\ execs[u][z] \in Nat
                   /\ <<u, z>> # r.number => execs'[u][z] = execs[u][z]
                   /\ <<u, z>> = r.number => execs'[u][z] = execs[u][z] + 1
        <5>1. execs'[u][z] = execs[u][z] + (IF <<u, z>> = r.number THEN 1 ELSE 0)
          BY <4>7
        <5>2. execs[u][z] \in Nat
          BY ExecutionsCounted
        <5>3. CASE <<u, z>> = r.number
          BY <5>1, <5>2, <5>3
        <5>4. CASE <<u, z>> # r.number
          <6>1. execs'[u][z] = execs[u][z] + 0
            BY <5>1, <5>4
          <6>. QED
            BY <5>2, <5>4, <6>1
        <5>. QED
          BY <5>3, <5>4
      <4>4. ASSUME NEW u \in Ids, NEW z \in Schedules, execs[u][z] > 0
            PROVE  execs'[u][z] > 0
        BY <4>3, <4>4
      <4>5. NothingLost
        BY <4>2, <4>4 DEF NothingLost, LiveIds, Ids
      <4>6. ASSUME NEW u \in LiveIds, NEW z \in schedules, WillMake(r, u, z)
            PROVE  execs'[u][z] > 0 \/ WillMake(s, u, z)
        <5>1. u \in Ids /\ z \in Schedules
          BY DEF LiveIds, Types, DocumentsWhole
        <5>2. CASE <<u, z>> = r.number
          BY <4>3, <5>1, <5>2
        <5>3. CASE <<u, z>> # r.number
          BY <4>1, <4>2, <4>6, <5>3 DEF WillMake
        <5>. QED
          BY <5>2, <5>3
      <4>. QED
        BY <2>1, <4>2, <4>5, <4>6, SchedulesMove
    <3>5. CASE MakingDone(k)
      BY <2>3, <3>5, EndStep, NothingTouched DEF documents, ghosts, MakingDone
    <3>. QED
      BY <2>2, <2>5, <3>1, <3>2, <3>3, <3>4, <3>5 DEF Make
  <2>6. CASE Greet(k)
    <3>1. CASE Onboard(k)
      BY <2>3, <3>1, OnboardStep, NothingTouched DEF documents, ghosts, MakerStates
    <3>2. CASE Welcome(k)
      BY <2>3, <3>2, WelcomeStep, NothingTouched DEF documents, Creators
    <3>3. CASE MarkOnboarded(k)
      <4>1. NothingLost
        BY <3>3, MarkOnboardedStep DEF Marked, NothingLost, LiveIds, ghosts
      <4>. QED
        BY <2>3, <3>3, <4>1, MarkOnboardedStep DEF Creators
    <3>. QED
      BY <2>6, <3>1, <3>2, <3>3 DEF Greet
  <2>7. CASE Administer(k)
    <3>1. r.kind \notin Creators \cup {"schedule"} \/ r.at \notin MakerStates
      BY <2>7 DEF Administer, LoadCohort, ModifyCohort, CloseCohort, SetCohortStatus, AssignNumber, AssignFails,
         ListUsers, OnboardListed, StatusDone, LoadUser, DeleteUser, MakerStates
    <3>2. CASE AssignFails(k)
      BY <2>2, <3>2 DEF AssignFails
    <3>3. CASE DeleteUser(k)
      <4>1. NothingLost /\ schedules' = schedules
        BY <3>3, DeleteUserStep DEF NothingLost, LiveIds
      <4>. QED
        BY <2>3, <3>1, <4>1
    <3>4. CASE AssignNumber(k)
      <4>1. NumberAssigned(k)
        BY <3>4, AssignNumberStep
      <4>2. NothingLost /\ schedules' = schedules
        <5>1. LiveIds' \subseteq LiveIds
          BY <4>1 DEF NumberAssigned, LiveIds
        <5>2. UNCHANGED <<schedules, execs, aborted>>
          BY <4>1 DEF NumberAssigned
        <5>3. overwritten => overwritten'
          <6>1. overwritten' = overwritten \/ SaveCohort(cohort', r.cohort)
            BY <4>1 DEF NumberAssigned
          <6>. QED
            BY <6>1 DEF SaveCohort
        <5>. QED
          BY <5>1, <5>2, <5>3 DEF NothingLost
      <4>. QED
        BY <2>3, <3>1, <4>2
    <3>5. ASSUME UNCHANGED <<users, execs, aborted, schedules>>, overwritten => overwritten'
          PROVE  SchedulesComing'
      <4>1. NothingLost
        BY <3>5 DEF NothingLost, LiveIds, Ids
      <4>. QED
        BY <2>3, <3>1, <3>5, <4>1
    <3>6. CASE ModifyCohort(k)
      BY <3>5, <3>6, ModifyCohortStep DEF SaveCohort
    <3>7. CASE SetCohortStatus(k)
      BY <3>5, <3>7, SetCohortStatusStep DEF SaveCohort
    <3>8. CASE CloseCohort(k)
      BY <3>5, <3>8, CloseCohortStep
    <3>9. CASE LoadCohort(k) \/ ListUsers(k) \/ StatusDone(k) \/ LoadUser(k) \/ OnboardListed(k)
      <4>1. UNCHANGED <<documents, ghosts>>
        BY <3>9, LoadCohortStep, ListUsersStep, EndStep, LoadUserStep, OnboardListedStep
      <4>. QED
        BY <3>5, <4>1 DEF documents, ghosts
    <3>. QED
      BY <2>7, <3>2, <3>3, <3>4, <3>6, <3>7, <3>8, <3>9 DEF Administer
  <2>. QED
    BY <1>4, <2>4, <2>5, <2>6, <2>7 DEF Step
<1>. QED
  BY <1>1, <1>2, <1>3, <1>4 DEF Next

(* SchedulesReachUsers: the property NoScheduleMissed.  Of a user and a    *)
(* schedule created at the same time, the later one to be inserted sees    *)
(* the other, and makes the execution, unless an exception or an           *)
(* overwriting save came between.                                          *)
THEOREM SchedulesReachUsers == Spec => []NoScheduleMissed
<1>1. Init => Types /\ SchedulesComing
  <2>1. ASSUME Init
        PROVE  SchedulesComing
    BY <2>1 DEF Init, SchedulesComing, LiveIds, Ids
  <2>. QED
    BY <2>1, InitTypes
<1>2. Types /\ SchedulesComing /\ [Next]_vars => Types' /\ SchedulesComing'
  BY NextTypes, SchedulesStep
<1>3. Types /\ SchedulesComing => NoScheduleMissed
  <2>. SUFFICES ASSUME Types, SchedulesComing, AtRest, ~aborted, ~overwritten, NEW u \in LiveIds, NEW s \in schedules
                PROVE  execs[u][s] > 0
    BY DEF NoScheduleMissed
  <2>1. ASSUME NEW k \in DOMAIN procs
        PROVE  ~WillMake(procs[k], u, s)
    BY DEF AtRest, WillMake, Creators
  <2>. QED
    BY <2>1 DEF SchedulesComing
<1>. QED
  BY <1>1, <1>2, <1>3, PTL DEF Spec
-----------------------------------------------------------------------------
(* A process that has no user copy answers for no welcome, unless it is a  *)
(* thread.                                                                 *)
LEMMA NoUserYet ==
    ASSUME NEW r, ~HasUser(r), r.kind = "thread" => r.at = "welcome", NEW w
    PROVE  WelcomedFirst(r, w)
BY DEF WelcomedFirst

(* Nor for another one, if it goes on with the same user.                  *)
LEMMA SameUser ==
    ASSUME NEW r, NEW s, NEW w, NEW more, WelcomedFirst(r, w), w \subseteq more,
           Same(r, s), HasUser(s) => HasUser(r),
           r.kind = "thread" => r.at # "welcome" \/ r.id \in more
    PROVE  WelcomedFirst(s, more)
BY DEF WelcomedFirst, Same

(* Nor when it has ended.                                                  *)
LEMMA NoUserAtEnd ==
    ASSUME NEW k, NEW w
    PROVE  WelcomedFirst(Ended(k), w) /\ WelcomedFirst(Done, w)
<1>1. ~HasUser(Done) /\ Done.kind # "thread"
  BY DEF HasUser, Done, Creators, MakerStates
<1>2. ~HasUser(Hourly) /\ Hourly.kind # "thread"
  BY DEF HasUser, Hourly, Request, Creators, MakerStates
<1>. QED
  BY <1>1, <1>2, NoUserYet DEF Ended

(* OnboardedWelcomed is kept when one process goes on so.                  *)
LEMMA WelcomedMove ==
    ASSUME Types, OnboardedWelcomed, welcomed \subseteq welcomed', NEW k \in DOMAIN procs, Others(k),
           \A u \in Ids' : users'[u].onboarded => u \in welcomed',
           WelcomedFirst(procs'[k], welcomed')
    PROVE  OnboardedWelcomed'
<1>1. ASSUME NEW j \in DOMAIN procs'
      PROVE  WelcomedFirst(procs'[j], welcomed')
  <2>1. CASE j = k
    BY <2>1
  <2>2. CASE j # k
    <3>1. j \in DOMAIN procs /\ procs'[j] = procs[j]
      BY <2>2 DEF Others
    <3>2. WelcomedFirst(procs[j], welcomed)
      BY <3>1 DEF OnboardedWelcomed
    <3>. QED
      BY <3>1, <3>2 DEF WelcomedFirst
  <2>. QED
    BY <2>1, <2>2
<1>. QED
  BY <1>1 DEF OnboardedWelcomed

(* And when a thread begins.                                               *)
LEMMA WelcomedFork ==
    ASSUME Types, OnboardedWelcomed, UNCHANGED <<users, welcomed>>, NEW k \in DOMAIN procs,
           NEW s, NEW t, NEW P, Forked(k, s, t, P), WelcomedFirst(s, welcomed), WelcomedFirst(t, welcomed)
    PROVE  OnboardedWelcomed'
<1>1. ASSUME NEW j \in DOMAIN procs'
      PROVE  WelcomedFirst(procs'[j], welcomed)
  <2>1. procs'[j] = s \/ procs'[j] = t \/ (j \in DOMAIN procs /\ procs'[j] = procs[j])
    BY DEF Forked
  <2>. QED
    BY <2>1 DEF OnboardedWelcomed
<1>2. welcomed' = welcomed /\ Ids' = Ids /\ users' = users
  BY DEF Ids
<1>3. \A j \in DOMAIN procs' : WelcomedFirst(procs'[j], welcomed')
  BY <1>1, <1>2
<1>. QED
  BY <1>2, <1>3 DEF OnboardedWelcomed

(* A thread begins before its welcome.                                     *)
LEMMA ThreadNew ==
    ASSUME NEW u, NEW k, NEW w
    PROVE  WelcomedFirst(Thread(u, k), w)
<1>1. ~HasUser(Thread(u, k)) /\ Thread(u, k).at = "welcome"
  BY DEF Thread, Request, HasUser, Creators, MakerStates
<1>. QED
  BY <1>1, NoUserYet

(* OnboardedWelcomed is inductive: the thread marks the user after its     *)
(* welcome, and copies are made of what was marked.                        *)
LEMMA OnboardedStep ==
    ASSUME Types, OnboardedWelcomed, [Next]_vars
    PROVE  OnboardedWelcomed'
<1>1. CASE UNCHANGED vars
  <2>1. UNCHANGED <<users, procs, welcomed>>
    BY <1>1 DEF vars, documents, ghosts
  <2>. QED
    BY <2>1 DEF OnboardedWelcomed, WelcomedFirst, HasUser, Ids
<1>2. CASE Arrive
  <2>1. PICK t : Begun(t)
    BY <1>2, ArriveStep
  <2>. DEFINE r == procs[1]
              s == [r EXCEPT !.new = None]
  <2>2. /\ Forked(1, s, t, TRUE) /\ UNCHANGED <<users, welcomed>>
        /\ r \in Requests /\ r.kind = "hour" /\ ~HasUser(t) /\ t.kind # "thread"
        /\ 1 \in DOMAIN procs
    BY <2>1 DEF Begun, documents, Types, RequestsWhole, AllWhole
  <2>4. s.kind = "hour" /\ s.user = r.user /\ s.id = r.id /\ s.at = r.at
    <3>1. s = [r EXCEPT !.new = None]
      OBVIOUS
    <3>. HIDE DEF s, r
    <3>. QED
      BY <2>2, <3>1 DEF Requests
  <2>5. WelcomedFirst(s, welcomed)
    <3>1. WelcomedFirst(r, welcomed)
      BY <2>2 DEF OnboardedWelcomed
    <3>. HIDE DEF s, r
    <3>. QED
      BY <2>2, <2>4, <3>1 DEF WelcomedFirst, HasUser
  <2>6. WelcomedFirst(t, welcomed)
    BY <2>2, NoUserYet
  <2>. HIDE DEF s
  <2>. QED
    BY <2>2, <2>5, <2>6, WelcomedFork
<1>3. ASSUME NEW u \in Ids, Hour(u)
      PROVE  OnboardedWelcomed'
  <2>1. /\ Others(1) /\ 1 \in DOMAIN procs /\ UNCHANGED <<users, welcomed>>
        /\ procs'[1].kind = "hour" /\ procs'[1].at = "schedules"
    BY <1>3, HourStep DEF documents, ghosts, Types, RequestsWhole, AllWhole
  <2>2. ~HasUser(procs'[1])
    BY <2>1 DEF HasUser, Creators
  <2>. QED
    BY <2>1, <2>2, NoUserYet, WelcomedMove DEF OnboardedWelcomed, Ids
<1>4. ASSUME NEW k \in DOMAIN procs, Step(k)
      PROVE  OnboardedWelcomed'
  <2>. DEFINE r == procs[k]
              s == procs'[k]
  <2>1. r \in Requests /\ Whole(r, Len(users), owned) /\ WelcomedFirst(r, welcomed)
    BY <1>4, StepGoes DEF OnboardedWelcomed
  <2>2. ASSUME UNCHANGED <<users, welcomed>>, Others(k), WelcomedFirst(s, welcomed)
        PROVE  OnboardedWelcomed'
    <3>1. \A u \in Ids' : users'[u].onboarded => u \in welcomed'
      BY <2>2 DEF OnboardedWelcomed, Ids
    <3>. QED
      BY <2>2, <3>1, WelcomedMove
  <2>3. ASSUME UNCHANGED <<users, welcomed>>, Others(k), s = Ended(k) \/ s = Done
        PROVE  OnboardedWelcomed'
    BY <2>2, <2>3, NoUserAtEnd
  <2>4. CASE Raise(k)
    BY <2>3, <2>4, Raising DEF Raise, documents
  <2>5. ASSUME UNCHANGED <<users, welcomed>>, Others(k), Same(r, s), HasUser(s) => HasUser(r),
               r.kind = "thread" => r.at # "welcome"
        PROVE  OnboardedWelcomed'
    BY <2>1, <2>2, <2>5, SameUser
  <2>6. ASSUME UNCHANGED <<users, welcomed>>, Others(k), s.kind # "thread", ~HasUser(s)
        PROVE  OnboardedWelcomed'
    BY <2>2, <2>6, NoUserYet
  <2>7. CASE Create(k)
    <3>1. CASE TextLookup(k) /\ ~Raise(k)
      <4>1. Others(k) /\ UNCHANGED <<users, welcomed>> /\ s \in {Done, Creating(r)} /\ r.kind = "text"
        BY <3>1, TextLookupStep DEF documents, ghosts
      <4>2. CASE s = Creating(r)
        BY <2>1, <2>6, <4>1, <4>2, CreatingFields
      <4>. QED
        BY <2>3, <4>1, <4>2
    <3>2. CASE PageLookup(k)
      <4>1. Others(k) /\ UNCHANGED <<users, welcomed>> /\ s \in {Done, Creating(r)} /\ r.kind = "page"
        BY <3>2, PageLookupStep DEF documents, ghosts
      <4>2. CASE s = Creating(r)
        BY <2>1, <2>6, <4>1, <4>2, CreatingFields
      <4>. QED
        BY <2>3, <4>1, <4>2
    <3>3. CASE NextRow(k) /\ ~Raise(k)
      <4>1. /\ Others(k) /\ UNCHANGED <<users, welcomed>>
            /\ \/ s = Done
               \/ s.kind = "upload" /\ s.at \in {"buy", "count"}
               \/ s.kind = "upload" /\ s.id \in Ids /\ s.user = users[s.id]
        BY <3>3, NextRowStep DEF documents, ghosts
      <4>2. CASE s.kind = "upload" /\ s.at \in {"buy", "count"}
        BY <2>6, <4>1, <4>2 DEF HasUser, MakerStates
      <4>3. CASE s.kind = "upload" /\ s.id \in Ids /\ s.user = users[s.id]
        BY <2>2, <4>1, <4>3 DEF WelcomedFirst, OnboardedWelcomed
      <4>. QED
        BY <2>3, <4>1, <4>2, <4>3, SMTT(40)
    <3>4. CASE Buy(k) /\ ~Raise(k)
      <4>1. Others(k) /\ UNCHANGED <<users, welcomed>> /\ s.kind = r.kind /\ s.at = "count" /\ r.kind \in Creators
        BY <3>4, BuyStep, BuyGoes DEF Same
      <4>. QED
        BY <2>6, <4>1 DEF HasUser, Creators, MakerStates
    <3>5. CASE Count(k) /\ ~Raise(k)
      <4>1. Others(k) /\ UNCHANGED <<users, welcomed>> /\ s.kind = r.kind /\ s.at = "insert"
        BY <3>5, CountStep, CountGoes DEF Same, documents, ghosts
      <4>2. r.kind # "thread"
        BY <3>5, <2>1 DEF Count, Whole, Place, Creators, Makers, MakerStates
      <4>. QED
        BY <2>6, <4>1, <4>2 DEF HasUser, MakerStates
    <3>6. CASE Insert(k)
      <4>. DEFINE n == Len(users) + 1
      <4>1. /\ Others(k) /\ welcomed' = welcomed /\ Ids' = Ids \cup {n}
            /\ \A u \in Ids : users'[u] = users[u]
            /\ users'[n] = s.user /\ ~s.user.onboarded /\ s.kind \in Creators
        BY <3>6, InsertStep, InsertGoes DEF ghosts
      <4>2. WelcomedFirst(s, welcomed')
        BY <4>1 DEF WelcomedFirst, Creators
      <4>3. \A u \in Ids' : users'[u].onboarded => u \in welcomed'
        BY <4>1 DEF OnboardedWelcomed
      <4>. QED
        BY <4>1, <4>2, <4>3, WelcomedMove
    <3>7. CASE SaveUser(k)
      <4>1. /\ Others(k) /\ HasUser(r) /\ welcomed' = welcomed /\ r.id \in Ids /\ Ids' = Ids
            /\ users'[r.id] = Saved(r) /\ \A v \in Ids \ {r.id} : users'[v] = users[v]
            /\ r.kind \in {"text", "page", "upload", "rephone"}
        BY <3>7, SaveUserStep
      <4>2. Saved(r).onboarded = r.user.onboarded
        <5>1. r.user \in Documents
          BY <2>1, <4>1 DEF Whole, WholeUser
        <5>. QED
          BY <5>1 DEF Saved, Documents
      <4>3. \A u \in Ids' : users'[u].onboarded => u \in welcomed'
        BY <2>1, <4>1, <4>2 DEF OnboardedWelcomed, WelcomedFirst
      <4>4. WelcomedFirst(s, welcomed')
        <5>1. CASE r.kind = "text"
          BY <2>1, <3>7, <4>1, <5>1, TextSaved, SameUser
        <5>2. CASE r.kind = "upload"
          <6>1. s.kind = "upload" /\ s.at = "lookup"
            BY <3>7, <5>2, UploadSaved DEF Same
          <6>. QED
            BY <6>1, NoUserYet DEF HasUser, MakerStates
        <5>3. CASE r.kind \notin {"text", "upload"}
          <6>1. s = Ended(k)
            BY <3>7, <5>3, SaveUserStep
          <6>. QED
            BY <6>1, NoUserAtEnd
        <5>. QED
          BY <5>1, <5>2, <5>3
      <4>. QED
        BY <4>1, <4>3, <4>4, WelcomedMove
    <3>. QED
      BY <2>4, <2>7, <3>1, <3>2, <3>3, <3>4, <3>5, <3>6, <3>7 DEF Create
  <2>8. CASE Make(k)
    <3>1. CASE InsertSchedule(k)
      <4>1. Others(k) /\ UNCHANGED <<users, welcomed>> /\ s.kind = "schedule" /\ s.at = "schedules"
        BY <3>1, InsertScheduleStep, InsertScheduleGoes, ZenonT(60) DEF Same, ghosts
      <4>. QED
        BY <2>6, <4>1 DEF HasUser, Creators
    <3>2. CASE ListMissing(k)
      <4>1. Others(k) /\ UNCHANGED <<users, welcomed>> /\ Same(r, s) /\ s.at = "make" /\ r.at = "schedules"
        BY <3>2, ListMissingStep, ListMissingGoes DEF documents, ghosts
      <4>. QED
        BY <2>5, <4>1 DEF HasUser, Same, MakerStates
    <3>3. CASE TestExecution(k) /\ ~Raise(k)
      <4>1. Others(k) /\ UNCHANGED <<users, welcomed>> /\ Same(r, s) /\ s.at = "create execution" /\ r.at = "make"
        BY <3>3, TestExecutionStep, TestExecutionGoes DEF documents, ghosts
      <4>. QED
        BY <2>5, <4>1 DEF HasUser, Same, MakerStates
    <3>4. CASE CreateExecution(k)
      <4>1. Others(k) /\ UNCHANGED <<users, welcomed>> /\ Same(r, s) /\ s.at = "make" /\ r.at = "create execution"
        BY <3>4, CreateExecutionStep, CreateExecutionGoes DEF ghosts
      <4>. QED
        BY <2>5, <4>1 DEF HasUser, Same, MakerStates
    <3>5. CASE MakingDone(k)
      BY <2>3, <3>5, EndStep DEF documents, ghosts
    <3>. QED
      BY <2>4, <2>8, <3>1, <3>2, <3>3, <3>4, <3>5 DEF Make
  <2>9. CASE Greet(k)
    <3>1. CASE Onboard(k)
      <4>. DEFINE e == IF r.kind = "text" THEN Done ELSE [r EXCEPT !.at = "save"]
      <4>1. /\ UNCHANGED <<users, welcomed>> /\ HasUser(r) /\ r.kind \in Creators
            /\ Forked(k, e, Thread(r.id, k), r.user.status = "active" /\ cohort.status = "active")
        BY <3>1, OnboardStep DEF documents, ghosts
      <4>. HIDE DEF e
      <4>2. s = e
        BY <4>1 DEF Forked
      <4>3. CASE r.kind = "text"
        BY <4>1, <4>3, NoUserAtEnd, ThreadNew, WelcomedFork DEF e
      <4>4. CASE r.kind # "text"
        <5>1. Same(r, e)
          BY <3>1, <4>2, <4>4, OnboardGoes
        <5>2. WelcomedFirst(e, welcomed)
          BY <2>1, <4>1, <5>1, SameUser DEF Creators
        <5>. QED
          BY <4>1, <5>2, ThreadNew, WelcomedFork
      <4>. QED
        BY <4>3, <4>4
    <3>2. CASE Welcome(k)
      <4>1. /\ Others(k) /\ users' = users /\ welcomed' = welcomed \cup {r.id}
            /\ Same(r, s) /\ s.at = "mark" /\ r.kind = "thread"
        BY <3>2, WelcomeStep, WelcomeGoes DEF documents
      <4>2. WelcomedFirst(s, welcomed')
        BY <4>1 DEF WelcomedFirst, Same, HasUser, Creators
      <4>3. \A u \in Ids' : users'[u].onboarded => u \in welcomed'
        BY <4>1 DEF OnboardedWelcomed, Ids
      <4>. QED
        BY <4>1, <4>2, <4>3, WelcomedMove
    <3>3. CASE MarkOnboarded(k)
      <4>1. Marked(k) /\ welcomed' = welcomed /\ r.kind = "thread" /\ r.at = "mark"
        BY <3>3, MarkOnboardedStep DEF ghosts
      <4>2. r.id \in welcomed
        BY <2>1, <4>1 DEF WelcomedFirst
      <4>3. \A u \in Ids' : users'[u].onboarded => u \in welcomed'
        BY <4>1, <4>2 DEF Marked, OnboardedWelcomed
      <4>4. Same(r, s) /\ s.at = "schedules"
        BY <3>3, MarkOnboardedGoes
      <4>5. ASSUME NEW j \in DOMAIN procs'
            PROVE  WelcomedFirst(procs'[j], welcomed)
        <5>1. j \in DOMAIN procs /\ WelcomedFirst(procs[j], welcomed)
          BY <4>1 DEF Marked, OnboardedWelcomed
        <5>2. CASE j = k
          BY <4>1, <4>2, <4>4, <5>2 DEF WelcomedFirst, Same
        <5>3. CASE j # k
          BY <4>1, <4>2, <5>1, <5>3 DEF Marked, WelcomedFirst, HasUser
        <5>. QED
          BY <5>2, <5>3
      <4>6. \A j \in DOMAIN procs' : WelcomedFirst(procs'[j], welcomed')
        BY <4>1, <4>5
      <4>. QED
        BY <4>3, <4>6 DEF OnboardedWelcomed
    <3>. QED
      BY <2>9, <3>1, <3>2, <3>3 DEF Greet
  <2>10. CASE Administer(k)
    <3>1. ASSUME UNCHANGED <<users, welcomed>>, Others(k), Same(r, s),
                 r.kind \in {"status", "modify", "close"}, s.at \notin {"save", "delete", "onboard"}
          PROVE  OnboardedWelcomed'
      BY <2>6, <3>1, SMTT(40) DEF HasUser, Same, Creators
    <3>2. CASE LoadCohort(k)
      BY <3>1, <3>2, LoadCohortStep, LoadCohortGoes DEF LoadCohort, documents, ghosts
    <3>3. CASE ModifyCohort(k)
      BY <2>3, <3>3, ModifyCohortStep
    <3>4. CASE CloseCohort(k)
      BY <3>1, <3>4, CloseCohortStep, CloseCohortGoes
    <3>5. CASE SetCohortStatus(k)
      <4>1. /\ Others(k) /\ UNCHANGED <<users, welcomed>> /\ r.kind \in {"status", "close"}
            /\ r.kind = "close" => s = Ended(k)
        BY <3>5, SetCohortStatusStep
      <4>2. CASE r.kind = "status"
        BY <3>1, <3>5, <4>1, <4>2, SetCohortStatusGoes
      <4>. QED
        BY <2>3, <4>1, <4>2
    <3>6. CASE AssignNumber(k)
      <4>1. NumberAssigned(k) /\ Same(r, s) /\ s.at = "assign"
        BY <3>6, AssignNumberStep, AssignNumberGoes
      <4>2. \A u \in Ids' : users'[u].onboarded => u \in welcomed'
        BY <4>1 DEF NumberAssigned, OnboardedWelcomed
      <4>3. Others(k) /\ welcomed' = welcomed /\ r.kind = "status"
        BY <4>1 DEF NumberAssigned
      <4>4. WelcomedFirst(s, welcomed')
        BY <4>1, <4>3, NoUserYet DEF HasUser, Same, Creators
      <4>. QED
        BY <4>2, <4>3, <4>4, WelcomedMove
    <3>7. CASE AssignFails(k)
      BY <2>4, <3>7 DEF AssignFails
    <3>8. CASE ListUsers(k)
      <4>1. r.kind = "status"
        BY <2>1, <3>8 DEF ListUsers, Whole, Place, Creators, Makers, CreatorStates, MakerStates
      <4>. QED
        BY <3>1, <3>8, <4>1, ListUsersStep, ListUsersGoes DEF documents, ghosts
    <3>9. CASE OnboardListed(k)
      <4>1. PICK u \in Ids : Forked(k, [r EXCEPT !.todo = @ \ {u}], Thread(u, k), cohort.status = "active")
        BY <3>9, OnboardListedStep
      <4>. DEFINE e == [r EXCEPT !.todo = @ \ {u}]
      <4>2. Forked(k, e, Thread(u, k), cohort.status = "active")
        BY <4>1
      <4>. HIDE DEF e
      <4>3. s = e /\ Same(r, s) /\ s.at = "loop" /\ r.kind = "status" /\ UNCHANGED <<users, welcomed>>
        BY <3>9, <4>2, OnboardListedStep, OnboardListedGoes DEF Forked, documents, ghosts
      <4>4. WelcomedFirst(e, welcomed)
        BY <4>3, NoUserYet DEF HasUser, Same, Creators
      <4>. QED
        BY <4>2, <4>3, <4>4, ThreadNew, WelcomedFork
    <3>10. CASE StatusDone(k)
      BY <2>3, <3>10, EndStep DEF documents, ghosts
    <3>11. CASE LoadUser(k)
      <4>1. Others(k) /\ UNCHANGED <<users, welcomed>>
        BY <3>11, LoadUserStep DEF documents, ghosts
      <4>2. CASE s # Done
        <5>1. WelcomedFirst(s, welcomed)
          BY <3>11, <4>2, LoadUserGoes DEF WelcomedFirst, OnboardedWelcomed
        <5>. QED
          BY <2>2, <4>1, <5>1
      <4>. QED
        BY <2>3, <4>1, <4>2
    <3>12. CASE DeleteUser(k)
      <4>1. /\ Others(k) /\ s = Ended(k) /\ HasUser(r) /\ welcomed' = welcomed /\ Ids' = Ids
            /\ users'[r.id].onboarded = r.user.onboarded /\ \A v \in Ids \ {r.id} : users'[v] = users[v]
        BY <3>12, DeleteUserStep
      <4>2. \A u \in Ids' : users'[u].onboarded => u \in welcomed'
        BY <2>1, <4>1 DEF OnboardedWelcomed, WelcomedFirst
      <4>. QED
        BY <4>1, <4>2, NoUserAtEnd, WelcomedMove
    <3>. QED
      BY <2>10, <3>2, <3>3, <3>4, <3>5, <3>6, <3>7, <3>8, <3>9, <3>10, <3>11, <3>12 DEF Administer
  <2>. QED
    BY <1>4, <2>7, <2>8, <2>9, <2>10 DEF Step
<1>. QED
  BY <1>1, <1>2, <1>3, <1>4 DEF Next

(* No user becomes active, nor the cohort, and no welcome is undone.        *)
NobodyForgotten ==
    /\ (aborted => aborted') /\ (overwritten => overwritten')
    /\ welcomed \subseteq welcomed'
    /\ ~overwritten' /\ cohort'.status = "active" => cohort.status = "active"
    /\ Ids' = Ids
    /\ ~overwritten' => \A u \in Ids : users'[u].status = "active" => users[u].status = "active"

(* A step that leaves the cohort and the users forgets nobody.             *)
LEMMA NobodyTouched ==
    ASSUME UNCHANGED <<cohort, users, aborted, overwritten>>, welcomed \subseteq welcomed'
    PROVE  NobodyForgotten
BY DEF NobodyForgotten, Ids

(* WelcomesComing is kept when nobody is forgotten and whoever a process   *)
(* was to welcome is welcomed, or still to be.                             *)
LEMMA WelcomesKept ==
    ASSUME WelcomesComing, NobodyForgotten,
           \A u \in Ids : users[u].status = "active" /\ cohort.status = "active" =>
               \A j \in DOMAIN procs : WillWelcome(procs[j], u) =>
                   u \in welcomed' \/ \E i \in DOMAIN procs' : WillWelcome(procs'[i], u)
    PROVE  WelcomesComing'
<1>. SUFFICES ASSUME ~aborted', ~overwritten', cohort'.status = "active", NEW u \in Ids', users'[u].status = "active"
              PROVE  u \in welcomed' \/ \E i \in DOMAIN procs' : WillWelcome(procs'[i], u)
  BY DEF WelcomesComing, WillWelcome
<1>1. u \in Ids /\ users[u].status = "active" /\ cohort.status = "active" /\ ~aborted /\ ~overwritten
  BY DEF NobodyForgotten
<1>2. u \in welcomed \/ \E j \in DOMAIN procs : WillWelcome(procs[j], u)
  BY <1>1 DEF WelcomesComing
<1>. QED
  BY <1>1, <1>2 DEF NobodyForgotten

(* The same, when only process k goes on.                                  *)
LEMMA WelcomesMove ==
    ASSUME WelcomesComing, NobodyForgotten, NEW k \in DOMAIN procs, Elsewhere(k),
           \A u \in Ids : users[u].status = "active" /\ cohort.status = "active" =>
               (WillWelcome(procs[k], u) =>
                   u \in welcomed' \/ \E i \in DOMAIN procs' : WillWelcome(procs'[i], u))
    PROVE  WelcomesComing'
<1>1. ASSUME NEW u \in Ids, NEW j \in DOMAIN procs, j # k, WillWelcome(procs[j], u)
      PROVE  j \in DOMAIN procs' /\ WillWelcome(procs'[j], u)
  BY <1>1 DEF Elsewhere, Kept, WillWelcome
<1>. QED
  BY <1>1, WelcomesKept

(* A process that is to welcome nobody.                                    *)
LEMMA NotGreeting ==
    ASSUME NEW r,
           \/ r.kind \notin Creators \cup {"thread", "status"}
           \/ r.kind \in Creators /\ r.at \notin MakerStates \cup {"onboard"}
           \/ r.kind = "thread" /\ r.at # "welcome"
           \/ r.kind = "status" /\ (r.at \notin {"assign", "list", "loop"} \/ (r.at = "loop" /\ r.todo = {}))
    PROVE  \A u : ~WillWelcome(r, u)
BY DEF WillWelcome, Creators

(* WelcomesComing is inductive: whoever becomes active finds the cohort    *)
(* active, or the activation finds the user.                               *)
LEMMA WelcomesStep ==
    ASSUME Types, OnboardedWelcomed, WelcomesComing, [Next]_vars
    PROVE  WelcomesComing'
<1>1. CASE UNCHANGED vars
  <2>1. UNCHANGED <<cohort, users, aborted, overwritten, procs>> /\ welcomed \subseteq welcomed'
    BY <1>1 DEF vars, documents, ghosts
  <2>. QED
    BY <2>1, NobodyTouched, WelcomesKept
<1>2. CASE Arrive
  <2>1. PICK t : Begun(t)
    BY <1>2, ArriveStep
  <2>2. NobodyForgotten
    BY <2>1, NobodyTouched DEF Begun, documents
  <2>3. ASSUME NEW j \in DOMAIN procs
        PROVE  procs[j].kind = "hour" \/ (j \in DOMAIN procs' /\ procs'[j] = procs[j])
    BY <2>1 DEF Begun, Forked
  <2>4. ASSUME NEW j \in DOMAIN procs, NEW u, WillWelcome(procs[j], u)
        PROVE  j \in DOMAIN procs' /\ WillWelcome(procs'[j], u)
    BY <2>3, <2>4, NotGreeting DEF Creators
  <2>. QED
    BY <2>2, <2>4, WelcomesKept
<1>3. ASSUME NEW u \in Ids, Hour(u)
      PROVE  WelcomesComing'
  <2>1. /\ NobodyForgotten /\ 1 \in DOMAIN procs
        /\ procs[1].kind = "hour" /\ Others(1)
    BY <1>3, HourStep, NobodyTouched DEF documents, ghosts, Types, RequestsWhole, AllWhole
  <2>2. Elsewhere(1)
    BY <2>1 DEF Others, Elsewhere, Kept
  <2>. QED
    BY <2>1, <2>2, NotGreeting, WelcomesMove DEF Creators
<1>4. ASSUME NEW k \in DOMAIN procs, Step(k)
      PROVE  WelcomesComing'
  <2>. DEFINE r == procs[k]
              s == procs'[k]
  <2>1. Elsewhere(k) /\ r \in Requests /\ Whole(r, Len(users), owned) /\ k \in DOMAIN procs'
    BY <1>4, StepElsewhere, StepGoes DEF Elsewhere
  <2>2. CASE Raise(k)
    BY <2>2 DEF Raise, WelcomesComing
  <2>3. ASSUME NobodyForgotten,
               \/ r.kind \notin Creators \cup {"thread", "status"}
               \/ r.kind \in Creators /\ r.at \notin MakerStates \cup {"onboard"}
               \/ r.kind = "thread" /\ r.at # "welcome"
               \/ r.kind = "status" /\ (r.at \notin {"assign", "list", "loop"} \/ (r.at = "loop" /\ r.todo = {}))
        PROVE  WelcomesComing'
    BY <2>1, <2>3, NotGreeting, WelcomesMove
  <2>4. ASSUME NobodyForgotten, Same(r, s), r.kind \in Creators => s.at \in MakerStates \cup {"onboard"},
               r.kind = "thread" => r.at # "welcome",
               r.kind = "status" => s.at \in {"assign", "list"}
        PROVE  WelcomesComing'
    <3>1. ASSUME NEW u \in Ids, WillWelcome(r, u)
          PROVE  WillWelcome(s, u)
      BY <2>4, <3>1 DEF WillWelcome, Same
    <3>. QED
      BY <2>1, <2>4, <3>1, WelcomesMove
  <2>5. CASE Create(k)
    <3>1. ASSUME ~SaveUser(k)
          PROVE  r.kind \in Creators /\ r.at \notin MakerStates \cup {"onboard"}
      <4>1. r.at \in CreatorStates
        BY <2>5, <3>1 DEF Create, TextLookup, PageLookup, NextRow, Buy, Count, Insert, CreatorStates
      <4>. QED
        BY <2>1, <4>1, ZenonT(60) DEF Whole, Place, Creators, CreatorStates, MakerStates
    <3>2. CASE (TextLookup(k) \/ PageLookup(k) \/ NextRow(k) \/ Count(k)) /\ ~SaveUser(k) /\ ~Raise(k)
      <4>1. UNCHANGED <<documents, ghosts>>
        BY <3>2, TextLookupStep, PageLookupStep, NextRowStep, CountStep
      <4>. QED
        BY <2>3, <3>1, <3>2, <4>1, NobodyTouched, SMTT(40) DEF documents, ghosts
    <3>3. CASE Buy(k) /\ ~SaveUser(k) /\ ~Raise(k)
      <4>1. /\ UNCHANGED <<users, welcomed, aborted>> /\ SaveCohort(cohort', r.cohort)
            /\ cohort'.status = r.cohort.status
        BY <3>3, BuyStep
      <4>2. NobodyForgotten
        BY <4>1 DEF NobodyForgotten, SaveCohort, Ids
      <4>. QED
        BY <2>3, <3>1, <3>3, <4>2
    <3>4. CASE Insert(k) /\ ~SaveUser(k)
      <4>. DEFINE n == Len(users) + 1
      <4>1. /\ s.kind \in Creators /\ s.id = n /\ s.at = "schedules"
            /\ Ids' = Ids \cup {n} /\ n \notin Ids
            /\ \A u \in Ids : users'[u] = users[u]
            /\ users'[n] = s.user
            /\ UNCHANGED <<cohort, welcomed, aborted, overwritten>>
        BY <3>4, InsertStep, InsertGoes DEF ghosts
      <4>. SUFFICES ASSUME ~aborted', ~overwritten', cohort'.status = "active",
                           NEW u \in Ids', users'[u].status = "active"
                    PROVE  u \in welcomed' \/ \E i \in DOMAIN procs' : WillWelcome(procs'[i], u)
        BY DEF WelcomesComing, WillWelcome
      <4>2. CASE u = n
        BY <2>1, <4>1, <4>2 DEF WillWelcome, MakerStates
      <4>3. CASE u # n
        <5>1. u \in Ids /\ users[u].status = "active" /\ ~aborted /\ ~overwritten /\ cohort.status = "active"
          BY <4>1, <4>3
        <5>2. u \in welcomed \/ \E j \in DOMAIN procs : WillWelcome(procs[j], u)
          BY <5>1 DEF WelcomesComing
        <5>3. ~WillWelcome(r, u)
          BY <3>1, <3>4, NotGreeting
        <5>4. \A j \in DOMAIN procs : WillWelcome(procs[j], u) => j \in DOMAIN procs' /\ WillWelcome(procs'[j], u)
          BY <2>1, <5>3 DEF Elsewhere, Kept, WillWelcome
        <5>. QED
          BY <4>1, <5>2, <5>4
      <4>. QED
        BY <4>2, <4>3
    <3>5. CASE SaveUser(k)
      <4>1. NobodyForgotten
        <5>1. ~overwritten' => Saved(r).status = users[r.id].status
          <6>1. ~overwritten' => r.user = users[r.id]
            BY <3>5, SaveUserStep
          <6>2. r.user \in Documents
            BY <2>1, <3>5, SaveUserStep DEF Whole, WholeUser
          <6>3. Saved(r).status = r.user.status
            BY <6>2 DEF Saved, Documents
          <6>. QED
            BY <6>1, <6>3
        <5>2. ~overwritten' => \A u \in Ids : users'[u].status = "active" => users[u].status = "active"
          BY <3>5, <5>1, SaveUserStep
        <5>3. UNCHANGED <<cohort, welcomed, aborted>> /\ (overwritten => overwritten') /\ Ids' = Ids
          BY <3>5, SaveUserStep
        <5>. QED
          BY <5>2, <5>3 DEF NobodyForgotten
      <4>2. CASE r.kind = "text"
        BY <2>4, <3>5, <4>1, <4>2, TextSaved
      <4>3. CASE r.kind # "text"
        BY <2>3, <3>5, <4>1, <4>3, SaveUserStep DEF MakerStates, Creators
      <4>. QED
        BY <4>2, <4>3
    <3>. QED
      BY <2>2, <2>5, <3>2, <3>3, <3>4, <3>5 DEF Create
  <2>6. CASE Make(k)
    <3>1. r.kind # "status" /\ (r.kind = "thread" => r.at # "welcome")
      <4>1. r.at \in MakerStates \cup {"create"}
        BY <2>6 DEF Make, InsertSchedule, ListMissing, TestExecution, CreateExecution, MakingDone, AllMade, MakerStates
      <4>. QED
        BY <2>1, <4>1, ZenonT(60) DEF Whole, Place, Creators, Makers, CreatorStates, MakerStates
    <3>2. CASE InsertSchedule(k)
      <4>1. NobodyForgotten /\ r.kind = "schedule"
        BY <3>2, InsertScheduleStep, NobodyTouched DEF ghosts
      <4>. QED
        BY <2>3, <4>1 DEF Creators
    <3>3. CASE ListMissing(k)
      <4>1. NobodyForgotten /\ Same(r, s) /\ s.at = "make"
        BY <3>3, ListMissingStep, ListMissingGoes, NobodyTouched DEF documents, ghosts
      <4>. QED
        BY <2>4, <3>1, <4>1 DEF MakerStates
    <3>4. CASE TestExecution(k) /\ ~Raise(k)
      <4>1. NobodyForgotten /\ Same(r, s) /\ s.at = "create execution"
        BY <3>4, TestExecutionGoes, NobodyTouched DEF documents, ghosts
      <4>. QED
        BY <2>4, <3>1, <4>1 DEF MakerStates
    <3>5. CASE CreateExecution(k)
      <4>1. NobodyForgotten /\ Same(r, s) /\ s.at = "make"
        BY <3>5, CreateExecutionStep, CreateExecutionGoes, NobodyTouched DEF ghosts
      <4>. QED
        BY <2>4, <3>1, <4>1 DEF MakerStates
    <3>6. CASE MakingDone(k)
      <4>1. NobodyForgotten
        BY <3>6, EndStep, NobodyTouched DEF documents, ghosts
      <4>2. r.kind \in {"schedule", "thread", "hour"}
        BY <3>6 DEF MakingDone
      <4>. QED
        BY <2>3, <3>1, <4>1, <4>2 DEF Creators
    <3>. QED
      BY <2>2, <2>6, <3>2, <3>3, <3>4, <3>5, <3>6 DEF Make
  <2>7. CASE Greet(k)
    <3>1. CASE Onboard(k)
      <4>1. /\ NobodyForgotten /\ r.kind \in Creators
            /\ r.user.status = "active" /\ cohort.status = "active" =>
                  \E i \in DOMAIN procs' : procs'[i] = Thread(r.id, k)
        BY <3>1, OnboardStep, NobodyTouched DEF Forked, documents, ghosts
      <4>2. ASSUME NEW u \in Ids, cohort.status = "active", WillWelcome(r, u)
            PROVE  \E i \in DOMAIN procs' : WillWelcome(procs'[i], u)
        <5>1. r.id = u /\ r.user.status = "active"
          BY <4>1, <4>2 DEF WillWelcome, Creators
        <5>2. WillWelcome(Thread(u, k), u)
          BY DEF WillWelcome, Thread, Request
        <5>. QED
          BY <4>1, <4>2, <5>1, <5>2
      <4>. QED
        BY <2>1, <4>1, <4>2, WelcomesMove
    <3>2. CASE Welcome(k)
      <4>1. /\ UNCHANGED <<cohort, users, aborted, overwritten>> /\ r.kind = "thread"
            /\ welcomed' = welcomed \cup {r.id}
        BY <3>2, WelcomeStep DEF documents
      <4>2. NobodyForgotten
        BY <4>1, NobodyTouched
      <4>3. ASSUME NEW u \in Ids, WillWelcome(r, u)
            PROVE  u \in welcomed'
        BY <4>1, <4>3 DEF WillWelcome, Creators
      <4>. QED
        BY <2>1, <4>2, <4>3, WelcomesMove
    <3>3. CASE MarkOnboarded(k)
      <4>1. Marked(k) /\ UNCHANGED <<cohort, welcomed, aborted, overwritten>> /\ r.kind = "thread" /\ r.at = "mark"
        BY <3>3, MarkOnboardedStep DEF ghosts
      <4>2. NobodyForgotten
        BY <4>1 DEF Marked, NobodyForgotten
      <4>. QED
        BY <2>3, <4>1, <4>2
    <3>. QED
      BY <2>7, <3>1, <3>2, <3>3 DEF Greet
  <2>8. CASE Administer(k)
    <3>1. CASE LoadCohort(k) \/ CloseCohort(k) \/ LoadUser(k)
      <4>1. UNCHANGED <<cohort, users, aborted, overwritten, welcomed>>
        BY <3>1, LoadCohortStep, CloseCohortStep, LoadUserStep DEF documents, ghosts
      <4>2. r.kind \notin Creators \cup {"thread", "status"} \/ (r.kind = "status" /\ r.at \notin {"assign", "list", "loop"})
        BY <3>1, <2>1 DEF LoadCohort, LoadUser, CloseCohort, Whole, Place, Creators, Makers, CreatorStates, MakerStates
      <4>. QED
        BY <2>3, <4>1, <4>2, NobodyTouched, SMTT(40)
    <3>2. CASE ModifyCohort(k)
      <4>1. /\ UNCHANGED <<users, welcomed, aborted>> /\ SaveCohort(r.cohort, r.cohort) /\ r.kind = "modify"
        BY <3>2, ModifyCohortStep
      <4>2. NobodyForgotten
        BY <4>1 DEF NobodyForgotten, SaveCohort, Ids
      <4>. QED
        BY <2>3, <4>1, <4>2 DEF Creators
    <3>3. CASE SetCohortStatus(k)
      <4>. DEFINE c == [r.cohort EXCEPT !.status = r.new]
      <4>1. /\ UNCHANGED <<users, welcomed, aborted>> /\ r.kind \in {"status", "close"} /\ r.at = "status"
            /\ c.status = r.new
            /\ IF c = r.cohort THEN UNCHANGED <<cohort, overwritten>> ELSE SaveCohort(c, r.cohort)
        BY <3>3, SetCohortStatusStep
      <4>. HIDE DEF c
      <4>2. CASE r.new # "active"
        <5>1. NobodyForgotten
          BY <4>1, <4>2 DEF NobodyForgotten, SaveCohort, Ids
        <5>. QED
          BY <2>3, <4>1, <5>1 DEF Creators
      <4>3. CASE r.new = "active"
        <5>1. r.kind = "status"
          BY <2>1, <4>1, <4>3 DEF Whole
        <5>2. s.kind = "status" /\ s.new = "active" /\ s.at \in {"assign", "list"}
          BY <3>3, <4>3, <5>1, SetCohortStatusGoes DEF Same
        <5>3. \A u : WillWelcome(s, u)
          BY <5>2 DEF WillWelcome
        <5>. QED
          BY <2>1, <5>3 DEF WelcomesComing
      <4>. QED
        BY <4>2, <4>3
    <3>4. CASE AssignNumber(k)
      <4>1. NumberAssigned(k) /\ Same(r, s) /\ s.at = "assign" /\ r.kind = "status"
        BY <3>4, AssignNumberStep, AssignNumberGoes DEF NumberAssigned
      <4>2. UNCHANGED <<aborted, welcomed>> /\ Ids' = Ids /\ \A u \in Ids : users'[u].status = users[u].status
        BY <4>1 DEF NumberAssigned
      <4>3. /\ overwritten => overwritten'
            /\ ~overwritten' /\ cohort'.status = "active" => cohort.status = "active"
        <5>1. \/ UNCHANGED <<cohort, overwritten>>
              \/ SaveCohort(cohort', r.cohort) /\ cohort'.status = r.cohort.status
          BY <4>1 DEF NumberAssigned
        <5>2. CASE UNCHANGED <<cohort, overwritten>>
          BY <5>2
        <5>3. CASE SaveCohort(cohort', r.cohort) /\ cohort'.status = r.cohort.status
          <6>1. overwritten' = (overwritten \/ cohort # r.cohort)
            BY <5>3 DEF SaveCohort
          <6>. QED
            BY <5>3, <6>1
        <5>. QED
          BY <5>1, <5>2, <5>3
      <4>4. NobodyForgotten
        BY <4>2, <4>3 DEF NobodyForgotten
      <4>. QED
        BY <2>4, <4>1, <4>4, SMTT(40) DEF Creators
    <3>5. CASE AssignFails(k)
      BY <2>2, <3>5 DEF AssignFails
    <3>6. CASE ListUsers(k)
      <4>1. NobodyForgotten /\ UNCHANGED <<welcomed>> /\ r.at \in {"list", "assign"}
        BY <3>6, ListUsersStep, NobodyTouched DEF documents, ghosts
      <4>2. r.kind = "status"
        BY <2>1, <4>1 DEF Whole, Place, Creators, Makers, CreatorStates, MakerStates
      <4>3. /\ s.kind = r.kind /\ s.new = r.new /\ s.at = "loop"
            /\ s.todo = IF r.new = "active" THEN NotOnboarded ELSE {}
        BY <3>6, ListUsersGoes DEF Same
      <4>4. ASSUME NEW u \in Ids, users[u].status = "active", WillWelcome(r, u)
            PROVE  u \in welcomed' \/ WillWelcome(s, u)
        <5>1. r.new = "active"
          BY <4>2, <4>4 DEF WillWelcome, Creators
        <5>2. CASE users[u].onboarded
          BY <4>1, <5>2 DEF OnboardedWelcomed
        <5>3. CASE ~users[u].onboarded
          <6>1. u \in NotOnboarded
            BY <4>4, <5>3 DEF NotOnboarded
          <6>. QED
            BY <4>2, <4>3, <5>1, <6>1 DEF WillWelcome
        <5>. QED
          BY <5>2, <5>3
      <4>. QED
        BY <2>1, <4>1, <4>4, WelcomesMove
    <3>7. CASE OnboardListed(k)
      <4>1. NobodyForgotten /\ r.kind = "status" /\ r.at = "loop"
        BY <3>7, OnboardListedStep, NobodyTouched DEF documents, ghosts
      <4>2. Same(r, s) /\ s.at = "loop"
        BY <3>7, OnboardListedGoes
      <4>3. PICK v \in r.todo :
               /\ s.todo = r.todo \ {v}
               /\ cohort.status = "active" => \E j \in DOMAIN procs' : procs'[j] = Thread(v, k)
        BY <3>7, OnboardListedGoes
      <4>4. ASSUME NEW u \in Ids, cohort.status = "active", WillWelcome(r, u)
            PROVE  \E i \in DOMAIN procs' : WillWelcome(procs'[i], u)
        <5>1. CASE u = v
          <6>1. WillWelcome(Thread(v, k), u)
            BY <5>1 DEF WillWelcome, Thread, Request
          <6>. QED
            BY <4>3, <4>4, <6>1
        <5>2. CASE u # v
          <6>1. WillWelcome(s, u)
            BY <4>1, <4>2, <4>3, <4>4, <5>2 DEF WillWelcome, Same, Creators
          <6>. QED
            BY <2>1, <6>1
        <5>. QED
          BY <5>1, <5>2
      <4>. QED
        BY <2>1, <4>1, <4>4, WelcomesMove
    <3>8. CASE StatusDone(k)
      <4>1. NobodyForgotten
        BY <3>8, EndStep, NobodyTouched DEF documents, ghosts
      <4>2. r.at = "loop" /\ r.todo = {}
        BY <3>8 DEF StatusDone
      <4>3. r.kind = "status"
        BY <2>1, <4>2 DEF Whole, Place, Creators, Makers, CreatorStates, MakerStates
      <4>. QED
        BY <2>3, <4>1, <4>2, <4>3
    <3>9. CASE DeleteUser(k)
      <4>1. NobodyForgotten /\ r.kind = "delete"
        BY <3>9, DeleteUserStep DEF NobodyForgotten
      <4>. QED
        BY <2>3, <4>1 DEF Creators
    <3>. QED
      BY <2>8, <3>1, <3>2, <3>3, <3>4, <3>5, <3>6, <3>7, <3>8, <3>9 DEF Administer
  <2>. QED
    BY <1>4, <2>5, <2>6, <2>7, <2>8 DEF Step
<1>. QED
  BY <1>1, <1>2, <1>3, <1>4 DEF Next

(* ActiveUsersAreWelcomed: the property ActiveUserIsWelcomed.  Of the      *)
(* creation of a user (onboard_user) and the activation of the cohort      *)
(* (change_cohort_status), one begins the onboarding thread of the user,   *)
(* unless an exception or an overwriting save came between.                *)
THEOREM ActiveUsersAreWelcomed == Spec => []ActiveUserIsWelcomed
<1>1. Init => Types /\ OnboardedWelcomed /\ WelcomesComing
  <2>1. ASSUME Init
        PROVE  OnboardedWelcomed /\ WelcomesComing
    <3>1. users = <<>> /\ procs = <<Hourly>>
      BY <2>1 DEF Init
    <3>2. Ids = {} /\ \A k \in DOMAIN procs : procs[k] = Hourly
      BY <3>1 DEF Ids
    <3>3. \A w : WelcomedFirst(Hourly, w)
      BY NoUserYet DEF HasUser, Hourly, Request, Creators, MakerStates
    <3>. QED
      BY <3>2, <3>3 DEF OnboardedWelcomed, WelcomesComing
  <2>. QED
    BY <2>1, InitTypes
<1>2. Types /\ OnboardedWelcomed /\ WelcomesComing /\ [Next]_vars =>
          Types' /\ OnboardedWelcomed' /\ WelcomesComing'
  BY NextTypes, OnboardedStep, WelcomesStep
<1>3. WelcomesComing => ActiveUserIsWelcomed
  <2>. SUFFICES ASSUME WelcomesComing, AtRest, ~aborted, ~overwritten, cohort.status = "active",
                       NEW u \in Ids, users[u].status = "active"
                PROVE  u \in welcomed
    BY DEF ActiveUserIsWelcomed
  <2>1. ASSUME NEW k \in DOMAIN procs
        PROVE  ~WillWelcome(procs[k], u)
    BY DEF AtRest, WillWelcome, Creators, MakerStates
  <2>. QED
    BY <2>1 DEF WelcomesComing
<1>. QED
  BY <1>1, <1>2, <1>3, PTL DEF Spec
=============================================================================
