----------------------- MODULE CustomAttributesProofs -----------------------
(***************************************************************************)
(* Proofs about CustomAttributes: that users have the attributes of their  *)
(* cohort, that surveys name attributes there are, and that a survey finds *)
(* the attributes it merges, for any number of names, users, pages and     *)
(* surveys.                                                                *)
(***************************************************************************)
EXTENDS CustomAttributes, TLAPS, SequenceTheorems, WellFoundedInduction

(* The attributes of a cohort or a user, with their values.                *)
Attributes == UNION {[S -> Values] : S \in SUBSET Names}

(* What is listed of a user: the number and the attributes.                *)
Entries == Nat \X Attributes

(* Where a process may be.                                                 *)
RequestStates ==
    {"attribute", "users", "default", "rename", "copy", "load_item", "save_item", "remove", "set",
     "row", "load", "insert", "defaults", "item", "set_attribute", "test", "send"}

(* The kinds of processes.                                                 *)
RequestKinds ==
    {"create_attribute", "edit_attribute", "edit_user", "create_user", "upload", "modify_item", "survey"}

(* The processes.                                                          *)
Requests ==
    [kind : RequestKinds, at : RequestStates, cohort : Attributes, name : Names, new : Names,
     list : Seq(Entries), user : Nat, copy : Attributes \cup Names, items : Seq(Documents),
     compared : Names]

(* From the renaming in the cohort to its end.                             *)
Copying == {"copy", "load_item", "save_item"}
(* From the renaming in the cohort to the end.                             *)
Past == Copying \cup {"remove"}

(* Where a process of each kind may be.                                    *)
Place(kind, at) ==
    \/ kind \in {"create_attribute", "upload"} /\ at \in {"attribute", "users"}
    \/ kind = "edit_attribute" /\ at \in {"default", "rename"} \cup Past
    \/ kind \in {"edit_user", "upload"} /\ at = "set"
    \/ kind = "upload" /\ at = "row"
    \/ kind \in MakeUser /\ at \in {"load", "insert"}
    \/ kind = "create_user" /\ at = "defaults"
    \/ kind = "modify_item" /\ at = "item"
    \/ kind = "survey" /\ at \in {"set_attribute", "test", "send"}

(* Where a process works on a user.                                        *)
HasUser(p) == p.at \in {"set", "defaults", "set_attribute", "test", "send"}

(* How many of the users on its list a renaming has copied.                *)
Within(p) == p.user \in 0 .. Len(p.list)

(* What holds of a process when there are n users.                         *)
Whole(p, n) ==
    /\ p \in Requests /\ Place(p.kind, p.at)
    /\ p.at \notin {"load_item", "save_item", "remove"} => p.copy \in Attributes
    /\ p.at \in {"save_item", "item"} => p.items # <<>>
    /\ HasUser(p) => p.user \in 1 .. n
    /\ p.kind = "upload" => p.user \in 0 .. n
    /\ p.at = "default" => p.name \in DOMAIN p.cohort
    /\ p.at = "rename" => p.user = 0 /\ p.name \in DOMAIN p.cohort /\ p.new \notin DOMAIN p.cohort
    /\ p.at \in Past => p.name # p.new
    /\ p.at = "copy" => Within(p)
    /\ \A i \in DOMAIN p.list : p.list[i][1] \in 1 .. n

(* The types of the marks.                                                 *)
AllMarks ==
    [stale : BOOLEAN, raised : SUBSET RequestKinds, met : SUBSET SUBSET RequestKinds,
     again : BOOLEAN, away : SUBSET Names, name : Names, told : Values]

(* The types, and what holds of every process.                             *)
Types ==
    /\ cohort \in Attributes
    /\ users \in Seq(Attributes) /\ Len(users) \in 1 .. MaxUsers
    /\ items \in [Items -> Names]
    /\ procs \in Seq(Requests \cup {Done})
    /\ \A k \in Working : Whole(procs[k], Len(users))
    /\ pages \in Nat /\ surveys \in Nat
    /\ marks \in AllMarks
-----------------------------------------------------------------------------
(* Attributes.                                                             *)
LEMMA AttributesType ==
    ASSUME NEW c \in Attributes
    PROVE  /\ DOMAIN c \subseteq Names /\ Range(c) \subseteq Values
           /\ \A n \in DOMAIN c : c[n] \in Values
           /\ c = [n \in DOMAIN c |-> c[n]]
  BY DEF Attributes, Range

(* A function of names to values is the attributes of somebody.            *)
LEMMA IsAttributes ==
    ASSUME NEW S \in SUBSET Names, NEW f \in [S -> Values]
    PROVE  f \in Attributes
  BY DEF Attributes

(* An attribute more.                                                      *)
LEMMA WithType ==
    ASSUME NEW c \in Attributes, NEW n \in Names, NEW v \in Values
    PROVE  With(c, n, v) \in Attributes /\ DOMAIN With(c, n, v) = DOMAIN c \cup {n}
<1>1. DOMAIN c \cup {n} \in SUBSET Names /\ \A m \in DOMAIN c : c[m] \in Values
  BY AttributesType
<1>2. With(c, n, v) \in [DOMAIN c \cup {n} -> Values]
  BY <1>1 DEF With
<1>. QED
  BY <1>1, <1>2, IsAttributes

(* An attribute less.                                                      *)
LEMMA DropType ==
    ASSUME NEW c \in Attributes, NEW n
    PROVE  Drop(c, n) \in Attributes /\ DOMAIN Drop(c, n) = DOMAIN c \ {n}
<1>1. DOMAIN c \ {n} \in SUBSET Names /\ \A m \in DOMAIN c : c[m] \in Values
  BY AttributesType
<1>2. Drop(c, n) \in [DOMAIN c \ {n} -> Values]
  BY <1>1 DEF Drop
<1>. QED
  BY <1>1, <1>2, IsAttributes

(* A renamed attribute: the new name is there, the old one is not.         *)
LEMMA RenamedType ==
    ASSUME NEW c \in Attributes, NEW n \in Names, NEW m \in Names, n \in DOMAIN c, NEW d, d = Renamed(c, n, m)
    PROVE  d \in Attributes /\ DOMAIN d = (DOMAIN c \ {n}) \cup {m}
<1>1. c[n] \in Values
  BY AttributesType
<1>2. Drop(c, n) \in Attributes /\ DOMAIN Drop(c, n) = DOMAIN c \ {n}
  BY DropType
<1>3. /\ With(Drop(c, n), m, c[n]) \in Attributes
      /\ DOMAIN With(Drop(c, n), m, c[n]) = DOMAIN Drop(c, n) \cup {m}
  BY <1>1, <1>2, WithType
<1>. QED
  BY <1>2, <1>3 DEF Renamed

(* A copied attribute: both names are there.                               *)
LEMMA CopiedType ==
    ASSUME NEW c \in Attributes, NEW n \in Names, NEW m \in Names, n \in DOMAIN c, NEW d, d = Copied(c, n, m)
    PROVE  d \in Attributes /\ DOMAIN d = DOMAIN c \cup {m}
<1>1. c[n] \in Values
  BY AttributesType
<1>. QED
  BY <1>1, WithType DEF Copied

(* No attributes at all.                                                   *)
LEMMA NoAttributes == <<>> \in Attributes
<1>1. <<>> \in [{} -> Values]
  OBVIOUS
<1>. QED
  BY <1>1, IsAttributes

(* The least of a set of naturals is in it (by well-founded induction).    *)
LEMMA LeastIsMember ==
    ASSUME NEW T, T \subseteq Nat, T # {}
    PROVE  Min(T) \in T
<1>. DEFINE L == OpToRel(<, Nat)
<1>1. IsWellFoundedOn(L, Nat)
  BY NatLessThanWellFounded
<1>2. \A x, y \in Nat : x < y => <<x, y>> \in L
  BY DEF OpToRel
<1>. HIDE DEF L
<1>3. PICK x \in T : \A y \in T : <<y, x>> \notin L
  BY <1>1, WFMin
<1>4. \A y \in T : x <= y
  <2>1. \A y \in T : y \in Nat /\ x \in Nat
    OBVIOUS
  <2>2. \A y \in T : ~(y < x)
    BY <1>2, <1>3, <2>1
  <2>. QED
    BY <2>1, <2>2
<1>. QED
  BY <1>4 DEF Min
-----------------------------------------------------------------------------
(* The fields of a process.                                                *)
LEMMA Fields ==
    ASSUME NEW p \in Requests
    PROVE  /\ p.kind \in RequestKinds /\ p.at \in RequestStates /\ p.cohort \in Attributes
           /\ p.name \in Names /\ p.new \in Names /\ p.list \in Seq(Entries) /\ p.user \in Nat
           /\ p.copy \in Attributes \cup Names /\ p.items \in Seq(Documents)
           /\ p.compared \in Names
           /\ p = [kind |-> p.kind, at |-> p.at, cohort |-> p.cohort, name |-> p.name, new |-> p.new,
                   list |-> p.list, user |-> p.user, copy |-> p.copy, items |-> p.items,
                   compared |-> p.compared]
  BY DEF Requests

(* What a process finds: its own record.                                   *)
LEMMA Itself ==
    ASSUME Types, NEW k \in DOMAIN procs, procs[k].at # "done"
    PROVE  k \in Working /\ procs[k] \in Requests /\ Whole(procs[k], Len(users)) /\ procs[k].kind # "done"
<1>1. procs[k] \in Requests \cup {Done}
  BY DEF Types
<1>2. procs[k] # Done
  BY DEF Done
<1>3. procs[k] \in Requests /\ procs[k].kind # "done"
  BY <1>1, <1>2 DEF Requests, RequestKinds
<1>. QED
  BY <1>3 DEF Types, Working

(* A step of process k leaves the others alone.                            *)
LEMMA Alone ==
    ASSUME Types, NEW k \in DOMAIN procs, NEW q, Becomes(k, q)
    PROVE  /\ DOMAIN procs' = DOMAIN procs /\ procs'[k] = q
           /\ \A j \in DOMAIN procs \ {k} : procs'[j] = procs[j]
           /\ q \in Requests \cup {Done} => procs' \in Seq(Requests \cup {Done})
  BY DEF Becomes, Types

(* A process that is whole remains so when users are added.                *)
LEMMA WholeRemains ==
    ASSUME NEW m \in Nat, NEW n \in Nat, m <= n, NEW p, Whole(p, m)
    PROVE  Whole(p, n)
<1>1. 1 .. m \subseteq 1 .. n /\ 0 .. m \subseteq 0 .. n
  OBVIOUS
<1>2. /\ HasUser(p) => p.user \in 1 .. n
      /\ p.kind = "upload" => p.user \in 0 .. n
      /\ \A i \in DOMAIN p.list : p.list[i][1] \in 1 .. n
  BY <1>1 DEF Whole
<1>. QED
  BY <1>2, Zenon DEF Whole

(* The types are kept when those of the documents and the process are, and *)
(* no user goes.                                                           *)
LEMMA TypesKept ==
    ASSUME Types, NEW k \in DOMAIN procs, NEW q, Becomes(k, q),
           q = Done \/ Whole(q, Len(users')),
           cohort' \in Attributes, users' \in Seq(Attributes), Len(users') \in Len(users) .. MaxUsers,
           items' \in [Items -> Names], counts' = counts, marks' \in AllMarks
    PROVE  Types'
<1>1. q \in Requests \cup {Done}
  BY DEF Whole
<1>2. /\ DOMAIN procs' = DOMAIN procs /\ procs'[k] = q
      /\ \A j \in DOMAIN procs \ {k} : procs'[j] = procs[j]
      /\ procs' \in Seq(Requests \cup {Done})
  BY <1>1, Alone
<1>3. Len(users) \in Nat /\ Len(users') \in Nat /\ Len(users) <= Len(users')
  BY DEF Types
<1>4. ASSUME NEW j \in Working'
      PROVE  Whole(procs'[j], Len(users'))
  <2>1. CASE j = k
    BY <1>2, <1>4, <2>1 DEF Working, Done
  <2>2. CASE j # k
    <3>1. j \in Working /\ procs'[j] = procs[j]
      BY <1>2, <1>4, <2>2 DEF Working
    <3>2. Whole(procs[j], Len(users))
      BY <3>1 DEF Types
    <3>. QED
      BY <1>3, <3>1, <3>2, WholeRemains
  <2>. QED
    BY <2>1, <2>2
<1>5. Len(users') \in 1 .. MaxUsers /\ pages' \in Nat /\ surveys' \in Nat
  BY <1>3 DEF Types, counts
<1>. QED
  BY <1>2, <1>4, <1>5 DEF Types
(* So they are when no user is touched.                                    *)
LEMMA TypesStay ==
    ASSUME Types, NEW k \in DOMAIN procs, NEW q, Becomes(k, q), q = Done \/ Whole(q, Len(users)),
           cohort' \in Attributes, users' = users, items' \in [Items -> Names], counts' = counts,
           marks' \in AllMarks
    PROVE  Types'
<1>1. users' \in Seq(Attributes) /\ Len(users') \in Len(users) .. MaxUsers /\ Len(users') = Len(users)
  BY DEF Types
<1>. QED
  BY <1>1, TypesKept
-----------------------------------------------------------------------------
(* A step leaves all processes but k alone.                                *)
Others(k) == DOMAIN procs' = DOMAIN procs /\ \A j \in DOMAIN procs \ {k} : procs'[j] = procs[j]

(* Nothing that the properties excuse is forgotten, and nothing new but a  *)
(* save of an older copy.                                                  *)
Quiet ==
    /\ marks'.met = marks.met /\ marks'.again = marks.again /\ marks'.raised = marks.raised
    /\ marks.stale => marks'.stale

(* The list of all users.                                                  *)
LEMMA AllListed ==
    ASSUME Types
    PROVE  /\ AllUsers \in Seq(Entries) /\ DOMAIN AllUsers = DOMAIN users
           /\ \A u \in DOMAIN users : AllUsers[u] = <<u, users[u]>>
           /\ DOMAIN users = 1 .. Len(users) /\ Len(users) \in Nat /\ Len(AllUsers) = Len(users)
<1>1. /\ Len(users) \in Nat /\ DOMAIN users = 1 .. Len(users)
      /\ \A u \in DOMAIN users : users[u] \in Attributes
  BY DEF Types
<1>2. AllUsers \in [1 .. Len(users) -> Entries]
  BY <1>1 DEF AllUsers, Entries
<1>3. AllUsers \in Seq(Entries)
  BY <1>1, <1>2, SeqDef
<1>. QED
  BY <1>1, <1>3 DEF AllUsers

(* A list without its first entry.                                         *)
LEMMA ShorterList ==
    ASSUME NEW S, NEW list \in Seq(S), list # <<>>
    PROVE  /\ Tail(list) \in Seq(S) /\ Head(list) = list[1] /\ 1 \in DOMAIN list /\ list[1] \in S
           /\ \A i \in DOMAIN Tail(list) : i + 1 \in DOMAIN list /\ Tail(list)[i] = list[i + 1]
           /\ \A i \in DOMAIN list \ {1} : i - 1 \in DOMAIN Tail(list) /\ Tail(list)[i - 1] = list[i]
  OBVIOUS

(* The cohort has the new attribute, and all users are listed.             *)
LEMMA AddToCohortStep ==
    ASSUME Types, NEW k \in DOMAIN procs, AddToCohort(k)
    PROVE  /\ Types' /\ Others(k) /\ Quiet /\ k \in Working
           /\ procs[k].at = "attribute" /\ procs[k].kind \in {"create_attribute", "upload"}
           /\ procs'[k].kind = procs[k].kind /\ procs'[k].at = "users"
           /\ procs'[k].new = procs[k].new /\ procs'[k].list = AllUsers
           /\ DOMAIN cohort' = DOMAIN procs[k].cohort \cup {procs[k].new}
           /\ ~marks'.stale => cohort = procs[k].cohort
           /\ users' = users /\ items' = items
<1>. DEFINE r == procs[k]
            q == [r EXCEPT !.at = "users", !.list = AllUsers]
<1>1. r.at = "attribute" /\ k \in Working /\ r \in Requests /\ Whole(r, Len(users))
  BY Itself DEF AddToCohort, At
<1>2. /\ r.kind \in {"create_attribute", "upload"} /\ r.copy \in Attributes
      /\ r.kind = "upload" => r.user \in 0 .. Len(users)
      /\ \A i \in DOMAIN r.list : r.list[i][1] \in 1 .. Len(users)
  BY <1>1 DEF Whole, Place, MakeUser, Past, Copying
<1>3. /\ q \in Requests /\ q.kind = r.kind /\ q.at = "users" /\ q.new = r.new /\ q.list = AllUsers
      /\ q.copy = r.copy /\ q.user = r.user
  BY <1>1, AllListed, Fields DEF Requests, RequestStates
<1>4. Becomes(k, q) /\ SaveCohort(With(r.cohort, r.new, "default"), r.cohort)
      /\ users' = users /\ items' = items /\ counts' = counts
  BY DEF AddToCohort
<1>. HIDE DEF q
<1>5. Whole(q, Len(users))
  <2>1. \A i \in DOMAIN q.list : q.list[i][1] \in 1 .. Len(users)
    BY <1>3, AllListed
  <2>. QED
    BY <1>2, <1>3, <2>1 DEF Whole, Place, HasUser, Past, Copying
<1>6. cohort' \in Attributes /\ DOMAIN cohort' = DOMAIN r.cohort \cup {r.new}
  BY <1>1, <1>4, Fields, WithType DEF SaveCohort, Values
<1>7. marks' \in AllMarks /\ Quiet /\ (~marks'.stale => cohort = r.cohort)
  BY <1>4 DEF SaveCohort, Types, AllMarks, Quiet
<1>8. Types'
  BY <1>4, <1>5, <1>6, <1>7, TypesStay DEF Types
<1>. QED
  BY <1>1, <1>2, <1>3, <1>4, <1>6, <1>7, <1>8, Alone DEF Others

(* Kind and names are those the page was asked for.                        *)
Same(r, q) == q.kind = r.kind /\ q.name = r.name /\ q.new = r.new

(* All users on the list were given the attribute.                         *)
LEMMA AddedToUsersStep ==
    ASSUME Types, NEW k \in DOMAIN procs, AddedToUsers(k)
    PROVE  /\ Types' /\ Others(k) /\ Quiet /\ k \in Working /\ UNCHANGED documents
           /\ procs[k].at = "users" /\ procs[k].list = <<>> /\ marks' = marks
           /\ \/ procs'[k] = Done
              \/ procs[k].kind = "upload" /\ Same(procs[k], procs'[k]) /\ procs'[k].at = "row"
<1>. DEFINE r == procs[k]
            q == [r EXCEPT !.at = "row"]
<1>1. r.at = "users" /\ r.list = <<>> /\ k \in Working /\ r \in Requests /\ Whole(r, Len(users))
  BY Itself DEF AddedToUsers, At
<1>2. /\ r.kind \in {"create_attribute", "upload"} /\ r.copy \in Attributes
      /\ r.kind = "upload" => r.user \in 0 .. Len(users)
      /\ \A i \in DOMAIN r.list : r.list[i][1] \in 1 .. Len(users)
  BY <1>1 DEF Whole, Place, MakeUser, Past, Copying
<1>3. q \in Requests /\ Same(r, q) /\ q.at = "row" /\ q.copy = r.copy /\ q.list = r.list /\ q.user = r.user
  BY <1>1, Fields DEF Requests, RequestStates, Same
<1>4. /\ Becomes(k, Done) \/ (r.kind = "upload" /\ Becomes(k, q))
      /\ UNCHANGED <<documents, counts, marks>>
  BY DEF AddedToUsers, End
<1>. HIDE DEF q
<1>5. r.kind = "upload" => Whole(q, Len(users))
  BY <1>2, <1>3 DEF Whole, Place, HasUser, Past, Copying, Same
<1>6. Types'
  <2>1. cohort' = cohort /\ users' = users /\ items' = items /\ marks' = marks /\ counts' = counts
    BY <1>4 DEF documents
  <2>. QED
    BY <1>4, <1>5, <2>1, TypesStay DEF Types
<1>7. procs'[k] = Done \/ (r.kind = "upload" /\ procs'[k] = q)
  BY <1>4, Alone
<1>8. Others(k)
  BY <1>4, Alone DEF Others
<1>. QED
  BY <1>1, <1>3, <1>4, <1>6, <1>7, <1>8 DEF Quiet

(* A default is changed, and no name.                                      *)
LEMMA ChangeDefaultStep ==
    ASSUME Types, NEW k \in DOMAIN procs, ChangeDefault(k)
    PROVE  /\ Types' /\ Others(k) /\ Quiet /\ k \in Working /\ procs'[k] = Done
           /\ procs[k].at = "default" /\ procs[k].kind = "edit_attribute"
           /\ ~marks'.stale => DOMAIN cohort' = DOMAIN cohort
           /\ users' = users /\ items' = items
<1>. DEFINE r == procs[k]
<1>1. r.at = "default" /\ k \in Working /\ r \in Requests /\ Whole(r, Len(users))
  BY Itself DEF ChangeDefault, At
<1>2. r.kind = "edit_attribute"
  BY <1>1 DEF Whole, Place, MakeUser, Past, Copying
<1>3. r.name \in DOMAIN r.cohort
  BY <1>1, Zenon DEF Whole
<1>4. /\ Becomes(k, Done) /\ SaveCohort(With(r.cohort, r.name, "new_default"), r.cohort)
      /\ users' = users /\ items' = items /\ counts' = counts
  BY DEF ChangeDefault, End
<1>6. cohort' \in Attributes /\ DOMAIN cohort' = DOMAIN r.cohort \cup {r.name}
  BY <1>1, <1>4, Fields, WithType DEF SaveCohort, Values
<1>7. marks' \in AllMarks /\ Quiet /\ (~marks'.stale => cohort = r.cohort)
  BY <1>4 DEF SaveCohort, Types, AllMarks, Quiet
<1>8. Types'
  BY <1>4, <1>6, <1>7, TypesStay DEF Types
<1>9. ~marks'.stale => DOMAIN cohort' = DOMAIN cohort
  BY <1>3, <1>6, <1>7
<1>. QED
  BY <1>1, <1>2, <1>4, <1>7, <1>8, <1>9, Alone DEF Others

(* The cohort has the new name for the old, and all users are listed.      *)
LEMMA RenameInCohortStep ==
    ASSUME Types, NEW k \in DOMAIN procs, RenameInCohort(k)
    PROVE  /\ Types' /\ Others(k) /\ Quiet /\ k \in Working
           /\ procs[k].at = "rename" /\ procs[k].kind = "edit_attribute"
           /\ Same(procs[k], procs'[k]) /\ procs'[k].at = "copy"
           /\ procs'[k].list = AllUsers /\ procs'[k].user = procs[k].user
           /\ DOMAIN cohort' = (DOMAIN procs[k].cohort \ {procs[k].name}) \cup {procs[k].new}
           /\ procs[k].name \in DOMAIN procs[k].cohort /\ procs[k].new \notin DOMAIN procs[k].cohort
           /\ ~marks'.stale => cohort = procs[k].cohort
           /\ users' = users /\ items' = items
<1>. DEFINE r == procs[k]
            q == [r EXCEPT !.at = "copy", !.list = AllUsers]
<1>1. r.at = "rename" /\ k \in Working /\ r \in Requests /\ Whole(r, Len(users))
  BY Itself DEF RenameInCohort, At
<1>2. r.kind = "edit_attribute" /\ r.copy \in Attributes /\ r.user = 0
  BY <1>1 DEF Whole, Place, MakeUser, Past, Copying
<1>9. r.name \in DOMAIN r.cohort /\ r.new \notin DOMAIN r.cohort
  BY <1>1, Zenon DEF Whole
<1>10. r.name # r.new
  BY <1>9, Zenon
<1>3. /\ q \in Requests /\ Same(r, q) /\ q.at = "copy" /\ q.list = AllUsers /\ q.copy = r.copy
      /\ q.user = r.user
  BY <1>1, AllListed, Fields DEF Requests, RequestStates, Same
<1>4. /\ Becomes(k, q) /\ cohort' = Renamed(r.cohort, r.name, r.new)
      /\ marks' = [marks EXCEPT !.stale = @ \/ cohort # r.cohort,
                                !.away = @ \cup {r.name},
                                !.name = IF @ = r.name THEN r.new ELSE @]
      /\ users' = users /\ items' = items /\ counts' = counts
  BY DEF RenameInCohort
<1>. HIDE DEF q
<1>5. Whole(q, Len(users))
  <2>1. \A i \in DOMAIN q.list : q.list[i][1] \in 1 .. Len(users)
    BY <1>3, AllListed
  <2>2. Within(q)
    <3>1. 0 \in 0 .. Len(AllUsers)
      BY AllListed
    <3>2. q.user = 0 /\ q.list = AllUsers
      BY <1>2, <1>3
    <3>. QED
      BY <3>1, <3>2, Zenon DEF Within
  <2>. QED
    BY <1>2, <1>3, <1>10, <2>1, <2>2 DEF Whole, Place, HasUser, Past, Copying, Same
<1>6. /\ cohort' \in Attributes
      /\ DOMAIN cohort' = (DOMAIN r.cohort \ {r.name}) \cup {r.new}
  <2>1. r.cohort \in Attributes /\ r.name \in Names /\ r.new \in Names
    BY <1>1, Fields
  <2>2. cohort' = Renamed(r.cohort, r.name, r.new)
    BY <1>4
  <2>. DEFINE c == r.cohort
              n == r.name
              m == r.new
  <2>3. c \in Attributes /\ n \in DOMAIN c /\ n \in Names /\ m \in Names /\ cohort' = Renamed(c, n, m)
    BY <1>9, <2>1, <2>2, Zenon
  <2>. HIDE DEF c, n, m
  <2>4. cohort' \in Attributes /\ DOMAIN cohort' = (DOMAIN c \ {n}) \cup {m}
    BY <2>3, RenamedType
  <2>. QED
    BY <2>4 DEF c, n, m
<1>7. marks' \in AllMarks /\ Quiet /\ (~marks'.stale => cohort = r.cohort)
  BY <1>1, <1>4, Fields DEF Types, AllMarks, Quiet
<1>8. Types'
  BY <1>4, <1>5, <1>6, <1>7, TypesStay DEF Types
<1>. QED
  BY <1>1, <1>2, <1>3, <1>4, <1>6, <1>7, <1>8, <1>9, Alone DEF Others
-----------------------------------------------------------------------------
(* An entry of a list is a user there is, and what was loaded of it.       *)
LEMMA Listed ==
    ASSUME Types, NEW k \in Working, NEW i \in DOMAIN procs[k].list
    PROVE  /\ procs[k].list[i][1] \in DOMAIN users /\ procs[k].list[i][2] \in Attributes
           /\ procs[k].list[i] = <<procs[k].list[i][1], procs[k].list[i][2]>>
<1>1. procs[k] \in Requests /\ procs[k].list[i][1] \in 1 .. Len(users)
  BY DEF Types, Whole
<1>2. procs[k].list \in Seq(Entries)
  BY <1>1, Fields
<1>3. procs[k].list[i] \in Entries
  BY <1>2
<1>. QED
  BY <1>1, <1>3 DEF Entries, Types

(* save() of a user.                                                       *)
LEMMA UserSaved ==
    ASSUME Types, NEW u \in DOMAIN users, NEW new \in Attributes, NEW copy, SaveUser(u, new, copy)
    PROVE  /\ users' \in Seq(Attributes) /\ Len(users') = Len(users) /\ DOMAIN users' = DOMAIN users
           /\ users'[u] = new /\ \A v \in DOMAIN users \ {u} : users'[v] = users[v]
           /\ marks' \in AllMarks /\ Quiet /\ (~marks'.stale => users[u] = copy)
<1>1. /\ users' = [users EXCEPT ![u] = new] /\ users \in Seq(Attributes)
      /\ marks' = [marks EXCEPT !.stale = @ \/ users[u] # copy] /\ marks \in AllMarks
  BY DEF SaveUser, Types
<1>2. marks' \in AllMarks /\ Quiet /\ (~marks'.stale => users[u] = copy)
  BY <1>1 DEF AllMarks, Quiet
<1>. QED
  BY <1>1, <1>2

(* What a user tells is saved with the copy.                               *)
LEMMA UserTold ==
    ASSUME Types, NEW u \in DOMAIN users, NEW copy \in Attributes, NEW n \in Names, Tell(u, n, copy)
    PROVE  /\ users' \in Seq(Attributes) /\ Len(users') = Len(users) /\ DOMAIN users' = DOMAIN users
           /\ users'[u] \in Attributes /\ DOMAIN users'[u] = DOMAIN copy \cup {n}
           /\ \A v \in DOMAIN users \ {u} : users'[v] = users[v]
           /\ marks' \in AllMarks /\ Quiet /\ (~marks'.stale => users[u] = copy)
<1>1. /\ users' = [users EXCEPT ![u] = With(copy, n, "told")] /\ users \in Seq(Attributes)
      /\ marks \in AllMarks
      /\ marks' = [marks EXCEPT !.stale = @ \/ users[u] # copy,
                                !.told = IF u = 1 /\ n = marks.name THEN "told" ELSE @]
  BY DEF Tell, Types
<1>2. marks' \in AllMarks /\ Quiet /\ (~marks'.stale => users[u] = copy)
  BY <1>1 DEF AllMarks, Quiet, Values
<1>3. With(copy, n, "told") \in Attributes /\ DOMAIN With(copy, n, "told") = DOMAIN copy \cup {n}
  BY WithType DEF Values
<1>. QED
  BY <1>1, <1>2, <1>3

(* The types stay when one user is saved.                                  *)
LEMMA TypesSaved ==
    ASSUME Types, NEW k \in DOMAIN procs, NEW q, Becomes(k, q), q = Done \/ Whole(q, Len(users)),
           users' \in Seq(Attributes), Len(users') = Len(users),
           cohort' = cohort, items' = items, counts' = counts, marks' \in AllMarks
    PROVE  Types'
<1>1. Len(users') \in Len(users) .. MaxUsers
  BY DEF Types
<1>2. q = Done \/ Whole(q, Len(users'))
  OBVIOUS
<1>. QED
  BY <1>1, <1>2, TypesKept DEF Types

(* The first user on the list gets the attribute.                          *)
LEMMA AddToUserStep ==
    ASSUME Types, NEW k \in DOMAIN procs, AddToUser(k)
    PROVE  /\ Types' /\ Others(k) /\ Quiet /\ k \in Working
           /\ procs[k].at = "users" /\ procs[k].list \in Seq(Entries) /\ procs[k].list # <<>>
           /\ Same(procs[k], procs'[k]) /\ procs'[k].at = "users" /\ procs'[k].list = Tail(procs[k].list)
           /\ procs[k].list[1][1] \in DOMAIN users /\ DOMAIN users' = DOMAIN users
           /\ DOMAIN users'[procs[k].list[1][1]] = DOMAIN procs[k].list[1][2] \cup {procs[k].new}
           /\ \A v \in DOMAIN users \ {procs[k].list[1][1]} : users'[v] = users[v]
           /\ ~marks'.stale => users[procs[k].list[1][1]] = procs[k].list[1][2]
           /\ cohort' = cohort /\ items' = items
<1>. DEFINE r == procs[k]
            q == [r EXCEPT !.list = Tail(@)]
            u == r.list[1]
<1>1. r.at = "users" /\ r.list # <<>> /\ k \in Working /\ r \in Requests /\ Whole(r, Len(users))
  BY Itself DEF AddToUser, At
<1>2. /\ r.kind \in {"create_attribute", "upload"} /\ r.copy \in Attributes
      /\ r.kind = "upload" => r.user \in 0 .. Len(users)
      /\ \A i \in DOMAIN r.list : r.list[i][1] \in 1 .. Len(users)
  BY <1>1 DEF Whole, Place, MakeUser, Past, Copying
<1>3. r.list \in Seq(Entries) /\ r.new \in Names
  BY <1>1, Fields
<1>4. /\ Tail(r.list) \in Seq(Entries) /\ Head(r.list) = u /\ 1 \in DOMAIN r.list
      /\ \A i \in DOMAIN Tail(r.list) : i + 1 \in DOMAIN r.list /\ Tail(r.list)[i] = r.list[i + 1]
  BY <1>1, <1>3, ShorterList
<1>5. u[1] \in DOMAIN users /\ u[2] \in Attributes
  BY <1>1, <1>4, Listed
<1>6. /\ q \in Requests /\ Same(r, q) /\ q.at = "users" /\ q.list = Tail(r.list) /\ q.copy = r.copy
      /\ q.user = r.user
  BY <1>1, <1>4, Fields DEF Requests, Same
<1>7. /\ Becomes(k, q) /\ SaveUser(u[1], With(u[2], r.new, "default"), u[2])
      /\ cohort' = cohort /\ items' = items /\ counts' = counts
  BY <1>4 DEF AddToUser
<1>. HIDE DEF q
<1>8. Whole(q, Len(users))
  <2>1. \A i \in DOMAIN q.list : q.list[i][1] \in 1 .. Len(users)
    BY <1>2, <1>4, <1>6
  <2>. QED
    BY <1>1, <1>2, <1>6, <2>1 DEF Whole, Place, HasUser, Past, Copying, Same
<1>9. /\ With(u[2], r.new, "default") \in Attributes
      /\ DOMAIN With(u[2], r.new, "default") = DOMAIN u[2] \cup {r.new}
  BY <1>3, <1>5, WithType DEF Values
<1>10. /\ users' \in Seq(Attributes) /\ Len(users') = Len(users) /\ DOMAIN users' = DOMAIN users
       /\ users'[u[1]] = With(u[2], r.new, "default")
       /\ \A v \in DOMAIN users \ {u[1]} : users'[v] = users[v]
       /\ marks' \in AllMarks /\ Quiet /\ (~marks'.stale => users[u[1]] = u[2])
  BY <1>5, <1>7, <1>9, UserSaved
<1>11. Types'
  BY <1>7, <1>8, <1>10, TypesSaved
<1>12. Others(k) /\ procs'[k] = q
  BY <1>7, Alone DEF Others
<1>. QED
  BY <1>1, <1>3, <1>5, <1>6, <1>7, <1>9, <1>10, <1>11, <1>12

(* An exception is noted, and nothing else happens.                        *)
Raised(kind) ==
    /\ marks'.met = marks.met /\ marks'.again = marks.again /\ marks'.stale = marks.stale
    /\ marks'.raised = marks.raised \cup {kind}
    /\ UNCHANGED documents

(* What raises ends, and touches no document.                              *)
LEMMA RaiseStep ==
    ASSUME Types, NEW k \in Working, Raise(k)
    PROVE  Types' /\ Others(k) /\ procs'[k] = Done /\ Raised(procs[k].kind)
<1>1. procs[k] \in Requests /\ procs[k].kind \in RequestKinds
  BY Fields DEF Types, Whole
<1>2. /\ Becomes(k, Done) /\ marks' = [marks EXCEPT !.raised = @ \cup {procs[k].kind}]
      /\ UNCHANGED <<documents, counts>>
  BY DEF Raise, End
<1>3. cohort' = cohort /\ users' = users /\ items' = items /\ counts' = counts
  BY <1>2 DEF documents
<1>4. marks' \in AllMarks /\ Raised(procs[k].kind)
  BY <1>1, <1>2 DEF Types, AllMarks, Raised
<1>5. k \in DOMAIN procs
  BY DEF Working
<1>6. Types'
  BY <1>2, <1>3, <1>4, <1>5, TypesStay DEF Types
<1>. QED
  BY <1>2, <1>4, <1>5, <1>6, Alone DEF Others

(* The users were all copied.                                              *)
CopiedAll(k) ==
    /\ UNCHANGED documents /\ marks' = marks
    /\ Same(procs[k], procs'[k]) /\ procs'[k].at = "load_item"
    /\ procs'[k].items = <<"schedule", "question", "conditional">> /\ procs'[k].list = procs[k].list
    /\ \A i \in DOMAIN procs[k].list : i <= procs[k].user

(* The next of them was copied; the copy is kept.                          *)
CopiedOne(k, i) ==
    /\ cohort' = cohort /\ items' = items /\ Quiet
    /\ Same(procs[k], procs'[k]) /\ procs'[k].at = "copy" /\ procs'[k].user = i
    /\ i = procs[k].user + 1 /\ i \in DOMAIN procs[k].list /\ DOMAIN procs'[k].list = DOMAIN procs[k].list
    /\ procs[k].name \in DOMAIN procs[k].list[i][2] /\ procs[k].list[i][1] \in DOMAIN users
    /\ \A j \in DOMAIN procs[k].list \ {i} : procs'[k].list[j] = procs[k].list[j]
    /\ procs'[k].list[i][1] = procs[k].list[i][1]
    /\ procs'[k].list[i][2] = users'[procs[k].list[i][1]]
    /\ DOMAIN users' = DOMAIN users
    /\ DOMAIN users'[procs[k].list[i][1]] = DOMAIN procs[k].list[i][2] \cup {procs[k].new}
    /\ \A v \in DOMAIN users \ {procs[k].list[i][1]} : users'[v] = users[v]
    /\ ~marks'.stale => users[procs[k].list[i][1]] = procs[k].list[i][2]

(* The user that was copied is counted, and its copy kept.                 *)
LEMMA OneMore ==
    ASSUME NEW p, NEW e, NEW i, i = p.user + 1
    PROVE  [p EXCEPT !.user = @ + 1, !.list[p.user + 1] = e]
           = [p EXCEPT !.user = i, !.list = [p.list EXCEPT ![i] = e]]
  OBVIOUS

(* A renaming that has copied in all users goes on to the items.           *)
LEMMA CopyAllStep ==
    ASSUME Types, NEW k \in DOMAIN procs, procs[k].at = "copy",
           procs[k].user = Len(procs[k].list),
           Becomes(k, [procs[k] EXCEPT !.at = "load_item", !.items = <<"schedule", "question", "conditional">>]),
           UNCHANGED <<documents, counts, marks>>
    PROVE  Types' /\ Others(k) /\ CopiedAll(k)
<1>. DEFINE r == procs[k]
            q == [r EXCEPT !.at = "load_item", !.items = <<"schedule", "question", "conditional">>]
<1>1. r.at = "copy" /\ k \in Working /\ r \in Requests /\ Whole(r, Len(users))
  BY Itself
<1>2. /\ r.kind = "edit_attribute" /\ r.copy \in Attributes /\ r.name # r.new
      /\ \A i \in DOMAIN r.list : r.list[i][1] \in 1 .. Len(users)
  BY <1>1 DEF Whole, Place, MakeUser, Past, Copying
<1>3. r.list \in Seq(Entries) /\ r.user \in Nat
  BY <1>1, Fields
<1>4. <<"schedule", "question", "conditional">> \in Seq(Documents)
  BY DEF Documents
<1>5. /\ q \in Requests /\ Same(r, q) /\ q.at = "load_item" /\ q.list = r.list /\ q.copy = r.copy
      /\ q.items = <<"schedule", "question", "conditional">>
  BY <1>1, <1>4, Fields DEF Requests, RequestStates, Same
<1>6. cohort' = cohort /\ users' = users /\ items' = items /\ counts' = counts /\ marks' = marks /\ Becomes(k, q)
  BY DEF documents
<1>. HIDE DEF q
<1>7. Whole(q, Len(users))
  BY <1>2, <1>5 DEF Whole, Place, HasUser, Past, Copying, Same
<1>8. Types'
  BY <1>6, <1>7, TypesStay DEF Types
<1>9. Others(k) /\ procs'[k] = q
  BY <1>6, Alone DEF Others
<1>10. \A j \in DOMAIN r.list : j <= r.user
  BY <1>3
<1>11. CopiedAll(k)
  BY <1>5, <1>6, <1>9, <1>10 DEF CopiedAll, documents
<1>. QED
  BY <1>8, <1>9, <1>11

(* A renaming copies the value of one user.                                *)
LEMMA CopyOneStep ==
    ASSUME Types, NEW k \in DOMAIN procs, procs[k].at = "copy",
           NEW i \in DOMAIN procs[k].list, i = procs[k].user + 1,
           procs[k].name \in DOMAIN procs[k].list[i][2],
           NEW new, new = Copied(procs[k].list[i][2], procs[k].name, procs[k].new),
           SaveUser(procs[k].list[i][1], new, procs[k].list[i][2]),
           Becomes(k, [procs[k] EXCEPT !.user = i,
                           !.list = [procs[k].list EXCEPT ![i] = <<procs[k].list[i][1], new>>]]),
           UNCHANGED <<cohort, items, counts>>
    PROVE  Types' /\ Others(k) /\ CopiedOne(k, i)
<1>. DEFINE r == procs[k]
            list == r.list
            u == list[i]
            copied == [list EXCEPT ![i] = <<u[1], new>>]
            q == [r EXCEPT !.user = i, !.list = copied]
<1>1. r.at = "copy" /\ k \in Working /\ r \in Requests /\ Whole(r, Len(users))
  BY Itself
<1>2. /\ r.kind = "edit_attribute" /\ r.copy \in Attributes /\ r.name # r.new
      /\ \A j \in DOMAIN r.list : r.list[j][1] \in 1 .. Len(users)
  BY <1>1 DEF Whole, Place, MakeUser, Past, Copying
<1>3. r.list \in Seq(Entries) /\ r.new \in Names /\ r.name \in Names /\ r.user \in Nat
  BY <1>1, Fields
<1>4. u[1] \in DOMAIN users /\ u[2] \in Attributes
  BY <1>1, Listed
<1>5. new \in Attributes /\ DOMAIN new = DOMAIN u[2] \cup {r.new}
  <2>. DEFINE c == u[2]
              m == r.name
              n == r.new
  <2>1. c \in Attributes /\ m \in DOMAIN c /\ m \in Names /\ n \in Names /\ new = Copied(c, m, n)
    BY <1>3, <1>4, Zenon
  <2>. HIDE DEF c, m, n
  <2>2. new \in Attributes /\ DOMAIN new = DOMAIN c \cup {n}
    BY <2>1, CopiedType
  <2>. QED
    BY <2>2 DEF c, n
<1>6. /\ users' \in Seq(Attributes) /\ Len(users') = Len(users) /\ DOMAIN users' = DOMAIN users
      /\ users'[u[1]] = new /\ \A v \in DOMAIN users \ {u[1]} : users'[v] = users[v]
      /\ marks' \in AllMarks /\ Quiet /\ (~marks'.stale => users[u[1]] = u[2])
  BY <1>4, <1>5, UserSaved
<1>7. <<u[1], new>> \in Entries
  BY <1>4, <1>5 DEF Entries, Types
<1>. DEFINE e == <<u[1], new>>
<1>8. e[1] = u[1] /\ e[2] = new
  OBVIOUS
<1>. HIDE DEF e
<1>9. /\ copied \in Seq(Entries) /\ DOMAIN copied = DOMAIN list /\ Len(copied) = Len(list) /\ copied[i] = e
      /\ \A j \in DOMAIN list \ {i} : copied[j] = list[j]
  BY <1>3, <1>7 DEF e
<1>. HIDE DEF copied
<1>10. i \in Nat /\ i \in 0 .. Len(copied)
  BY <1>3, <1>9
<1>11. /\ q \in Requests /\ Same(r, q) /\ q.at = "copy" /\ q.list = copied /\ q.copy = r.copy
       /\ q.user = i
  BY <1>1, <1>9, <1>10, Fields DEF Requests, Same
<1>12. Becomes(k, q) /\ cohort' = cohort /\ items' = items /\ counts' = counts
  BY Zenon DEF copied
<1>. HIDE DEF q
<1>13. Whole(q, Len(users))
  <2>1. \A j \in DOMAIN q.list : q.list[j][1] \in 1 .. Len(users)
    <3>1. \A j \in DOMAIN copied : copied[j][1] = list[j][1]
      BY <1>8, <1>9
    <3>. QED
      BY <1>2, <1>9, <1>11, <3>1, Zenon
  <2>2. Within(q)
    BY <1>10, <1>11, Zenon DEF Within
  <2>. QED
    BY <1>2, <1>11, <2>1, <2>2 DEF Whole, Place, HasUser, Past, Copying, Same
<1>14. Types'
  BY <1>6, <1>12, <1>13, TypesSaved
<1>15. Others(k) /\ procs'[k] = q
  BY <1>12, Alone DEF Others
<1>16. CopiedOne(k, i)
  BY <1>4, <1>5, <1>6, <1>8, <1>9, <1>11, <1>12, <1>15, Zenon DEF CopiedOne
<1>. QED
  BY <1>14, <1>15, <1>16

(* A step of the copying is one of three.                                  *)
LEMMA CopyInUserStep ==
    ASSUME Types, NEW k \in DOMAIN procs, CopyInUser(k)
    PROVE  /\ Types' /\ Others(k) /\ k \in Working
           /\ procs[k].at = "copy" /\ procs[k].kind = "edit_attribute"
           /\ \/ CopiedAll(k)
              \/ \E i \in DOMAIN procs[k].list : CopiedOne(k, i)
              \/ /\ \E i \in DOMAIN procs[k].list : procs[k].name \notin DOMAIN procs[k].list[i][2]
                 /\ procs'[k] = Done /\ Raised("edit_attribute")
<1>. DEFINE r == procs[k]
            list == r.list
            i == r.user + 1
            u == list[i]
            new == Copied(u[2], r.name, r.new)
            Ends == /\ r.user = Len(list)
                    /\ Becomes(k, [r EXCEPT !.at = "load_item", !.items = <<"schedule", "question", "conditional">>])
                    /\ UNCHANGED <<documents, counts, marks>>
            Fails == r.user < Len(list) /\ r.name \notin DOMAIN u[2] /\ Raise(k)
            Goes == /\ r.user < Len(list) /\ r.name \in DOMAIN u[2]
                    /\ SaveUser(u[1], new, u[2])
                    /\ Becomes(k, [r EXCEPT !.user = @ + 1, !.list[r.user + 1] = <<u[1], new>>])
                    /\ UNCHANGED <<cohort, items, counts>>
<1>1. r.at = "copy" /\ k \in Working /\ r \in Requests /\ Whole(r, Len(users))
  BY Itself DEF CopyInUser, At
<1>2. r.kind = "edit_attribute"
  BY <1>1 DEF Whole, Place, MakeUser, Past, Copying
<1>3. r.list \in Seq(Entries) /\ r.user \in Nat /\ r.user \in 0 .. Len(list)
  BY <1>1, Fields DEF Whole, Within
<1>4. r.user < Len(list) => i \in DOMAIN list
  BY <1>3
<1>5. CASE Ends
  BY <1>1, <1>2, <1>5, CopyAllStep
<1>6. CASE Fails
  <2>1. Types' /\ Others(k) /\ procs'[k] = Done /\ Raised("edit_attribute")
    BY <1>1, <1>2, <1>6, RaiseStep
  <2>. QED
    BY <1>1, <1>2, <1>4, <1>6, <2>1
<1>7. CASE Goes
  <2>1. i \in DOMAIN list /\ r.name \in DOMAIN u[2] /\ SaveUser(u[1], new, u[2])
        /\ UNCHANGED <<cohort, items, counts>>
    BY <1>4, <1>7
  <2>2. [r EXCEPT !.user = @ + 1, !.list[r.user + 1] = <<u[1], new>>]
        = [r EXCEPT !.user = i, !.list = [list EXCEPT ![i] = <<u[1], new>>]]
    BY OneMore
  <2>3. Becomes(k, [r EXCEPT !.user = i, !.list = [list EXCEPT ![i] = <<u[1], new>>]])
    BY <1>7, <2>2, Zenon
  <2>. HIDE DEF new
  <2>4. Types' /\ Others(k) /\ CopiedOne(k, i)
    BY <1>1, <2>1, <2>3, CopyOneStep DEF new
  <2>. QED
    BY <1>1, <1>2, <2>1, <2>4
<1>8. Ends \/ Fails \/ Goes
  BY Zenon DEF CopyInUser
<1>. QED
  BY <1>5, <1>6, <1>7, <1>8
-----------------------------------------------------------------------------
(* Nothing but the process moves on.                                       *)
Moves(k) == Others(k) /\ k \in Working /\ UNCHANGED documents /\ marks' = marks

(* The types stay when a process alone moves on.                           *)
LEMMA TypesMove ==
    ASSUME Types, NEW k \in DOMAIN procs, procs[k].at # "done", NEW q, Becomes(k, q),
           q = Done \/ Whole(q, Len(users)), UNCHANGED <<documents, counts, marks>>
    PROVE  Types' /\ Moves(k) /\ procs'[k] = q
<1>1. cohort' = cohort /\ users' = users /\ items' = items /\ marks' = marks /\ counts' = counts
  BY DEF documents
<1>2. Types'
  BY <1>1, TypesStay DEF Types
<1>3. k \in Working
  BY Itself
<1>4. Others(k) /\ procs'[k] = q
  BY Alone DEF Others
<1>. QED
  BY <1>2, <1>3, <1>4 DEF Moves

(* An item to look at next, or none.                                       *)
LoadedItem(k) ==
    /\ Same(procs[k], procs'[k]) /\ procs'[k].list = procs[k].list
    /\ \/ procs[k].items = <<>> /\ procs'[k].at = "remove"
       \/ /\ procs'[k].at = "save_item" /\ procs'[k].items = procs[k].items
          /\ procs'[k].copy = items[Head(procs[k].items)]

(* A renaming loads the next item, or has seen all.                        *)
LEMMA LoadItemStep ==
    ASSUME Types, NEW k \in DOMAIN procs, LoadItem(k)
    PROVE  /\ Types' /\ Moves(k) /\ LoadedItem(k)
           /\ procs[k].at = "load_item" /\ procs[k].kind = "edit_attribute"
<1>. DEFINE r == procs[k]
            q == [r EXCEPT !.at = "remove"]
            s == [r EXCEPT !.at = "save_item", !.copy = items[Head(r.items)], !.compared = items["comparison"]]
<1>1. r.at = "load_item" /\ k \in Working /\ r \in Requests /\ Whole(r, Len(users))
  BY Itself DEF LoadItem, At
<1>2. /\ r.kind = "edit_attribute" /\ r.name # r.new
      /\ \A i \in DOMAIN r.list : r.list[i][1] \in 1 .. Len(users)
  BY <1>1 DEF Whole, Place, MakeUser, Past, Copying
<1>3. /\ q \in Requests /\ Same(r, q) /\ q.at = "remove" /\ q.list = r.list
  BY <1>1, Fields DEF Requests, RequestStates, Same
<1>4. ASSUME r.items # <<>>
      PROVE  /\ s \in Requests /\ Same(r, s) /\ s.at = "save_item" /\ s.list = r.list /\ s.items = r.items
             /\ s.copy = items[Head(r.items)]
  <2>1. r.items \in Seq(Documents)
    BY <1>1, Fields
  <2>2. Head(r.items) \in Documents
    BY <1>4, <2>1
  <2>3. items[Head(r.items)] \in Names /\ items["comparison"] \in Names
    BY <2>2 DEF Types, Items
  <2>. QED
    BY <1>1, <2>3, Fields DEF Requests, RequestStates, Same
<1>5. /\ (r.items = <<>> /\ Becomes(k, q)) \/ (r.items # <<>> /\ Becomes(k, s))
      /\ UNCHANGED <<documents, counts, marks>>
  BY DEF LoadItem
<1>. HIDE DEF q, s
<1>6. Whole(q, Len(users))
  BY <1>2, <1>3 DEF Whole, Place, HasUser, Past, Copying, Same
<1>7. r.items # <<>> => Whole(s, Len(users))
  BY <1>2, <1>4 DEF Whole, Place, HasUser, Past, Copying, Same
<1>8. Types' /\ Moves(k) /\ ((r.items = <<>> /\ procs'[k] = q) \/ (r.items # <<>> /\ procs'[k] = s))
  BY <1>1, <1>5, <1>6, <1>7, TypesMove
<1>9. LoadedItem(k)
  BY <1>3, <1>4, <1>8, Zenon DEF LoadedItem
<1>. QED
  BY <1>1, <1>2, <1>8, <1>9

(* An item that was looked at is saved if it mentions the old name.        *)
SavedItem(k) ==
    /\ Others(k) /\ k \in Working /\ Quiet /\ cohort' = cohort /\ users' = users
    /\ procs[k].at = "save_item" /\ procs[k].kind = "edit_attribute"
    /\ Same(procs[k], procs'[k]) /\ procs'[k].at = "load_item"
    /\ procs[k].items \in Seq(Documents) /\ procs[k].items # <<>> /\ procs'[k].items = Tail(procs[k].items)
    /\ procs'[k].list = procs[k].list
    /\ \/ procs[k].copy # procs[k].name /\ items' = items
       \/ /\ items'[Head(procs[k].items)] = procs[k].new
          /\ \A j \in Documents \ {Head(procs[k].items)} : items'[j] = items[j]

(* A document that is written names what it is given; the others, but for  *)
(* what the conditional compares with, are left alone.                     *)
LEMMA WrittenType ==
    ASSUME Types, NEW i \in Documents, NEW n \in Names, NEW c \in Names
    PROVE  /\ Written(i, n, c) \in [Items -> Names] /\ Written(i, n, c)[i] = n
           /\ \A j \in Documents \ {i} : Written(i, n, c)[j] = items[j]
           /\ Written(i, n, c)["comparison"] \in {items["comparison"], c}
  BY DEF Written, Types, Items, Documents

(* A renaming saves the item it loaded, or leaves it.                      *)
LEMMA SaveItemStep ==
    ASSUME Types, NEW k \in DOMAIN procs, SaveItem(k)
    PROVE  Types' /\ SavedItem(k)
<1>. DEFINE r == procs[k]
            i == Head(r.items)
            rest == Tail(r.items)
            q == [r EXCEPT !.at = "load_item", !.items = rest]
<1>1. r.at = "save_item" /\ k \in Working /\ r \in Requests /\ Whole(r, Len(users))
  BY Itself DEF SaveItem, At
<1>2. /\ r.kind = "edit_attribute" /\ r.name # r.new /\ r.items # <<>>
      /\ \A j \in DOMAIN r.list : r.list[j][1] \in 1 .. Len(users)
  BY <1>1 DEF Whole, Place, MakeUser, Past, Copying
<1>3. r.items \in Seq(Documents) /\ r.new \in Names /\ r.compared \in Names
  BY <1>1, Fields
<1>4. i \in Documents /\ rest \in Seq(Documents)
  BY <1>2, <1>3, ShorterList, Zenon
<1>. HIDE DEF i, rest
<1>5. /\ q \in Requests /\ Same(r, q) /\ q.at = "load_item" /\ q.list = r.list /\ q.items = rest
  BY <1>1, <1>4, Fields DEF Requests, RequestStates, Same
<1>6. /\ Becomes(k, q) /\ cohort' = cohort /\ users' = users /\ counts' = counts
      /\ \/ /\ items' = Written(i, r.new, r.compared)
            /\ marks' = [marks EXCEPT !.stale = @ \/ items # Written(i, r.copy, r.compared)]
         \/ r.copy # r.name /\ items' = items /\ marks' = marks
  BY DEF SaveItem, Mentions, i, rest
<1>. HIDE DEF q
<1>7. Whole(q, Len(users))
  BY <1>2, <1>5 DEF Whole, Place, HasUser, Past, Copying, Same
<1>0. /\ Written(i, r.new, r.compared) \in [Items -> Names] /\ Written(i, r.new, r.compared)[i] = r.new
      /\ \A j \in Documents \ {i} : Written(i, r.new, r.compared)[j] = items[j]
  <2>1. \A d \in Documents : \A n, c \in Names :
            /\ Written(d, n, c) \in [Items -> Names] /\ Written(d, n, c)[d] = n
            /\ \A j \in Documents \ {d} : Written(d, n, c)[j] = items[j]
    BY WrittenType
  <2>. QED
    BY <1>3, <1>4, <2>1
<1>8. items' \in [Items -> Names] /\ marks' \in AllMarks /\ Quiet
  <2>1. items' \in [Items -> Names]
    BY <1>0, <1>6 DEF Types
  <2>. DEFINE b == items # Written(i, r.copy, r.compared)
  <2>2. marks' = marks \/ marks' = [marks EXCEPT !.stale = @ \/ b]
    BY <1>6
  <2>. HIDE DEF b
  <2>3. marks' \in AllMarks /\ Quiet
    BY <2>2 DEF Types, AllMarks, Quiet
  <2>. QED
    BY <2>1, <2>3
<1>9. Types'
  BY <1>6, <1>7, <1>8, TypesStay DEF Types
<1>10. Others(k) /\ procs'[k] = q
  BY <1>6, Alone DEF Others
<1>11. (r.copy # r.name /\ items' = items) \/ (items'[i] = r.new /\ \A j \in Documents \ {i} : items'[j] = items[j])
  BY <1>0, <1>6
<1>12. SavedItem(k)
  BY <1>1, <1>2, <1>3, <1>5, <1>6, <1>8, <1>10, <1>11, Zenon DEF SavedItem, i, rest
<1>. QED
  BY <1>9, <1>12

(* The old name goes from one user.                                        *)
Removed(k) ==
    /\ Others(k) /\ k \in Working /\ Quiet /\ cohort' = cohort /\ items' = items
    /\ procs[k].at = "remove" /\ procs[k].kind = "edit_attribute"
    /\ procs[k].list \in Seq(Entries) /\ procs[k].list # <<>>
    /\ Same(procs[k], procs'[k]) /\ procs'[k].at = "remove" /\ DOMAIN users' = DOMAIN users
    /\ DOMAIN users'[procs[k].list[1][1]] = DOMAIN procs[k].list[1][2] \ {procs[k].name}
    /\ \A v \in DOMAIN users \ {procs[k].list[1][1]} : users'[v] = users[v]
    /\ ~marks'.stale => users[procs[k].list[1][1]] = procs[k].list[1][2]

(* A renaming takes the old name from the next user, or ends.              *)
LEMMA RemoveFromUserStep ==
    ASSUME Types, NEW k \in DOMAIN procs, RemoveFromUser(k)
    PROVE  Types' /\ (Removed(k) \/ (Moves(k) /\ procs'[k] = Done))
<1>. DEFINE r == procs[k]
            q == [r EXCEPT !.list = Tail(@)]
            u == r.list[1]
<1>1. r.at = "remove" /\ k \in Working /\ r \in Requests /\ Whole(r, Len(users))
  BY Itself DEF RemoveFromUser, At
<1>2. /\ r.kind = "edit_attribute" /\ r.name # r.new
      /\ \A i \in DOMAIN r.list : r.list[i][1] \in 1 .. Len(users)
  BY <1>1 DEF Whole, Place, MakeUser, Past, Copying
<1>3. r.list \in Seq(Entries) /\ r.name \in Names
  BY <1>1, Fields
<1>4. CASE r.list = <<>> /\ Becomes(k, Done) /\ UNCHANGED <<documents, counts, marks>>
  BY <1>1, <1>4, TypesMove
<1>5. CASE /\ r.list # <<>> /\ SaveUser(Head(r.list)[1], Drop(Head(r.list)[2], r.name), Head(r.list)[2])
           /\ Becomes(k, q) /\ UNCHANGED <<cohort, items, counts>>
  <2>1. /\ Tail(r.list) \in Seq(Entries) /\ Head(r.list) = u /\ 1 \in DOMAIN r.list
        /\ \A i \in DOMAIN Tail(r.list) : i + 1 \in DOMAIN r.list /\ Tail(r.list)[i] = r.list[i + 1]
    BY <1>3, <1>5, ShorterList
  <2>2. u[1] \in DOMAIN users /\ u[2] \in Attributes
    BY <1>1, <2>1, Listed
  <2>3. /\ q \in Requests /\ Same(r, q) /\ q.at = "remove" /\ q.list = Tail(r.list)
    BY <1>1, <2>1, Fields DEF Requests, Same
  <2>4. /\ Becomes(k, q) /\ SaveUser(u[1], Drop(u[2], r.name), u[2])
        /\ cohort' = cohort /\ items' = items /\ counts' = counts
    BY <1>5, <2>1
  <2>. HIDE DEF q
  <2>5. Whole(q, Len(users))
    <3>1. \A i \in DOMAIN q.list : q.list[i][1] \in 1 .. Len(users)
      BY <1>2, <2>1, <2>3
    <3>. QED
      BY <1>1, <1>2, <2>3, <3>1 DEF Whole, Place, HasUser, Past, Copying, Same
  <2>6. /\ Drop(u[2], r.name) \in Attributes /\ DOMAIN Drop(u[2], r.name) = DOMAIN u[2] \ {r.name}
    BY <2>2, DropType
  <2>7. /\ users' \in Seq(Attributes) /\ Len(users') = Len(users) /\ DOMAIN users' = DOMAIN users
        /\ users'[u[1]] = Drop(u[2], r.name)
        /\ \A v \in DOMAIN users \ {u[1]} : users'[v] = users[v]
        /\ marks' \in AllMarks /\ Quiet /\ (~marks'.stale => users[u[1]] = u[2])
    BY <2>2, <2>4, <2>6, UserSaved
  <2>8. Types'
    BY <2>4, <2>5, <2>7, TypesSaved
  <2>9. Others(k) /\ procs'[k] = q
    BY <2>4, Alone DEF Others
  <2>10. Removed(k)
    BY <1>1, <1>2, <1>3, <1>5, <2>3, <2>4, <2>6, <2>7, <2>9, Zenon DEF Removed
  <2>. QED
    BY <2>8, <2>10
<1>. QED
  BY <1>4, <1>5, Zenon DEF RemoveFromUser, End
-----------------------------------------------------------------------------
(* No user loses an attribute, unless an older copy was saved.             *)
Grow ==
    /\ DOMAIN users' = DOMAIN users
    /\ ~marks'.stale => \A v \in DOMAIN users : DOMAIN users[v] \subseteq DOMAIN users'[v]

(* A value was set for a user.                                             *)
Told(k) == Others(k) /\ k \in Working /\ Quiet /\ Grow /\ cohort' = cohort /\ items' = items

(* The user that a process is about, and what was loaded of it.            *)
LEMMA OfUser ==
    ASSUME Types, NEW k \in Working, HasUser(procs[k])
    PROVE  /\ procs[k].user \in DOMAIN users /\ procs[k].user \in 1 .. Len(users)
           /\ procs[k].copy \in Attributes
<1>1. Whole(procs[k], Len(users)) /\ DOMAIN users = 1 .. Len(users)
  BY DEF Types
<1>2. procs[k].at \notin {"load_item", "save_item", "remove"}
  BY DEF HasUser
<1>. QED
  BY <1>1, <1>2, Zenon DEF Whole

(* The page of a user, or a row, saves a value.                            *)
LEMMA SaveUserAttributeStep ==
    ASSUME Types, NEW k \in DOMAIN procs, SaveUserAttribute(k)
    PROVE  Types' /\ Told(k) /\ procs[k].at = "set" /\ procs'[k] = Done
<1>. DEFINE r == procs[k]
            u == r.user
            n == r.new
            copy == r.copy
<1>1. r.at = "set" /\ k \in Working /\ r \in Requests /\ Whole(r, Len(users))
  BY Itself DEF SaveUserAttribute, At
<1>2. u \in DOMAIN users /\ copy \in Attributes /\ n \in Names
  BY <1>1, Fields, OfUser DEF HasUser
<1>3. Becomes(k, Done) /\ Tell(u, n, copy) /\ cohort' = cohort /\ items' = items /\ counts' = counts
  BY DEF SaveUserAttribute, End
<1>. HIDE DEF u, n, copy
<1>4. /\ users' \in Seq(Attributes) /\ Len(users') = Len(users) /\ DOMAIN users' = DOMAIN users
      /\ users'[u] \in Attributes /\ DOMAIN users'[u] = DOMAIN copy \cup {n}
      /\ \A v \in DOMAIN users \ {u} : users'[v] = users[v]
      /\ marks' \in AllMarks /\ Quiet /\ (~marks'.stale => users[u] = copy)
  BY <1>2, <1>3, UserTold
<1>5. Grow
  BY <1>4 DEF Grow
<1>6. Types'
  BY <1>3, <1>4, TypesSaved
<1>7. Others(k) /\ procs'[k] = Done
  BY <1>3, Alone DEF Others
<1>. QED
  BY <1>1, <1>3, <1>4, <1>5, <1>6, <1>7 DEF Told

(* A survey sets a value, in the document and in its copy.                 *)
LEMMA SetAttributeStep ==
    ASSUME Types, NEW k \in DOMAIN procs, SetAttribute(k)
    PROVE  /\ Types' /\ Told(k) /\ procs[k].at = "set_attribute" /\ procs[k].kind = "survey"
           /\ Same(procs[k], procs'[k]) /\ procs'[k].at = "test"
           /\ DOMAIN procs[k].copy \subseteq DOMAIN procs'[k].copy
<1>. DEFINE r == procs[k]
            u == r.user
            n == r.new
            copy == r.copy
            told == With(copy, n, "told")
            q == [r EXCEPT !.at = "test", !.copy = told]
<1>1. r.at = "set_attribute" /\ k \in Working /\ r \in Requests /\ Whole(r, Len(users))
  BY Itself DEF SetAttribute, At
<1>2. u \in DOMAIN users /\ u \in 1 .. Len(users) /\ copy \in Attributes /\ n \in Names
  BY <1>1, Fields, OfUser DEF HasUser
<1>13. r.kind = "survey" /\ \A i \in DOMAIN r.list : r.list[i][1] \in 1 .. Len(users)
  BY <1>1 DEF Whole, Place, MakeUser, Past, Copying
<1>3. Becomes(k, q) /\ Tell(u, n, copy) /\ cohort' = cohort /\ items' = items /\ counts' = counts
  BY DEF SetAttribute
<1>4. told \in Attributes /\ DOMAIN told = DOMAIN copy \cup {n}
  BY <1>2, WithType DEF Values
<1>. HIDE DEF told
<1>5. /\ q \in Requests /\ Same(r, q) /\ q.at = "test" /\ q.copy = told /\ q.user = u /\ q.list = r.list
  BY <1>1, <1>4, Fields DEF Requests, RequestStates, Same
<1>. HIDE DEF q
<1>6. Whole(q, Len(users))
  BY <1>2, <1>4, <1>5, <1>13 DEF Whole, Place, HasUser, Past, Copying, Same
<1>. HIDE DEF u, n, copy
<1>7. /\ users' \in Seq(Attributes) /\ Len(users') = Len(users) /\ DOMAIN users' = DOMAIN users
      /\ users'[u] \in Attributes /\ DOMAIN users'[u] = DOMAIN copy \cup {n}
      /\ \A v \in DOMAIN users \ {u} : users'[v] = users[v]
      /\ marks' \in AllMarks /\ Quiet /\ (~marks'.stale => users[u] = copy)
  BY <1>2, <1>3, UserTold
<1>8. Grow
  BY <1>7 DEF Grow
<1>9. Types'
  BY <1>3, <1>6, <1>7, TypesSaved
<1>10. Others(k) /\ procs'[k] = q
  BY <1>3, Alone DEF Others
<1>11. Told(k)
  BY <1>1, <1>3, <1>7, <1>8, <1>10 DEF Told
<1>12. DOMAIN procs[k].copy \subseteq DOMAIN procs'[k].copy
  BY <1>4, <1>5, <1>10 DEF copy
<1>. QED
  BY <1>1, <1>5, <1>9, <1>10, <1>11, <1>12, <1>13

(* A row has a user, or makes one.                                         *)
LEMMA ParseRowStep ==
    ASSUME Types, NEW k \in DOMAIN procs, ParseRow(k)
    PROVE  /\ Types' /\ Moves(k) /\ procs[k].at = "row" /\ procs[k].kind = "upload"
           /\ Same(procs[k], procs'[k]) /\ procs'[k].at \in {"load", "set"}
<1>. DEFINE r == procs[k]
            q == [r EXCEPT !.at = "load"]
            s == [r EXCEPT !.at = "set", !.copy = users[r.user]]
<1>1. r.at = "row" /\ k \in Working /\ r \in Requests /\ Whole(r, Len(users))
  BY Itself DEF ParseRow, At
<1>2. /\ r.kind = "upload" /\ r.copy \in Attributes /\ r.user \in 0 .. Len(users)
      /\ \A i \in DOMAIN r.list : r.list[i][1] \in 1 .. Len(users)
  BY <1>1 DEF Whole, Place, MakeUser, Past, Copying
<1>3. /\ q \in Requests /\ Same(r, q) /\ q.at = "load" /\ q.list = r.list /\ q.user = r.user /\ q.copy = r.copy
  BY <1>1, Fields DEF Requests, RequestStates, Same
<1>4. ASSUME r.user # 0
      PROVE  /\ s \in Requests /\ Same(r, s) /\ s.at = "set" /\ s.list = r.list /\ s.user = r.user
             /\ s.copy \in Attributes /\ s.user \in 1 .. Len(users)
  <2>1. r.user \in 1 .. Len(users) /\ users[r.user] \in Attributes
    BY <1>2, <1>4 DEF Types
  <2>. QED
    BY <1>1, <2>1, Fields DEF Requests, RequestStates, Same
<1>5. /\ (r.user = 0 /\ Becomes(k, q)) \/ (r.user # 0 /\ Becomes(k, s))
      /\ UNCHANGED <<documents, counts, marks>>
  BY DEF ParseRow
<1>. HIDE DEF q, s
<1>6. Whole(q, Len(users))
  BY <1>2, <1>3 DEF Whole, Place, HasUser, Past, Copying, Same, MakeUser
<1>7. r.user # 0 => Whole(s, Len(users))
  BY <1>2, <1>4 DEF Whole, Place, HasUser, Past, Copying, Same
<1>8. Types' /\ Moves(k) /\ (procs'[k] = q \/ (r.user # 0 /\ procs'[k] = s))
  BY <1>1, <1>5, <1>6, <1>7, TypesMove
<1>. QED
  BY <1>1, <1>2, <1>3, <1>4, <1>8

(* The maker of a user loads the cohort.                                   *)
LEMMA LoadCohortStep ==
    ASSUME Types, NEW k \in DOMAIN procs, LoadCohort(k)
    PROVE  /\ Types' /\ Moves(k) /\ procs[k].at = "load" /\ procs[k].kind \in MakeUser
           /\ Same(procs[k], procs'[k]) /\ procs'[k].at = "insert" /\ procs'[k].copy = cohort
<1>. DEFINE r == procs[k]
            q == [r EXCEPT !.at = "insert", !.copy = cohort]
<1>1. r.at = "load" /\ k \in Working /\ r \in Requests /\ Whole(r, Len(users))
  BY Itself DEF LoadCohort, At
<1>2. /\ r.kind \in MakeUser /\ (r.kind = "upload" => r.user \in 0 .. Len(users))
      /\ \A i \in DOMAIN r.list : r.list[i][1] \in 1 .. Len(users)
  BY <1>1 DEF Whole, Place, MakeUser, Past, Copying
<1>3. /\ q \in Requests /\ Same(r, q) /\ q.at = "insert" /\ q.list = r.list /\ q.user = r.user /\ q.copy = cohort
  BY <1>1, Fields DEF Requests, RequestStates, Same, Types
<1>4. Becomes(k, q) /\ UNCHANGED <<documents, counts, marks>>
  BY DEF LoadCohort
<1>. HIDE DEF q
<1>5. Whole(q, Len(users))
  BY <1>2, <1>3 DEF Whole, Place, HasUser, Past, Copying, Same, Types
<1>. QED
  BY <1>1, <1>2, <1>3, <1>4, <1>5, TypesMove

(* A user is new.                                                          *)
LEMMA InsertStep ==
    ASSUME Types, NEW k \in DOMAIN procs, Insert(k)
    PROVE  /\ Types' /\ Others(k) /\ k \in Working /\ marks' = marks /\ cohort' = cohort /\ items' = items
           /\ procs[k].at = "insert" /\ procs[k].kind \in MakeUser
           /\ Same(procs[k], procs'[k]) /\ procs'[k].at \in {"set", "defaults"}
           /\ DOMAIN users' = DOMAIN users \cup {NewUser}
           /\ users'[NewUser] = procs[k].copy /\ \A v \in DOMAIN users : users'[v] = users[v]
<1>. DEFINE r == procs[k]
            copy == r.copy
            to == IF r.kind = "upload" THEN "set" ELSE "defaults"
            q == [r EXCEPT !.at = to, !.user = NewUser]
<1>1. r.at = "insert" /\ k \in Working /\ r \in Requests /\ Whole(r, Len(users))
  BY Itself DEF Insert, At
<1>2. /\ r.kind \in MakeUser /\ copy \in Attributes
      /\ \A i \in DOMAIN r.list : r.list[i][1] \in 1 .. Len(users)
  BY <1>1 DEF Whole, Place, MakeUser, Past, Copying
<1>3. Len(users) \in Nat /\ NewUser \in Nat /\ NewUser = Len(users) + 1 /\ users \in Seq(Attributes)
  BY DEF Types, NewUser
<1>4. to \in RequestStates /\ (r.kind = "upload" => to = "set") /\ (r.kind # "upload" => to = "defaults")
  BY DEF RequestStates
<1>5. Becomes(k, q) /\ users' = Append(users, copy) /\ NewUser <= MaxUsers
      /\ cohort' = cohort /\ items' = items /\ counts' = counts /\ marks' = marks
  BY DEF Insert
<1>. HIDE DEF to
<1>6. /\ q \in Requests /\ Same(r, q) /\ q.at = to /\ q.list = r.list /\ q.user = NewUser /\ q.copy = copy
  BY <1>1, <1>3, <1>4, Fields DEF Requests, Same
<1>. HIDE DEF q, copy
<1>7. /\ users' \in Seq(Attributes) /\ Len(users') = Len(users) + 1 /\ DOMAIN users' = DOMAIN users \cup {NewUser}
      /\ users'[NewUser] = copy /\ \A v \in DOMAIN users : users'[v] = users[v]
  BY <1>2, <1>3, <1>5
<1>8. Len(users') \in Len(users) .. MaxUsers
  BY <1>3, <1>5, <1>7, AttributesAssumption
<1>9. Whole(q, Len(users'))
  <2>1. 1 .. Len(users) \subseteq 1 .. Len(users')
    BY <1>3, <1>7
  <2>2. NewUser \in 1 .. Len(users') /\ NewUser \in 0 .. Len(users')
    BY <1>3, <1>7
  <2>3. \A i \in DOMAIN q.list : q.list[i][1] \in 1 .. Len(users')
    BY <1>2, <1>6, <2>1
  <2>4. Place(q.kind, q.at)
    BY <1>2, <1>4, <1>6 DEF Place, MakeUser, Same
  <2>5. q.at \in {"set", "defaults"}
    BY <1>4, <1>6
  <2>. QED
    BY <1>2, <1>6, <2>2, <2>3, <2>4, <2>5 DEF Whole, HasUser, Past, Copying
<1>10. Types'
  BY <1>5, <1>7, <1>8, <1>9, TypesKept DEF Types
<1>11. Others(k) /\ procs'[k] = q
  BY <1>5, Alone DEF Others
<1>. QED
  BY <1>1, <1>2, <1>4, <1>5, <1>6, <1>7, <1>10, <1>11 DEF copy

(* The page of a new user adds the defaults.                               *)
LEMMA AddDefaultsStep ==
    ASSUME Types, NEW k \in DOMAIN procs, AddDefaults(k)
    PROVE  Types' /\ Told(k) /\ procs[k].at = "defaults" /\ procs'[k] = Done
<1>. DEFINE r == procs[k]
            u == r.user
            copy == r.copy
            own == r.cohort
            new == [n \in DOMAIN copy \cup DOMAIN own |-> IF n \in DOMAIN own THEN own[n] ELSE copy[n]]
<1>1. r.at = "defaults" /\ k \in Working /\ r \in Requests /\ Whole(r, Len(users))
  BY Itself DEF AddDefaults, At
<1>2. u \in DOMAIN users /\ copy \in Attributes /\ own \in Attributes
  BY <1>1, Fields, OfUser DEF HasUser
<1>3. Becomes(k, Done) /\ SaveUser(u, new, copy) /\ cohort' = cohort /\ items' = items /\ counts' = counts
  BY DEF AddDefaults, End
<1>. HIDE DEF u, copy, own
<1>4. new \in Attributes /\ DOMAIN new = DOMAIN copy \cup DOMAIN own
  <2>1. DOMAIN copy \cup DOMAIN own \in SUBSET Names
    BY <1>2, AttributesType
  <2>2. (\A n \in DOMAIN copy : copy[n] \in Values) /\ (\A n \in DOMAIN own : own[n] \in Values)
    BY <1>2, AttributesType
  <2>3. new \in [DOMAIN copy \cup DOMAIN own -> Values]
    BY <2>2
  <2>. QED
    BY <2>1, <2>3, IsAttributes
<1>. HIDE DEF new
<1>5. /\ users' \in Seq(Attributes) /\ Len(users') = Len(users) /\ DOMAIN users' = DOMAIN users
      /\ users'[u] = new /\ \A v \in DOMAIN users \ {u} : users'[v] = users[v]
      /\ marks' \in AllMarks /\ Quiet /\ (~marks'.stale => users[u] = copy)
  BY <1>2, <1>3, <1>4, UserSaved
<1>6. Grow
  BY <1>4, <1>5 DEF Grow
<1>7. Types'
  BY <1>3, <1>5, TypesSaved
<1>8. Others(k) /\ procs'[k] = Done
  BY <1>3, Alone DEF Others
<1>. QED
  BY <1>1, <1>3, <1>5, <1>6, <1>7, <1>8 DEF Told

(* An item is made to name another attribute.                              *)
LEMMA WriteItemStep ==
    ASSUME Types, NEW k \in DOMAIN procs, WriteItem(k)
    PROVE  /\ Types' /\ Others(k) /\ k \in Working /\ marks' = marks /\ cohort' = cohort /\ users' = users
           /\ procs[k].at = "item" /\ procs[k].kind = "modify_item" /\ procs'[k] = Done
           /\ \A i \in Documents : items'[i] = items[i] \/ items'[i] = procs[k].new
<1>. DEFINE r == procs[k]
            i == Head(r.items)
<1>1. r.at = "item" /\ k \in Working /\ r \in Requests /\ Whole(r, Len(users))
  BY Itself DEF WriteItem, At
<1>2. r.kind = "modify_item" /\ r.items # <<>>
  BY <1>1 DEF Whole, Place, MakeUser, Past, Copying
<1>3. r.items \in Seq(Documents) /\ r.new \in Names /\ r.compared \in Names
  BY <1>1, Fields
<1>4. i \in Documents
  BY <1>2, <1>3, ShorterList, Zenon
<1>5. /\ Becomes(k, Done) /\ items' = Written(i, r.new, r.compared) /\ cohort' = cohort /\ users' = users
      /\ counts' = counts /\ marks' = marks
  BY DEF WriteItem, End
<1>. HIDE DEF i
<1>6. items' \in [Items -> Names] /\ \A j \in Documents : items'[j] = items[j] \/ items'[j] = r.new
  <2>1. /\ Written(i, r.new, r.compared) \in [Items -> Names] /\ Written(i, r.new, r.compared)[i] = r.new
        /\ \A j \in Documents \ {i} : Written(i, r.new, r.compared)[j] = items[j]
    BY <1>3, <1>4, WrittenType
  <2>. QED
    BY <1>5, <2>1
<1>7. Types'
  BY <1>5, <1>6, TypesStay DEF Types
<1>8. Others(k) /\ procs'[k] = Done
  BY <1>5, Alone DEF Others
<1>. QED
  BY <1>1, <1>2, <1>5, <1>6, <1>7, <1>8

(* A survey tests a conditional.                                           *)
LEMMA TestConditionalStep ==
    ASSUME Types, NEW k \in DOMAIN procs, TestConditional(k)
    PROVE  /\ Types' /\ Moves(k) /\ procs[k].at = "test" /\ procs[k].kind = "survey"
           /\ Same(procs[k], procs'[k]) /\ procs'[k].at = "send" /\ procs'[k].copy = procs[k].copy
<1>. DEFINE r == procs[k]
            q == [r EXCEPT !.at = "send"]
<1>1. r.at = "test" /\ k \in Working /\ r \in Requests /\ Whole(r, Len(users))
  BY Itself DEF TestConditional, At
<1>2. /\ r.kind = "survey" /\ r.copy \in Attributes /\ r.user \in 1 .. Len(users)
      /\ \A i \in DOMAIN r.list : r.list[i][1] \in 1 .. Len(users)
  BY <1>1 DEF Whole, Place, HasUser, MakeUser, Past, Copying
<1>3. q \in Requests /\ Same(r, q) /\ q.at = "send" /\ q.copy = r.copy /\ q.list = r.list /\ q.user = r.user
  BY <1>1, Fields DEF Requests, RequestStates, Same
<1>4. Becomes(k, q) /\ UNCHANGED <<documents, counts, marks>>
  BY DEF TestConditional
<1>. HIDE DEF q
<1>5. Whole(q, Len(users))
  BY <1>2, <1>3 DEF Whole, Place, HasUser, Past, Copying, Same
<1>. QED
  BY <1>1, <1>2, <1>3, <1>4, <1>5, TypesMove

(* A survey that cannot merge raises, and one that can ends.               *)
LEMMA SendQuestionStep ==
    ASSUME Types, NEW k \in DOMAIN procs, SendQuestion(k)
    PROVE  /\ Types' /\ Others(k) /\ k \in Working /\ procs'[k] = Done /\ UNCHANGED documents
           /\ procs[k].at = "send" /\ procs[k].kind = "survey"
           /\ \/ marks' = marks
              \/ Value(procs[k], items["question"]) = "none" /\ Raised("survey")
<1>1. procs[k].at = "send" /\ k \in Working /\ Whole(procs[k], Len(users))
  BY Itself DEF SendQuestion, At
<1>2. procs[k].kind = "survey"
  BY <1>1 DEF Whole, Place, MakeUser, Past, Copying
<1>3. CASE Value(procs[k], items["question"]) = "none" /\ Raise(k)
  BY <1>1, <1>2, <1>3, RaiseStep DEF Raised
<1>4. CASE Becomes(k, Done) /\ UNCHANGED <<documents, counts, marks>>
  BY <1>1, <1>2, <1>4, TypesMove DEF Moves
<1>. QED
  BY <1>3, <1>4, Zenon DEF SendQuestion, End
-----------------------------------------------------------------------------
(* Process p begins at place j.                                            *)
Began(p, j) ==
    /\ UNCHANGED documents
    /\ j \notin Working /\ DOMAIN procs' = DOMAIN procs \cup {j} /\ procs'[j] = p
    /\ \A l \in DOMAIN procs \ {j} : procs'[l] = procs[l]
    /\ marks'.stale = marks.stale /\ marks'.raised = marks.raised /\ marks'.away = marks.away
    /\ marks.met \subseteq marks'.met /\ \A l \in Working : {p.kind, procs[l].kind} \in marks'.met
    /\ marks.again => marks'.again
    /\ \A l \in Working : {p.kind, procs[l].kind} \in SurveyMeetsChange /\ marks.met \cap SurveyMeetsChange # {}
                              => marks'.again

(* What begins finds a free place, and meets all that are at work.         *)
LEMMA BeginStep ==
    ASSUME Types, NEW p, Whole(p, Len(users)), Begin(p), pages' \in Nat, surveys' \in Nat
    PROVE  Types' /\ \E j : Began(p, j)
<1>. DEFINE free == {k \in DOMAIN procs : procs[k] = Done}
            met == {{p.kind, procs[k].kind} : k \in Working}
            more == met \cap SurveyMeetsChange # {} /\ marks.met \cap SurveyMeetsChange # {}
<1>1. /\ procs' = IF free = {} THEN Append(procs, p) ELSE [procs EXCEPT ![Min(free)] = p]
      /\ marks' = [marks EXCEPT !.met = @ \cup met, !.again = @ \/ more]
      /\ UNCHANGED documents
  BY DEF Begin
<1>2. p \in Requests /\ p \in Requests \cup {Done} /\ p.kind \in RequestKinds
  BY Fields DEF Whole
<1>3. procs \in Seq(Requests \cup {Done}) /\ Len(procs) \in Nat /\ DOMAIN procs = 1 .. Len(procs)
  BY DEF Types
<1>4. \E j : /\ j \notin Working /\ DOMAIN procs' = DOMAIN procs \cup {j} /\ procs'[j] = p
             /\ \A l \in DOMAIN procs \ {j} : procs'[l] = procs[l]
             /\ procs' \in Seq(Requests \cup {Done})
  <2>1. CASE free = {}
    <3>1. procs' = Append(procs, p)
      BY <1>1, <2>1
    <3>2. Len(procs) + 1 \notin Working
      BY <1>3 DEF Working
    <3>3. /\ DOMAIN procs' = DOMAIN procs \cup {Len(procs) + 1} /\ procs'[Len(procs) + 1] = p
          /\ \A l \in DOMAIN procs \ {Len(procs) + 1} : procs'[l] = procs[l]
          /\ procs' \in Seq(Requests \cup {Done})
      BY <1>2, <1>3, <3>1
    <3>. QED
      BY <3>2, <3>3
  <2>2. CASE free # {}
    <3>. DEFINE j == Min(free)
    <3>1. free \subseteq Nat
      BY <1>3
    <3>2. j \in free
      BY <2>2, <3>1, LeastIsMember
    <3>3. procs' = [procs EXCEPT ![j] = p]
      BY <1>1, <2>2
    <3>. HIDE DEF j
    <3>4. j \in DOMAIN procs /\ j \notin Working
      BY <3>2 DEF Working, Done
    <3>5. /\ DOMAIN procs' = DOMAIN procs /\ procs'[j] = p /\ \A l \in DOMAIN procs \ {j} : procs'[l] = procs[l]
          /\ procs' \in Seq(Requests \cup {Done})
      BY <1>2, <1>3, <3>3, <3>4
    <3>6. DOMAIN procs' = DOMAIN procs \cup {j}
      BY <3>4, <3>5
    <3>. QED
      BY <3>4, <3>5, <3>6
  <2>. QED
    BY <2>1, <2>2
<1>5. PICK j : /\ j \notin Working /\ DOMAIN procs' = DOMAIN procs \cup {j} /\ procs'[j] = p
               /\ \A l \in DOMAIN procs \ {j} : procs'[l] = procs[l]
               /\ procs' \in Seq(Requests \cup {Done})
  BY <1>4
<1>6. \A k \in Working : procs[k].kind \in RequestKinds
  BY Fields DEF Types, Whole
<1>7. met \in SUBSET SUBSET RequestKinds
  BY <1>2, <1>6
<1>8. /\ marks' \in AllMarks /\ marks'.stale = marks.stale /\ marks'.raised = marks.raised
      /\ marks'.away = marks.away
      /\ marks'.met = marks.met \cup met /\ marks'.again = (marks.again \/ more)
  <2>. HIDE DEF met, more
  <2>. QED
    BY <1>1, <1>7 DEF Types, AllMarks
<1>9. Began(p, j)
  <2>1. \A l \in Working : {p.kind, procs[l].kind} \in met
    OBVIOUS
  <2>. HIDE DEF met
  <2>2. \A l \in Working : {p.kind, procs[l].kind} \in SurveyMeetsChange /\ marks.met \cap SurveyMeetsChange # {}
                              => marks'.again
    BY <1>8, <2>1
  <2>3. marks.met \subseteq marks'.met /\ (\A l \in Working : {p.kind, procs[l].kind} \in marks'.met)
        /\ (marks.again => marks'.again)
    BY <1>8, <2>1
  <2>. QED
    BY <1>1, <1>5, <1>8, <2>2, <2>3, Zenon DEF Began
<1>10. ASSUME NEW l \in Working'
       PROVE  Whole(procs'[l], Len(users'))
  <2>1. users' = users
    BY <1>1 DEF documents
  <2>2. l = j \/ (l \in Working /\ procs'[l] = procs[l])
    BY <1>5 DEF Working
  <2>. QED
    BY <1>5, <2>1, <2>2 DEF Types
<1>11. Types'
  BY <1>1, <1>5, <1>8, <1>10 DEF Types, documents
<1>. QED
  BY <1>9, <1>11

(* What a page or a survey knows of the documents when it begins.          *)
Starts(p) ==
    /\ p.kind \in RequestKinds
    /\ p.at \in {"attribute", "default", "rename", "set", "load", "row", "item", "set_attribute"}
    /\ p.at = "rename" =>
           p.kind = "edit_attribute" /\ p.name \in DOMAIN cohort /\ p.new \notin DOMAIN cohort
    /\ p.kind = "modify_item" => p.new \in DOMAIN cohort
    /\ p.compared \in DOMAIN cohort \cup {items["comparison"]}
    /\ p.kind = "survey" => \E u \in DOMAIN users : p.copy = users[u]

(* A page that is requested is whole.                                      *)
LEMMA RequestType ==
    ASSUME Types, NEW kind \in RequestKinds, NEW at \in RequestStates
    PROVE  /\ Request(kind, at) \in Requests
           /\ Request(kind, at).kind = kind /\ Request(kind, at).at = at
           /\ Request(kind, at).cohort = cohort /\ Request(kind, at).list = <<>>
           /\ Request(kind, at).user = 0 /\ Request(kind, at).copy = <<>>
           /\ Request(kind, at).compared = items["comparison"] /\ items["comparison"] \in Names
  BY AttributesAssumption, NoAttributes DEF Request, Requests, Types, Items

(* A page that begins is whole, and knows what it read.                    *)
LEMMA ArriveStep ==
    ASSUME Types, Arrive
    PROVE  Types' /\ \E p, j : Began(p, j) /\ Starts(p)
<1>0. cohort \in Attributes /\ Len(users) \in Nat /\ 1 \in 1 .. Len(users) /\ DOMAIN users = 1 .. Len(users)
      /\ \A u \in DOMAIN users : users[u] \in Attributes
  BY AttributesAssumption DEF Types
<1>1. ASSUME NEW p, BeginPage(p), Whole(p, Len(users)), Starts(p)
      PROVE  Types' /\ \E q, j : Began(q, j) /\ Starts(q)
  <2>1. Begin(p) /\ pages' \in Nat /\ surveys' \in Nat
    BY <1>1 DEF BeginPage, Types
  <2>2. Types' /\ \E j : Began(p, j)
    BY <1>1, <2>1, BeginStep
  <2>. QED
    BY <1>1, <2>2
<1>2. ASSUME NEW n \in Names, CreateUserAttribute(n)
      PROVE  \E p : BeginPage(p) /\ Whole(p, Len(users)) /\ Starts(p)
  <2>. DEFINE r == Request("create_attribute", "attribute")
              p == [r EXCEPT !.new = n]
  <2>1. BeginPage(p)
    BY <1>2 DEF CreateUserAttribute
  <2>2. r \in Requests /\ r.kind = "create_attribute" /\ r.at = "attribute" /\ r.list = <<>> /\ r.compared = items["comparison"] /\ r.copy = <<>>
    BY RequestType DEF RequestKinds, RequestStates
  <2>. HIDE DEF r
  <2>3. p \in Requests /\ p.kind = "create_attribute" /\ p.at = "attribute" /\ p.list = <<>> /\ p.compared = items["comparison"] /\ p.copy \in Attributes
    BY <2>2, NoAttributes DEF Requests
  <2>. HIDE DEF p
  <2>4. Whole(p, Len(users)) /\ Starts(p)
    BY <2>3 DEF Whole, Place, HasUser, Past, Copying, Starts, RequestKinds
  <2>. QED
    BY <2>1, <2>4
<1>3. ASSUME NEW n \in Names, NEW new \in Names, EditUserAttribute(n, new)
      PROVE  \E p : BeginPage(p) /\ Whole(p, Len(users)) /\ Starts(p)
  <2>. DEFINE at == IF new = n THEN "default" ELSE "rename"
              r == Request("edit_attribute", at)
              p == [r EXCEPT !.name = n, !.new = new]
  <2>1. BeginPage(p) /\ n \in DOMAIN cohort /\ (new = n \/ new \notin DOMAIN cohort)
    BY <1>3 DEF EditUserAttribute
  <2>2. /\ at \in {"default", "rename"} /\ at \in RequestStates
        /\ at = "rename" => new # n
    BY DEF RequestStates
  <2>. HIDE DEF at
  <2>3. /\ r \in Requests /\ r.kind = "edit_attribute" /\ r.at = at /\ r.list = <<>> /\ r.compared = items["comparison"] /\ r.copy = <<>>
        /\ r.cohort = cohort /\ r.user = 0
    BY <2>2, RequestType DEF RequestKinds
  <2>. HIDE DEF r
  <2>4. /\ p \in Requests /\ p.kind = "edit_attribute" /\ p.at = at /\ p.list = <<>> /\ p.compared = items["comparison"] /\ p.copy \in Attributes
        /\ p.cohort = cohort /\ p.user = 0 /\ p.name = n /\ p.new = new
    BY <2>3, NoAttributes DEF Requests
  <2>. HIDE DEF p
  <2>5. Whole(p, Len(users)) /\ Starts(p)
    BY <2>1, <2>2, <2>4 DEF Whole, Place, HasUser, Past, Copying, Starts, RequestKinds
  <2>. QED
    BY <2>1, <2>5
<1>4. ASSUME NEW u \in DOMAIN users, NEW n \in Names, SetUserAttribute(u, n)
      PROVE  \E p : BeginPage(p) /\ Whole(p, Len(users)) /\ Starts(p)
  <2>. DEFINE r == Request("edit_user", "set")
              p == [r EXCEPT !.user = u, !.copy = users[u], !.new = n]
  <2>1. BeginPage(p)
    BY <1>4 DEF SetUserAttribute
  <2>2. r \in Requests /\ r.kind = "edit_user" /\ r.at = "set" /\ r.list = <<>> /\ r.compared = items["comparison"]
    BY RequestType DEF RequestKinds, RequestStates
  <2>. HIDE DEF r
  <2>3. u \in Nat /\ u \in 1 .. Len(users) /\ users[u] \in Attributes
    BY <1>0
  <2>4. /\ p \in Requests /\ p.kind = "edit_user" /\ p.at = "set" /\ p.list = <<>> /\ p.compared = items["comparison"] /\ p.copy \in Attributes
        /\ p.user = u
    BY <2>2, <2>3 DEF Requests
  <2>. HIDE DEF p
  <2>5. Whole(p, Len(users)) /\ Starts(p)
    BY <2>3, <2>4 DEF Whole, Place, HasUser, Past, Copying, Starts, RequestKinds
  <2>. QED
    BY <2>1, <2>5
<1>5. ASSUME CreateUser
      PROVE  \E p : BeginPage(p) /\ Whole(p, Len(users)) /\ Starts(p)
  <2>. DEFINE p == Request("create_user", "load")
  <2>1. BeginPage(p)
    BY <1>5 DEF CreateUser
  <2>2. p \in Requests /\ p.kind = "create_user" /\ p.at = "load" /\ p.list = <<>> /\ p.compared = items["comparison"] /\ p.copy \in Attributes
    BY RequestType, NoAttributes DEF RequestKinds, RequestStates
  <2>. HIDE DEF p
  <2>3. Whole(p, Len(users)) /\ Starts(p)
    BY <2>2 DEF Whole, Place, HasUser, Past, Copying, Starts, RequestKinds, MakeUser
  <2>. QED
    BY <2>1, <2>3
<1>6. ASSUME NEW u \in {0, 1}, NEW n \in Names, NEW option, UploadUserFile(u, n, option)
      PROVE  \E p : BeginPage(p) /\ Whole(p, Len(users)) /\ Starts(p)
  <2>. DEFINE at == IF n \in DOMAIN cohort THEN "row" ELSE "attribute"
              r == Request("upload", at)
              p == [r EXCEPT !.user = u, !.new = n]
  <2>1. BeginPage(p)
    BY <1>6 DEF UploadUserFile
  <2>2. at \in {"row", "attribute"} /\ at \in RequestStates
    BY DEF RequestStates
  <2>. HIDE DEF at
  <2>3. r \in Requests /\ r.kind = "upload" /\ r.at = at /\ r.list = <<>> /\ r.compared = items["comparison"] /\ r.copy = <<>>
    BY <2>2, RequestType DEF RequestKinds
  <2>. HIDE DEF r
  <2>4. u \in Nat /\ u \in 0 .. Len(users)
    BY <1>0
  <2>5. /\ p \in Requests /\ p.kind = "upload" /\ p.at = at /\ p.list = <<>> /\ p.compared = items["comparison"] /\ p.copy \in Attributes
        /\ p.user = u
    BY <2>3, <2>4, NoAttributes DEF Requests
  <2>. HIDE DEF p
  <2>6. Whole(p, Len(users)) /\ Starts(p)
    BY <2>2, <2>4, <2>5 DEF Whole, Place, HasUser, Past, Copying, Starts, RequestKinds
  <2>. QED
    BY <2>1, <2>6
<1>7. ASSUME NEW i \in Documents, NEW n \in Names, NEW m \in Names, ModifyItem(i, n, m)
      PROVE  \E p : BeginPage(p) /\ Whole(p, Len(users)) /\ Starts(p)
  <2>. DEFINE r == Request("modify_item", "item")
              one == <<i>>
              p == [r EXCEPT !.items = one, !.new = n, !.compared = m]
  <2>1. BeginPage(p) /\ n \in DOMAIN cohort /\ m \in DOMAIN cohort
    BY <1>7 DEF ModifyItem
  <2>2. r \in Requests /\ r.kind = "modify_item" /\ r.at = "item" /\ r.list = <<>> /\ r.compared = items["comparison"] /\ r.copy = <<>>
    BY RequestType DEF RequestKinds, RequestStates
  <2>3. one \in Seq(Documents) /\ one # <<>>
    OBVIOUS
  <2>. HIDE DEF r, one
  <2>4. /\ p \in Requests /\ p.kind = "modify_item" /\ p.at = "item" /\ p.list = <<>> /\ p.compared = m /\ p.copy \in Attributes
        /\ p.items = one /\ p.new = n
    BY <2>2, <2>3, NoAttributes DEF Requests
  <2>. HIDE DEF p
  <2>5. Whole(p, Len(users)) /\ Starts(p)
    BY <2>1, <2>3, <2>4 DEF Whole, Place, HasUser, Past, Copying, Starts, RequestKinds
  <2>. QED
    BY <2>1, <2>5
<1>8. \E p : BeginPage(p) /\ Whole(p, Len(users)) /\ Starts(p)
  BY <1>2, <1>3, <1>4, <1>5, <1>6, <1>7, Zenon DEF Arrive
<1>. QED
  BY <1>1, <1>8

(* So is a survey.                                                         *)
LEMMA BeginSurveyStep ==
    ASSUME Types, NEW u \in DOMAIN users, BeginSurvey(u)
    PROVE  Types' /\ \E p, j : Began(p, j) /\ Starts(p)
<1>. DEFINE r == Request("survey", "set_attribute")
            n == items["schedule"]
            p == [r EXCEPT !.user = u, !.copy = users[u], !.new = n]
<1>1. Begin(p) /\ surveys' \in Nat /\ pages' \in Nat
  BY DEF BeginSurvey, Types
<1>2. r \in Requests /\ r.kind = "survey" /\ r.at = "set_attribute" /\ r.list = <<>> /\ r.compared = items["comparison"]
  BY RequestType DEF RequestKinds, RequestStates
<1>3. u \in Nat /\ u \in 1 .. Len(users) /\ users[u] \in Attributes /\ n \in Names
  BY DEF Types, Items, Documents
<1>. HIDE DEF r, n
<1>4. /\ p \in Requests /\ p.kind = "survey" /\ p.at = "set_attribute" /\ p.list = <<>> /\ p.compared = items["comparison"] /\ p.copy = users[u]
      /\ p.user = u
  BY <1>2, <1>3 DEF Requests
<1>. HIDE DEF p
<1>5. Whole(p, Len(users)) /\ Starts(p)
  BY <1>3, <1>4 DEF Whole, Place, HasUser, Past, Copying, Starts, RequestKinds
<1>6. Types' /\ \E j : Began(p, j)
  BY <1>1, <1>5, BeginStep
<1>. QED
  BY <1>5, <1>6
-----------------------------------------------------------------------------
(* Two that are at work have met.                                          *)
PairsMet == \A k, l \in Working : k # l => {procs[k].kind, procs[l].kind} \in marks.met

(* Nothing happened that the properties excuse.                            *)
Apart == ~marks.stale /\ ~Met(MakeUser, Change) /\ ~Met(Rename, Change)

(* The process has a user on its list to give an attribute to.             *)
WillGive(p, u, n) ==
    /\ p.new = n
    /\ \/ p.at = "users" /\ \E i \in DOMAIN p.list : p.list[i][1] = u
       \/ p.at = "copy" /\ \E i \in DOMAIN p.list : i > p.user /\ p.list[i][1] = u

(* A user has an attribute, or is about to be given it.                    *)
Coming(u, n) == n \in DOMAIN users[u] \/ \E k \in Working : WillGive(procs[k], u, n)

(* So it is with all users and all attributes of the cohort.               *)
AllComing == \A u \in DOMAIN users : \A n \in DOMAIN cohort : Coming(u, n)

(* What a process has read is still so.                                    *)
Knows(p) ==
    /\ p.at = "insert" => DOMAIN cohort \subseteq DOMAIN p.copy
    /\ p.at = "rename" => p.name \in DOMAIN cohort /\ p.new \notin DOMAIN cohort
    /\ p.at \in Past => p.name \notin DOMAIN cohort /\ p.new \in DOMAIN cohort
    /\ p.at \in Copying =>
           /\ \A u \in DOMAIN users : p.name \in DOMAIN users[u]
           /\ \A i \in DOMAIN p.list : p.name \in DOMAIN p.list[i][2]

(* So it is with all processes.                                            *)
AllKnow == \A k \in Working : Knows(procs[k])

(* What makes UsersHaveAttributes inductive.                               *)
Users == AllComing /\ AllKnow /\ "edit_attribute" \notin marks.raised

(* Two at work have met, whatever their kinds.                             *)
LEMMA Together ==
    ASSUME PairsMet, NEW k \in Working, NEW l \in Working, k # l, NEW S, NEW T,
           procs[k].kind \in S, procs[l].kind \in T
    PROVE  Met(S, T)
  BY DEF PairsMet, Met

(* Of what kind a process is that is somewhere.                            *)
LEMMA Kind ==
    ASSUME Types, NEW k \in Working
    PROVE  /\ procs[k].at = "insert" => procs[k].kind \in MakeUser
           /\ procs[k].at \in {"rename"} \cup Past => procs[k].kind \in Rename
           /\ procs[k].at \in {"users", "copy"} => procs[k].kind \in Change
           /\ procs[k].kind = "survey" => procs[k].at \in {"set_attribute", "test", "send"}
           /\ procs[k].kind = "modify_item" => procs[k].at = "item"
<1>1. Place(procs[k].kind, procs[k].at)
  BY DEF Types, Whole
<1>. QED
  BY <1>1 DEF Place, MakeUser, Rename, Change, Past, Copying

(* A process goes on as what it is, or ends.                               *)
GoesOn(k) == Others(k) /\ k \in Working /\ (procs'[k] = Done \/ procs'[k].kind = procs[k].kind)

(* Who is at work after a step.                                            *)
LEMMA WorkingStays ==
    ASSUME NEW k, GoesOn(k)
    PROVE  /\ Working' \subseteq Working
           /\ \A l \in Working \ {k} : l \in Working' /\ procs'[l] = procs[l]
           /\ procs'[k] # Done => k \in Working'
           /\ k \in Working' => procs'[k].kind = procs[k].kind
           /\ \A l \in Working' : procs'[l].kind = procs[l].kind
  BY DEF GoesOn, Others, Working, Done

(* No pair is forgotten, and no process changes its kind.                  *)
LEMMA PairsMetKept ==
    ASSUME PairsMet, NEW k, GoesOn(k), marks'.met = marks.met
    PROVE  PairsMet'
<1>1. Working' \subseteq Working /\ \A l \in Working' : procs'[l].kind = procs[l].kind
  BY WorkingStays
<1>. QED
  BY <1>1 DEF PairsMet

(* What begins meets all that are at work.                                 *)
LEMMA PairsMetBegun ==
    ASSUME Types, PairsMet, NEW p, NEW j, Began(p, j)
    PROVE  PairsMet'
<1>1. \A l \in Working' : l = j \/ (l \in Working /\ procs'[l] = procs[l])
  BY DEF Began, Working
<1>2. /\ procs'[j] = p /\ marks.met \subseteq marks'.met
      /\ \A l \in Working : {p.kind, procs[l].kind} \in marks'.met
  BY DEF Began
<1>3. ASSUME NEW k \in Working', NEW l \in Working', k # l
      PROVE  {procs'[k].kind, procs'[l].kind} \in marks'.met
  <2>1. CASE k = j
    BY <1>1, <1>2, <1>3, <2>1
  <2>2. CASE l = j
    <3>1. {procs'[k].kind, procs'[l].kind} = {procs'[l].kind, procs'[k].kind}
      OBVIOUS
    <3>. QED
      BY <1>1, <1>2, <1>3, <2>2, <3>1
  <2>3. CASE k # j /\ l # j
    BY <1>1, <1>2, <1>3, <2>3 DEF PairsMet
  <2>. QED
    BY <2>1, <2>2, <2>3
<1>. QED
  BY <1>3 DEF PairsMet

(* A step that takes no attribute from a user, nor changes the cohort's.   *)
Light(k) ==
    /\ GoesOn(k) /\ Grow
    /\ marks'.met = marks.met /\ marks'.again = marks.again
    /\ marks.stale => marks'.stale
    /\ ~marks'.stale => DOMAIN cohort' = DOMAIN cohort
    /\ "edit_attribute" \in marks'.raised => "edit_attribute" \in marks.raised

(* What was apart was so before.                                           *)
LEMMA ApartBefore ==
    ASSUME marks.met \subseteq marks'.met, marks.stale => marks'.stale, Apart'
    PROVE  Apart
  BY DEF Apart, Met

(* A light step keeps what users have, if what the process was to give is  *)
(* given or still to be given.                                             *)
LEMMA UsersLight ==
    ASSUME Types, Users, NEW k, Light(k), ~marks'.stale,
           procs'[k] = Done \/ Knows(procs[k])',
           \A u \in DOMAIN users : \A n \in DOMAIN cohort : WillGive(procs[k], u, n) =>
               n \in DOMAIN users'[u] \/ (procs'[k] # Done /\ WillGive(procs'[k], u, n))
    PROVE  Users'
<1>1. /\ Working' \subseteq Working /\ \A l \in Working \ {k} : l \in Working' /\ procs'[l] = procs[l]
      /\ procs'[k] # Done => k \in Working'
  BY WorkingStays DEF Light
<1>2. /\ DOMAIN users' = DOMAIN users /\ DOMAIN cohort' = DOMAIN cohort
      /\ \A v \in DOMAIN users : DOMAIN users[v] \subseteq DOMAIN users'[v]
      /\ "edit_attribute" \notin marks'.raised
  BY DEF Light, Grow, Users
<1>3. ASSUME NEW u \in DOMAIN users', NEW n \in DOMAIN cohort'
      PROVE  Coming(u, n)'
  <2>1. u \in DOMAIN users /\ n \in DOMAIN cohort /\ Coming(u, n)
    BY <1>2, <1>3 DEF Users, AllComing
  <2>2. CASE n \in DOMAIN users[u]
    BY <1>2, <2>1, <2>2 DEF Coming
  <2>3. CASE \E l \in Working : WillGive(procs[l], u, n)
    <3>1. PICK l \in Working : WillGive(procs[l], u, n)
      BY <2>3
    <3>2. CASE l = k
      BY <1>1, <2>1, <3>1, <3>2 DEF Coming
    <3>3. CASE l # k
      <4>1. l \in Working' /\ procs'[l] = procs[l]
        BY <1>1, <3>1, <3>3
      <4>2. WillGive(procs'[l], u, n)
        BY <3>1, <4>1
      <4>. QED
        BY <4>1, <4>2 DEF Coming
    <3>. QED
      BY <3>2, <3>3
  <2>. QED
    BY <2>1, <2>2, <2>3 DEF Coming
<1>4. ASSUME NEW l \in Working'
      PROVE  Knows(procs[l])'
  <2>1. CASE l = k
    <3>1. procs'[k] # Done
      BY <1>4, <2>1 DEF Working, Done
    <3>. QED
      BY <2>1, <3>1
  <2>2. CASE l # k
    <3>1. l \in Working /\ procs'[l] = procs[l] /\ Knows(procs[l])
      BY <1>1, <1>4, <2>2 DEF Users, AllKnow
    <3>. QED
      BY <1>2, <3>1 DEF Knows
  <2>. QED
    BY <2>1, <2>2
<1>. QED
  BY <1>2, <1>3, <1>4 DEF Users, AllComing, AllKnow

(* A process that saves no user's loss, and no change of the names.        *)
LightAction(k) ==
    \/ AddToUser(k) \/ AddedToUsers(k) \/ ChangeDefault(k) \/ LoadItem(k) \/ SaveItem(k)
    \/ SaveUserAttribute(k) \/ ParseRow(k) \/ LoadCohort(k) \/ AddDefaults(k) \/ WriteItem(k)
    \/ SetAttribute(k) \/ TestConditional(k) \/ SendQuestion(k)

(* A move is light.                                                        *)
LEMMA MovesLight ==
    ASSUME NEW k, Moves(k), procs'[k] = Done \/ procs'[k].kind = procs[k].kind
    PROVE  Light(k)
  BY DEF Moves, Light, GoesOn, Grow, documents

(* To set a value is light.                                                *)
LEMMA ToldLight ==
    ASSUME NEW k, Told(k), procs'[k] = Done \/ procs'[k].kind = procs[k].kind
    PROVE  Light(k)
  BY DEF Told, Light, GoesOn, Quiet

(* A user who is given an attribute loses none.                            *)
LEMMA GiveGrows ==
    ASSUME Types, NEW k \in DOMAIN procs, AddToUser(k)
    PROVE  Grow
<1>. DEFINE u == procs[k].list[1][1]
            copy == procs[k].list[1][2]
<1>1. /\ DOMAIN users' = DOMAIN users /\ DOMAIN users'[u] = DOMAIN copy \cup {procs[k].new}
      /\ \A v \in DOMAIN users \ {u} : users'[v] = users[v]
      /\ ~marks'.stale => users[u] = copy
  BY AddToUserStep
<1>. HIDE DEF u, copy
<1>. QED
  BY <1>1 DEF Grow

(* All these steps are light.                                              *)
LEMMA LightStep ==
    ASSUME Types, NEW k \in DOMAIN procs, LightAction(k)
    PROVE  Light(k)
<1>1. CASE AddToUser(k)
  <2>1. Others(k) /\ k \in Working /\ Quiet /\ procs'[k].kind = procs[k].kind /\ cohort' = cohort
    BY <1>1, AddToUserStep DEF Same
  <2>. QED
    BY <1>1, <2>1, GiveGrows DEF Light, GoesOn, Quiet
<1>2. CASE AddedToUsers(k)
  <2>1. Others(k) /\ k \in Working /\ UNCHANGED documents /\ marks' = marks
        /\ (procs'[k] = Done \/ procs'[k].kind = procs[k].kind)
    BY <1>2, AddedToUsersStep DEF Same
  <2>. QED
    BY <2>1, MovesLight DEF Moves
<1>3. CASE ChangeDefault(k)
  <2>1. Others(k) /\ k \in Working /\ Quiet /\ procs'[k] = Done /\ users' = users
        /\ (~marks'.stale => DOMAIN cohort' = DOMAIN cohort)
    BY <1>3, ChangeDefaultStep
  <2>. QED
    BY <2>1 DEF Light, GoesOn, Quiet, Grow
<1>4. CASE LoadItem(k)
  <2>1. Moves(k) /\ procs'[k].kind = procs[k].kind
    BY <1>4, LoadItemStep DEF LoadedItem, Same
  <2>. QED
    BY <2>1, MovesLight
<1>5. CASE SaveItem(k)
  <2>1. Others(k) /\ k \in Working /\ Quiet /\ cohort' = cohort /\ users' = users
        /\ procs'[k].kind = procs[k].kind
    BY <1>5, SaveItemStep DEF SavedItem, Same
  <2>. QED
    BY <2>1 DEF Light, GoesOn, Quiet, Grow
<1>6. CASE SaveUserAttribute(k)
  BY <1>6, SaveUserAttributeStep, ToldLight
<1>7. CASE ParseRow(k)
  BY <1>7, ParseRowStep, MovesLight DEF Same
<1>8. CASE LoadCohort(k)
  BY <1>8, LoadCohortStep, MovesLight DEF Same
<1>9. CASE AddDefaults(k)
  BY <1>9, AddDefaultsStep, ToldLight
<1>10. CASE WriteItem(k)
  <2>1. Others(k) /\ k \in Working /\ procs'[k] = Done /\ marks' = marks /\ cohort' = cohort /\ users' = users
    BY <1>10, WriteItemStep
  <2>. QED
    BY <2>1 DEF Light, GoesOn, Grow
<1>11. CASE SetAttribute(k)
  BY <1>11, SetAttributeStep, ToldLight DEF Same
<1>12. CASE TestConditional(k)
  BY <1>12, TestConditionalStep, MovesLight DEF Same
<1>13. CASE SendQuestion(k)
  <2>1. /\ Others(k) /\ k \in Working /\ procs'[k] = Done /\ UNCHANGED documents
        /\ marks' = marks \/ Raised("survey")
    BY <1>13, SendQuestionStep
  <2>2. UNCHANGED <<cohort, users>>
    BY <2>1 DEF documents
  <2>3. /\ marks'.met = marks.met /\ marks'.again = marks.again /\ marks'.stale = marks.stale
        /\ "edit_attribute" \in marks'.raised => "edit_attribute" \in marks.raised
    BY <2>1 DEF Raised, Types, AllMarks
  <2>. QED
    BY <2>1, <2>2, <2>3 DEF Light, GoesOn, Grow
<1>. QED
  BY <1>1, <1>2, <1>3, <1>4, <1>5, <1>6, <1>7, <1>8, <1>9, <1>10, <1>11, <1>12, <1>13, Zenon DEF LightAction

(* What ends, or is somewhere where it need know nothing.                  *)
Careless(k) == procs'[k] = Done \/ procs'[k].at \notin {"insert", "rename"} \cup Past

(* Such a process knows what it need know.                                 *)
LEMMA CarelessKnows ==
    ASSUME NEW k, Careless(k)
    PROVE  procs'[k] = Done \/ Knows(procs[k])'
  BY DEF Careless, Knows, Past, Copying

(* Who gives attributes is in one of two places.                           *)
LEMMA GivesNothing ==
    ASSUME NEW k, procs[k].at \notin {"users", "copy"}
    PROVE  \A u, n : ~WillGive(procs[k], u, n)
  BY DEF WillGive

(* The users have, or are about to be given, the attributes after a light  *)
(* step.                                                                   *)
LEMMA UsersAfterLight ==
    ASSUME Types, Users, NEW k \in DOMAIN procs, LightAction(k), ~marks'.stale
    PROVE  Users'
<1>0. Light(k)
  BY LightStep
<1>1. CASE AddToUser(k)
  <2>. DEFINE list == procs[k].list
              u == list[1][1]
              copy == list[1][2]
              new == procs[k].new
  <2>1. /\ procs[k].at = "users" /\ list \in Seq(Entries) /\ list # <<>>
        /\ procs'[k].new = new /\ procs'[k].at = "users" /\ procs'[k].list = Tail(list)
        /\ DOMAIN users'[u] = DOMAIN copy \cup {new}
    BY <1>1, AddToUserStep DEF Same
  <2>2. /\ \A i \in DOMAIN list \ {1} : i - 1 \in DOMAIN Tail(list) /\ Tail(list)[i - 1] = list[i]
    BY <2>1, ShorterList
  <2>3. ASSUME NEW v \in DOMAIN users, NEW n \in DOMAIN cohort, WillGive(procs[k], v, n)
        PROVE  n \in DOMAIN users'[v] \/ (procs'[k] # Done /\ WillGive(procs'[k], v, n))
    <3>1. n = new /\ \E i \in DOMAIN list : list[i][1] = v
      BY <2>1, <2>3 DEF WillGive
    <3>2. PICK i \in DOMAIN list : list[i][1] = v
      BY <3>1
    <3>3. CASE i = 1
      BY <2>1, <3>1, <3>2, <3>3
    <3>4. CASE i # 1
      <4>1. i - 1 \in DOMAIN procs'[k].list /\ procs'[k].list[i - 1][1] = v
        BY <2>1, <2>2, <3>2, <3>4
      <4>. QED
        BY <2>1, <3>1, <4>1 DEF WillGive, Done
    <3>. QED
      BY <3>3, <3>4
  <2>4. Careless(k)
    BY <2>1 DEF Careless, Past, Copying
  <2>. HIDE DEF list, u, copy, new
  <2>. QED
    BY <1>0, <2>3, <2>4, CarelessKnows, UsersLight
<1>2. CASE AddedToUsers(k)
  <2>1. procs[k].at = "users" /\ procs[k].list = <<>> /\ (procs'[k] = Done \/ procs'[k].at = "row")
    BY <1>2, AddedToUsersStep
  <2>2. \A u, n : ~WillGive(procs[k], u, n)
    BY <2>1 DEF WillGive
  <2>3. Careless(k)
    BY <2>1 DEF Careless, Past, Copying
  <2>. QED
    BY <1>0, <2>2, <2>3, CarelessKnows, UsersLight
<1>3. ASSUME procs[k].at \notin {"users", "copy"}, Careless(k)
      PROVE  Users'
  BY <1>0, <1>3, CarelessKnows, GivesNothing, UsersLight
<1>4. CASE ChangeDefault(k)
  BY <1>3, <1>4, ChangeDefaultStep DEF Careless
<1>5. CASE LoadItem(k)
  <2>1. /\ k \in Working /\ procs[k].at = "load_item" /\ Same(procs[k], procs'[k]) /\ procs'[k].list = procs[k].list
        /\ procs'[k].at \in {"remove", "save_item"} /\ cohort' = cohort /\ users' = users
    BY <1>5, LoadItemStep DEF LoadedItem, Moves, documents
  <2>2. Knows(procs[k])
    BY <2>1 DEF Users, AllKnow
  <2>3. Knows(procs[k])'
    BY <2>1, <2>2 DEF Knows, Past, Copying, Same
  <2>. QED
    BY <1>0, <2>1, <2>3, GivesNothing, UsersLight
<1>6. CASE SaveItem(k)
  <2>1. /\ k \in Working /\ procs[k].at = "save_item" /\ Same(procs[k], procs'[k]) /\ procs'[k].list = procs[k].list
        /\ procs'[k].at = "load_item" /\ cohort' = cohort /\ users' = users
    BY <1>6, SaveItemStep DEF SavedItem
  <2>2. Knows(procs[k])
    BY <2>1 DEF Users, AllKnow
  <2>3. Knows(procs[k])'
    BY <2>1, <2>2 DEF Knows, Past, Copying, Same
  <2>. QED
    BY <1>0, <2>1, <2>3, GivesNothing, UsersLight
<1>7. CASE SaveUserAttribute(k)
  BY <1>3, <1>7, SaveUserAttributeStep DEF Careless
<1>8. CASE ParseRow(k)
  <2>1. procs[k].at = "row" /\ procs'[k].at \in {"load", "set"}
    BY <1>8, ParseRowStep
  <2>. QED
    BY <1>3, <2>1 DEF Careless, Past, Copying
<1>9. CASE LoadCohort(k)
  <2>1. procs[k].at = "load" /\ procs'[k].at = "insert" /\ procs'[k].copy = cohort /\ cohort' = cohort
    BY <1>9, LoadCohortStep DEF Moves, documents
  <2>2. Knows(procs[k])'
    BY <2>1 DEF Knows, Past, Copying
  <2>. QED
    BY <1>0, <2>1, <2>2, GivesNothing, UsersLight
<1>10. CASE AddDefaults(k)
  BY <1>3, <1>10, AddDefaultsStep DEF Careless
<1>11. CASE WriteItem(k)
  BY <1>3, <1>11, WriteItemStep DEF Careless
<1>12. CASE SetAttribute(k)
  <2>1. procs[k].at = "set_attribute" /\ procs'[k].at = "test"
    BY <1>12, SetAttributeStep
  <2>. QED
    BY <1>3, <2>1 DEF Careless, Past, Copying
<1>13. CASE TestConditional(k)
  <2>1. procs[k].at = "test" /\ procs'[k].at = "send"
    BY <1>13, TestConditionalStep
  <2>. QED
    BY <1>3, <2>1 DEF Careless, Past, Copying
<1>14. CASE SendQuestion(k)
  BY <1>3, <1>14, SendQuestionStep DEF Careless
<1>. QED
  BY <1>1, <1>2, <1>4, <1>5, <1>6, <1>7, <1>8, <1>9, <1>10, <1>11, <1>12, <1>13, <1>14, Zenon DEF LightAction

(* Copying goes on, and does not raise.                                    *)
LEMMA CopyIsLight ==
    ASSUME Types, Users, NEW k \in DOMAIN procs, CopyInUser(k)
    PROVE  Light(k) /\ (CopiedAll(k) \/ \E i \in DOMAIN procs[k].list : CopiedOne(k, i))
<1>1. /\ Others(k) /\ k \in Working /\ procs[k].at = "copy"
      /\ \/ CopiedAll(k)
         \/ \E i \in DOMAIN procs[k].list : CopiedOne(k, i)
         \/ \E i \in DOMAIN procs[k].list : procs[k].name \notin DOMAIN procs[k].list[i][2]
  BY CopyInUserStep
<1>2. \A i \in DOMAIN procs[k].list : procs[k].name \in DOMAIN procs[k].list[i][2]
  BY <1>1 DEF Users, AllKnow, Knows, Copying
<1>3. ASSUME CopiedAll(k)
      PROVE  Light(k)
  BY <1>1, <1>3 DEF CopiedAll, Light, GoesOn, Grow, Same, documents
<1>4. ASSUME NEW i \in DOMAIN procs[k].list, CopiedOne(k, i)
      PROVE  Light(k)
  <2>. DEFINE u == procs[k].list[i][1]
              copy == procs[k].list[i][2]
  <2>1. /\ DOMAIN users' = DOMAIN users /\ DOMAIN users'[u] = DOMAIN copy \cup {procs[k].new}
        /\ \A v \in DOMAIN users \ {u} : users'[v] = users[v]
        /\ ~marks'.stale => users[u] = copy
        /\ Quiet /\ cohort' = cohort /\ procs'[k].kind = procs[k].kind
    BY <1>4 DEF CopiedOne, Same
  <2>. HIDE DEF u, copy
  <2>2. Grow
    BY <2>1 DEF Grow
  <2>. QED
    BY <1>1, <2>1, <2>2 DEF Light, GoesOn, Quiet
<1>. QED
  BY <1>1, <1>2, <1>3, <1>4

(* After a step of the copying: the list knows what was copied.            *)
LEMMA UsersAfterCopy ==
    ASSUME Types, Users, NEW k \in DOMAIN procs, CopyInUser(k), ~marks'.stale
    PROVE  Users'
<1>1. k \in Working /\ procs[k].at = "copy"
  BY CopyInUserStep
<1>2. Knows(procs[k])
  BY <1>1 DEF Users, AllKnow
<1>3. procs[k].list \in Seq(Entries) /\ procs[k].user \in Nat
  BY <1>1, Fields DEF Types, Whole
<1>4. CASE CopiedAll(k)
  <2>1. /\ Same(procs[k], procs'[k]) /\ procs'[k].list = procs[k].list /\ procs'[k].at = "load_item"
        /\ cohort' = cohort /\ users' = users /\ \A i \in DOMAIN procs[k].list : i <= procs[k].user
    BY <1>4 DEF CopiedAll, documents
  <2>2. Knows(procs[k])'
    BY <1>1, <1>2, <2>1 DEF Knows, Past, Copying, Same
  <2>3. \A i \in DOMAIN procs[k].list : ~(i > procs[k].user)
    BY <1>3, <2>1
  <2>4. \A u, n : ~WillGive(procs[k], u, n)
    BY <1>1, <2>3 DEF WillGive
  <2>. QED
    BY <2>2, <2>4, CopyIsLight, UsersLight
<1>5. ASSUME NEW i \in DOMAIN procs[k].list, CopiedOne(k, i)
      PROVE  Users'
  <2>. DEFINE r == procs[k]
              q == procs'[k]
              u == r.list[i][1]
              copy == r.list[i][2]
  <2>1. /\ q.name = r.name /\ q.new = r.new /\ q.at = "copy" /\ q.user = i /\ i = r.user + 1
        /\ DOMAIN q.list = DOMAIN r.list /\ r.name \in DOMAIN copy
        /\ \A j \in DOMAIN r.list \ {i} : q.list[j] = r.list[j]
        /\ q.list[i][2] = users'[u] /\ DOMAIN users' = DOMAIN users
        /\ DOMAIN users'[u] = DOMAIN copy \cup {r.new}
        /\ cohort' = cohort
    BY <1>5 DEF CopiedOne, Same
  <2>2. Light(k) /\ \A v \in DOMAIN users : DOMAIN users[v] \subseteq DOMAIN users'[v]
    BY CopyIsLight DEF Light, Grow
  <2>3. /\ \A v \in DOMAIN users : r.name \in DOMAIN users[v]
        /\ \A j \in DOMAIN r.list : r.name \in DOMAIN r.list[j][2]
        /\ r.name \notin DOMAIN cohort /\ r.new \in DOMAIN cohort
    BY <1>1, <1>2 DEF Knows, Past, Copying
  <2>4. Knows(procs[k])'
    <3>1. \A v \in DOMAIN users' : q.name \in DOMAIN users'[v]
      BY <2>1, <2>2, <2>3
    <3>2. \A j \in DOMAIN q.list : q.name \in DOMAIN q.list[j][2]
      <4>. SUFFICES ASSUME NEW j \in DOMAIN q.list PROVE q.name \in DOMAIN q.list[j][2]
        OBVIOUS
      <4>1. CASE j = i
        BY <2>1, <4>1
      <4>2. CASE j # i
        BY <2>1, <2>3, <4>2
      <4>. QED
        BY <4>1, <4>2
    <3>. QED
      BY <2>1, <2>3, <3>1, <3>2 DEF Knows, Past, Copying
  <2>5. ASSUME NEW v \in DOMAIN users, NEW n \in DOMAIN cohort, WillGive(procs[k], v, n)
        PROVE  n \in DOMAIN users'[v] \/ (procs'[k] # Done /\ WillGive(procs'[k], v, n))
    <3>1. n = r.new /\ \E j \in DOMAIN r.list : j > r.user /\ r.list[j][1] = v
      BY <1>1, <2>5 DEF WillGive
    <3>2. PICK j \in DOMAIN r.list : j > r.user /\ r.list[j][1] = v
      BY <3>1
    <3>3. CASE j = i
      BY <2>1, <3>1, <3>2, <3>3
    <3>4. CASE j # i
      <4>1. j > i
        BY <1>3, <2>1, <3>2, <3>4
      <4>2. j \in DOMAIN q.list /\ q.list[j][1] = v
        BY <2>1, <3>2, <3>4
      <4>. QED
        BY <2>1, <3>1, <4>1, <4>2 DEF WillGive, Done
    <3>. QED
      BY <3>3, <3>4
  <2>. HIDE DEF r, q, u, copy
  <2>. QED
    BY <2>2, <2>4, <2>5, UsersLight
<1>. QED
  BY <1>4, <1>5, CopyIsLight

(* Removing takes the old name from a user, which is no attribute any more.*)
LEMMA UsersAfterRemove ==
    ASSUME Types, PairsMet, Apart', Users, NEW k \in DOMAIN procs, RemoveFromUser(k)
    PROVE  Users'
<1>1. CASE Moves(k) /\ procs'[k] = Done
  <2>1. procs[k].at = "remove"
    BY DEF RemoveFromUser, At
  <2>2. Light(k) /\ ~marks'.stale
    BY <1>1, MovesLight DEF Apart
  <2>. QED
    BY <1>1, <2>1, <2>2, GivesNothing, UsersLight
<1>2. CASE Removed(k)
  <2>. DEFINE r == procs[k]
              u == r.list[1][1]
              copy == r.list[1][2]
  <2>1. /\ Others(k) /\ k \in Working /\ Quiet /\ cohort' = cohort
        /\ r.at = "remove" /\ r.kind = "edit_attribute" /\ procs'[k].kind = r.kind
        /\ procs'[k].name = r.name /\ procs'[k].new = r.new /\ procs'[k].at = "remove"
        /\ DOMAIN users' = DOMAIN users /\ DOMAIN users'[u] = DOMAIN copy \ {r.name}
        /\ \A v \in DOMAIN users \ {u} : users'[v] = users[v]
        /\ ~marks'.stale => users[u] = copy
    BY <1>2 DEF Removed, Same
  <2>2. /\ GoesOn(k) /\ Working' \subseteq Working
        /\ \A l \in Working \ {k} : l \in Working' /\ procs'[l] = procs[l]
    BY <2>1, WorkingStays DEF GoesOn
  <2>3. Apart /\ ~marks'.stale
    BY <2>1, ApartBefore DEF Quiet, Apart
  <2>4. \A v \in DOMAIN users : \A n \in DOMAIN users[v] : n # r.name => n \in DOMAIN users'[v]
    BY <2>1, <2>3
  <2>5. r.name \notin DOMAIN cohort /\ r.new \in DOMAIN cohort
    BY <2>1 DEF Users, AllKnow, Knows, Past
  <2>6. AllComing'
    <3>. SUFFICES ASSUME NEW v \in DOMAIN users', NEW n \in DOMAIN cohort' PROVE Coming(v, n)'
      BY DEF AllComing
    <3>1. v \in DOMAIN users /\ n \in DOMAIN cohort /\ Coming(v, n) /\ n # r.name
      BY <2>1, <2>5 DEF Users, AllComing
    <3>2. CASE n \in DOMAIN users[v]
      BY <2>4, <3>1, <3>2 DEF Coming
    <3>3. ASSUME NEW l \in Working, WillGive(procs[l], v, n)
          PROVE  Coming(v, n)'
      <4>1. l # k
        BY <2>1, <3>3 DEF WillGive
      <4>2. l \in Working' /\ procs'[l] = procs[l]
        BY <2>2, <4>1
      <4>3. WillGive(procs'[l], v, n)
        BY <3>3, <4>2
      <4>. QED
        BY <4>2, <4>3 DEF Coming
    <3>. QED
      BY <3>1, <3>2, <3>3 DEF Coming
  <2>7. ASSUME NEW l \in Working'
        PROVE  Knows(procs[l])'
    <3>1. CASE l = k
      BY <2>1, <2>5, <3>1 DEF Knows, Past, Copying
    <3>2. CASE l # k
      <4>1. l \in Working /\ procs'[l] = procs[l] /\ Knows(procs[l])
        BY <2>2, <3>2 DEF Users, AllKnow
      <4>2. procs[l].at \notin Copying
        <5>1. procs[l].at \in Copying => procs[l].kind \in Rename
          BY <4>1, Kind DEF Past
        <5>2. procs[l].kind \in Rename => Met(Rename, Change)
          BY <2>1, <3>2, <4>1, Together DEF Rename, Change
        <5>. QED
          BY <2>3, <5>1, <5>2 DEF Apart
      <4>. QED
        BY <2>1, <4>1, <4>2 DEF Knows
    <3>. QED
      BY <3>1, <3>2
  <2>8. "edit_attribute" \notin marks'.raised
    BY <2>1 DEF Users, Quiet
  <2>. QED
    BY <2>6, <2>7, <2>8 DEF Users, AllKnow
<1>. QED
  BY <1>1, <1>2, RemoveFromUserStep

(* When a process changes the attributes of the cohort, no other is making *)
(* a user, and none is renaming.                                           *)
LEMMA OthersCareless ==
    ASSUME Types, PairsMet, Apart, NEW k \in Working, procs[k].kind \in Change,
           NEW l \in Working, l # k
    PROVE  procs[l].at \notin {"insert", "rename"} \cup Past
<1>1. procs[l].kind \notin MakeUser
  BY Together DEF Apart
<1>2. procs[l].kind \notin Rename
  BY Together DEF Apart
<1>. QED
  BY <1>1, <1>2, Kind

(* After a new attribute of the cohort: all users are on the list.         *)
LEMMA UsersAfterAddToCohort ==
    ASSUME Types, PairsMet, Apart', Users, NEW k \in DOMAIN procs, AddToCohort(k)
    PROVE  Users'
<1>. DEFINE r == procs[k]
            q == procs'[k]
<1>1. /\ Others(k) /\ Quiet /\ k \in Working
      /\ r.at = "attribute" /\ r.kind \in {"create_attribute", "upload"}
      /\ q.kind = r.kind /\ q.at = "users" /\ q.new = r.new /\ q.list = AllUsers
      /\ DOMAIN cohort' = DOMAIN r.cohort \cup {r.new}
      /\ ~marks'.stale => cohort = r.cohort
      /\ users' = users
  BY AddToCohortStep
<1>2. /\ GoesOn(k) /\ Working' \subseteq Working /\ k \in Working'
      /\ \A l \in Working \ {k} : l \in Working' /\ procs'[l] = procs[l]
  <2>1. GoesOn(k) /\ procs'[k] # Done
    BY <1>1 DEF GoesOn, Done
  <2>. QED
    BY <2>1, WorkingStays
<1>3. Apart /\ DOMAIN cohort' = DOMAIN cohort \cup {r.new}
  BY <1>1, ApartBefore DEF Quiet, Apart
<1>4. DOMAIN AllUsers = DOMAIN users /\ \A u \in DOMAIN users : AllUsers[u] = <<u, users[u]>>
  BY AllListed
<1>5. AllComing'
  <2>. SUFFICES ASSUME NEW v \in DOMAIN users', NEW n \in DOMAIN cohort' PROVE Coming(v, n)'
    BY DEF AllComing
  <2>1. CASE n = r.new
    <3>1. v \in DOMAIN q.list /\ q.list[v][1] = v
      BY <1>1, <1>4
    <3>2. WillGive(procs'[k], v, n)
      BY <1>1, <2>1, <3>1 DEF WillGive
    <3>. QED
      BY <1>2, <3>2 DEF Coming
  <2>2. CASE n # r.new
    <3>1. v \in DOMAIN users /\ n \in DOMAIN cohort /\ Coming(v, n)
      BY <1>1, <1>3, <2>2 DEF Users, AllComing
    <3>2. CASE n \in DOMAIN users[v]
      BY <1>1, <3>1, <3>2 DEF Coming
    <3>3. ASSUME NEW l \in Working, WillGive(procs[l], v, n)
          PROVE  Coming(v, n)'
      <4>1. l # k
        BY <1>1, <3>3 DEF WillGive
      <4>2. l \in Working' /\ procs'[l] = procs[l]
        BY <1>2, <4>1
      <4>3. WillGive(procs'[l], v, n)
        BY <3>3, <4>2
      <4>. QED
        BY <4>2, <4>3 DEF Coming
    <3>. QED
      BY <3>1, <3>2, <3>3 DEF Coming
  <2>. QED
    BY <2>1, <2>2
<1>6. ASSUME NEW l \in Working'
      PROVE  Knows(procs[l])'
  <2>1. CASE l = k
    BY <1>1, <2>1 DEF Knows, Past, Copying
  <2>2. CASE l # k
    <3>1. l \in Working /\ procs'[l] = procs[l]
      BY <1>2, <2>2
    <3>2. procs[l].at \notin {"insert", "rename"} \cup Past
      BY <1>1, <1>3, <2>2, <3>1, OthersCareless DEF Change
    <3>. QED
      BY <3>1, <3>2 DEF Knows, Past, Copying
  <2>. QED
    BY <2>1, <2>2
<1>7. "edit_attribute" \notin marks'.raised
  BY <1>1 DEF Users, Quiet
<1>. QED
  BY <1>5, <1>6, <1>7 DEF Users, AllKnow

(* After a renaming in the cohort: all users have the old name and are on  *)
(* the list.                                                               *)
LEMMA UsersAfterRename ==
    ASSUME Types, PairsMet, Apart', Users, NEW k \in DOMAIN procs, RenameInCohort(k)
    PROVE  Users'
<1>. DEFINE r == procs[k]
            q == procs'[k]
<1>1. /\ Others(k) /\ Quiet /\ k \in Working
      /\ r.at = "rename" /\ r.kind = "edit_attribute"
      /\ q.kind = r.kind /\ q.name = r.name /\ q.new = r.new /\ q.at = "copy" /\ q.list = AllUsers
      /\ q.user = r.user
      /\ DOMAIN cohort' = (DOMAIN r.cohort \ {r.name}) \cup {r.new}
      /\ r.name \in DOMAIN r.cohort /\ r.new \notin DOMAIN r.cohort
      /\ ~marks'.stale => cohort = r.cohort
      /\ users' = users
  BY RenameInCohortStep DEF Same
<1>2. /\ GoesOn(k) /\ Working' \subseteq Working /\ k \in Working'
      /\ \A l \in Working \ {k} : l \in Working' /\ procs'[l] = procs[l]
  <2>1. GoesOn(k) /\ procs'[k] # Done
    BY <1>1 DEF GoesOn, Done
  <2>. QED
    BY <2>1, WorkingStays
<1>3. /\ Apart /\ DOMAIN cohort' = (DOMAIN cohort \ {r.name}) \cup {r.new}
      /\ r.name \in DOMAIN cohort /\ r.new \notin DOMAIN cohort
  BY <1>1, ApartBefore DEF Quiet, Apart
<1>4. /\ DOMAIN AllUsers = DOMAIN users /\ \A u \in DOMAIN users : AllUsers[u] = <<u, users[u]>>
      /\ DOMAIN users = 1 .. Len(users) /\ Len(users) \in Nat
  BY AllListed
<1>5. r.user = 0
  BY <1>1 DEF Types, Whole
<1>6. \A v \in DOMAIN users : r.name \in DOMAIN users[v]
  <2>. SUFFICES ASSUME NEW v \in DOMAIN users PROVE r.name \in DOMAIN users[v]
    OBVIOUS
  <2>1. Coming(v, r.name)
    BY <1>3 DEF Users, AllComing
  <2>2. ASSUME NEW l \in Working, WillGive(procs[l], v, r.name)
        PROVE  FALSE
    <3>1. l # k /\ procs[l].at \in {"users", "copy"}
      BY <1>1, <2>2 DEF WillGive
    <3>2. procs[l].kind \in Change
      BY <3>1, Kind
    <3>3. Met(Rename, Change)
      BY <1>1, <3>1, <3>2, Together DEF Rename
    <3>. QED
      BY <1>3, <3>3 DEF Apart
  <2>. QED
    BY <2>1, <2>2 DEF Coming
<1>7. AllComing'
  <2>. SUFFICES ASSUME NEW v \in DOMAIN users', NEW n \in DOMAIN cohort' PROVE Coming(v, n)'
    BY DEF AllComing
  <2>1. CASE n = r.new
    <3>1. v \in DOMAIN q.list /\ q.list[v][1] = v /\ v > q.user
      BY <1>1, <1>4, <1>5
    <3>2. WillGive(procs'[k], v, n)
      BY <1>1, <2>1, <3>1 DEF WillGive
    <3>. QED
      BY <1>2, <3>2 DEF Coming
  <2>2. CASE n # r.new
    <3>1. v \in DOMAIN users /\ n \in DOMAIN cohort /\ Coming(v, n)
      BY <1>1, <1>3, <2>2 DEF Users, AllComing
    <3>2. CASE n \in DOMAIN users[v]
      BY <1>1, <3>1, <3>2 DEF Coming
    <3>3. ASSUME NEW l \in Working, WillGive(procs[l], v, n)
          PROVE  Coming(v, n)'
      <4>1. l # k
        BY <1>1, <3>3 DEF WillGive
      <4>2. l \in Working' /\ procs'[l] = procs[l]
        BY <1>2, <4>1
      <4>3. WillGive(procs'[l], v, n)
        BY <3>3, <4>2
      <4>. QED
        BY <4>2, <4>3 DEF Coming
    <3>. QED
      BY <3>1, <3>2, <3>3 DEF Coming
  <2>. QED
    BY <2>1, <2>2
<1>8. ASSUME NEW l \in Working'
      PROVE  Knows(procs[l])'
  <2>1. CASE l = k
    <3>1. q.name \notin DOMAIN cohort' /\ q.new \in DOMAIN cohort'
      BY <1>1, <1>3
    <3>2. \A v \in DOMAIN users' : q.name \in DOMAIN users'[v]
      BY <1>1, <1>6
    <3>3. \A i \in DOMAIN q.list : q.name \in DOMAIN q.list[i][2]
      BY <1>1, <1>4, <1>6
    <3>. QED
      BY <1>1, <2>1, <3>1, <3>2, <3>3 DEF Knows
  <2>2. CASE l # k
    <3>1. l \in Working /\ procs'[l] = procs[l]
      BY <1>2, <2>2
    <3>2. procs[l].at \notin {"insert", "rename"} \cup Past
      BY <1>1, <1>3, <2>2, <3>1, OthersCareless DEF Change
    <3>. QED
      BY <3>1, <3>2 DEF Knows, Past, Copying
  <2>. QED
    BY <2>1, <2>2
<1>9. "edit_attribute" \notin marks'.raised
  BY <1>1 DEF Users, Quiet
<1>. QED
  BY <1>7, <1>8, <1>9 DEF Users, AllKnow

(* After a new user: it has what the cohort has.                           *)
LEMMA UsersAfterInsert ==
    ASSUME Types, PairsMet, Apart', Users, NEW k \in DOMAIN procs, Insert(k)
    PROVE  Users'
<1>. DEFINE r == procs[k]
            q == procs'[k]
<1>1. /\ Others(k) /\ k \in Working /\ marks' = marks /\ cohort' = cohort
      /\ r.at = "insert" /\ r.kind \in MakeUser /\ q.kind = r.kind /\ q.at \in {"set", "defaults"}
      /\ DOMAIN users' = DOMAIN users \cup {NewUser}
      /\ users'[NewUser] = r.copy /\ \A v \in DOMAIN users : users'[v] = users[v]
  BY InsertStep DEF Same
<1>2. /\ GoesOn(k) /\ Working' \subseteq Working /\ k \in Working'
      /\ \A l \in Working \ {k} : l \in Working' /\ procs'[l] = procs[l]
  <2>1. GoesOn(k) /\ procs'[k] # Done
    BY <1>1 DEF GoesOn, Done
  <2>. QED
    BY <2>1, WorkingStays
<1>3. Apart
  BY <1>1, ApartBefore
<1>4. DOMAIN cohort \subseteq DOMAIN r.copy
  BY <1>1 DEF Users, AllKnow, Knows
<1>5. AllComing'
  <2>. SUFFICES ASSUME NEW v \in DOMAIN users', NEW n \in DOMAIN cohort' PROVE Coming(v, n)'
    BY DEF AllComing
  <2>1. CASE v \notin DOMAIN users
    BY <1>1, <1>4, <2>1 DEF Coming
  <2>2. CASE v \in DOMAIN users
    <3>1. Coming(v, n)
      BY <1>1, <2>2 DEF Users, AllComing
    <3>2. CASE n \in DOMAIN users[v]
      BY <1>1, <2>2, <3>2 DEF Coming
    <3>3. ASSUME NEW l \in Working, WillGive(procs[l], v, n)
          PROVE  Coming(v, n)'
      <4>1. l # k
        BY <1>1, <3>3 DEF WillGive
      <4>2. l \in Working' /\ procs'[l] = procs[l]
        BY <1>2, <4>1
      <4>3. WillGive(procs'[l], v, n)
        BY <3>3, <4>2
      <4>. QED
        BY <4>2, <4>3 DEF Coming
    <3>. QED
      BY <3>1, <3>2, <3>3 DEF Coming
  <2>. QED
    BY <2>1, <2>2
<1>6. ASSUME NEW l \in Working'
      PROVE  Knows(procs[l])'
  <2>1. CASE l = k
    BY <1>1, <2>1 DEF Knows, Past, Copying
  <2>2. CASE l # k
    <3>1. l \in Working /\ procs'[l] = procs[l] /\ Knows(procs[l])
      BY <1>2, <2>2 DEF Users, AllKnow
    <3>2. procs[l].at \notin Copying
      <4>1. procs[l].at \in Copying => procs[l].kind \in Rename
        BY <3>1, Kind DEF Past
      <4>2. procs[l].kind \in Rename => Met(MakeUser, Change)
        BY <1>1, <2>2, <3>1, Together DEF Rename, Change
      <4>. QED
        BY <1>3, <4>1, <4>2 DEF Apart
    <3>. QED
      BY <1>1, <3>1, <3>2 DEF Knows
  <2>. QED
    BY <2>1, <2>2
<1>7. "edit_attribute" \notin marks'.raised
  BY <1>1 DEF Users
<1>. QED
  BY <1>5, <1>6, <1>7 DEF Users, AllKnow

(* After a beginning: what was read is so.                                 *)
LEMMA UsersAfterBegun ==
    ASSUME Types, Users, NEW p, NEW j, Began(p, j), Starts(p)
    PROVE  Users'
<1>1. /\ cohort' = cohort /\ users' = users /\ procs'[j] = p /\ j \notin Working
      /\ DOMAIN procs' = DOMAIN procs \cup {j}
      /\ \A l \in DOMAIN procs \ {j} : procs'[l] = procs[l]
      /\ marks'.raised = marks.raised
  BY DEF Began, documents
<1>2. /\ \A l \in Working : l \in Working' /\ procs'[l] = procs[l]
      /\ \A l \in Working' : l = j \/ (l \in Working /\ procs'[l] = procs[l])
  BY <1>1 DEF Working
<1>3. ASSUME NEW v \in DOMAIN users', NEW n \in DOMAIN cohort'
      PROVE  Coming(v, n)'
  <2>1. Coming(v, n)
    BY <1>1 DEF Users, AllComing
  <2>2. ASSUME NEW l \in Working, WillGive(procs[l], v, n)
        PROVE  Coming(v, n)'
    <3>1. l \in Working' /\ WillGive(procs'[l], v, n)
      BY <1>2, <2>2
    <3>. QED
      BY <3>1 DEF Coming
  <2>. QED
    BY <1>1, <2>1, <2>2 DEF Coming
<1>4. ASSUME NEW l \in Working'
      PROVE  Knows(procs[l])'
  <2>1. CASE l = j
    BY <1>1, <2>1 DEF Starts, Knows, Past, Copying
  <2>2. CASE l # j
    <3>1. procs'[l] = procs[l] /\ Knows(procs[l])
      BY <1>2, <2>2 DEF Users, AllKnow
    <3>. QED
      BY <1>1, <3>1 DEF Knows
  <2>. QED
    BY <2>1, <2>2
<1>. QED
  BY <1>1, <1>3, <1>4 DEF Users, AllComing, AllKnow
-----------------------------------------------------------------------------
(* A renaming has not looked at the item yet, or is about to save it.      *)
WillRename(p, i) ==
    /\ p.name = items[i]
    /\ \/ p.at = "copy"
       \/ p.at = "load_item" /\ i \in Range(p.items)
       \/ p.at = "save_item" /\ i \in Range(p.items) /\ (i = Head(p.items) => p.copy = items[i])

(* An item names an attribute, or will be made to.                         *)
Named(i) == items[i] \in DOMAIN cohort \/ \E k \in Working : WillRename(procs[k], i)

(* The name that a process is to write is an attribute.                    *)
MayWrite(p) == p.kind = "modify_item" \/ p.at \in Past => p.new \in DOMAIN cohort

(* What makes ItemsNameAttributes inductive.                               *)
Mentioned == (\A i \in Documents : Named(i)) /\ \A k \in Working : MayWrite(procs[k])

(* Nothing happened that ItemsNameAttributes excuses.                      *)
Settled ==
    ~marks.stale /\ "edit_attribute" \notin marks.raised /\ ~Met(Rename, Rename \cup {"modify_item"})

(* What is settled was so before.                                          *)
LEMMA SettledBefore ==
    ASSUME marks.met \subseteq marks'.met, marks.stale => marks'.stale, marks.raised \subseteq marks'.raised, Settled'
    PROVE  Settled
  BY DEF Settled, Met

(* A step keeps the items named, if those the process was to rename are,   *)
(* or still will be.                                                       *)
LEMMA MentionedKept ==
    ASSUME Types, Mentioned, NEW k, GoesOn(k), DOMAIN cohort \subseteq DOMAIN cohort',
           \A i \in Documents : items'[i] = items[i] \/ items'[i] \in DOMAIN cohort',
           procs'[k] = Done \/ MayWrite(procs[k])',
           \A i \in Documents : WillRename(procs[k], i) =>
               items'[i] \in DOMAIN cohort' \/ (procs'[k] # Done /\ WillRename(procs[k], i)')
    PROVE  Mentioned'
<1>1. /\ Working' \subseteq Working /\ \A l \in Working \ {k} : l \in Working' /\ procs'[l] = procs[l]
      /\ procs'[k] # Done => k \in Working'
  BY WorkingStays
<1>2. ASSUME NEW i \in Documents
      PROVE  Named(i)'
  <2>1. Named(i)
    BY DEF Mentioned
  <2>2. CASE items'[i] \in DOMAIN cohort'
    BY <2>2 DEF Named
  <2>3. CASE items'[i] = items[i] /\ items[i] \in DOMAIN cohort
    BY <2>3 DEF Named
  <2>4. ASSUME items'[i] = items[i], NEW l \in Working, WillRename(procs[l], i)
        PROVE  Named(i)'
    <3>1. CASE l = k
      BY <1>1, <2>4, <3>1 DEF Named
    <3>2. CASE l # k
      <4>1. l \in Working' /\ procs'[l] = procs[l]
        BY <1>1, <3>2
      <4>2. WillRename(procs[l], i)'
        BY <2>4, <4>1 DEF WillRename
      <4>. QED
        BY <4>1, <4>2 DEF Named
    <3>. QED
      BY <3>1, <3>2
  <2>. QED
    BY <2>1, <2>2, <2>3, <2>4 DEF Named
<1>3. ASSUME NEW l \in Working'
      PROVE  MayWrite(procs[l])'
  <2>1. CASE l = k
    <3>1. procs'[k] # Done
      BY <1>3, <2>1 DEF Working, Done
    <3>. QED
      BY <2>1, <3>1
  <2>2. CASE l # k
    <3>1. l \in Working /\ procs'[l] = procs[l] /\ MayWrite(procs[l])
      BY <1>1, <1>3, <2>2 DEF Mentioned
    <3>. QED
      BY <3>1 DEF MayWrite
  <2>. QED
    BY <2>1, <2>2
<1>. QED
  BY <1>2, <1>3 DEF Mentioned

(* The items stay, and the process is not about to change any.             *)
LEMMA MentionedStays ==
    ASSUME Types, Mentioned, NEW k, GoesOn(k), DOMAIN cohort \subseteq DOMAIN cohort', items' = items,
           procs[k].at \notin Copying,
           procs'[k] = Done \/ (Same(procs[k], procs'[k]) /\ (procs'[k].at \in Past => procs[k].at \in Past))
    PROVE  Mentioned'
<1>1. \A i \in Documents : ~WillRename(procs[k], i)
  BY DEF WillRename, Copying
<1>2. k \in Working
  BY DEF GoesOn
<1>3. MayWrite(procs[k])
  BY <1>2 DEF Mentioned
<1>4. procs'[k] = Done \/ MayWrite(procs[k])'
  BY <1>3 DEF MayWrite, Same
<1>. QED
  BY <1>1, <1>4, MentionedKept

(* After a light step: an item is renamed as it is saved.                  *)
LEMMA MentionedAfterLight ==
    ASSUME Types, Mentioned, NEW k \in DOMAIN procs, LightAction(k), ~marks'.stale
    PROVE  Mentioned'
<1>1. GoesOn(k) /\ k \in Working /\ DOMAIN cohort' = DOMAIN cohort
  BY LightStep DEF Light, GoesOn
<1>2. ASSUME items' = items, procs[k].at \notin Copying,
             procs'[k] = Done \/ (Same(procs[k], procs'[k]) /\ procs'[k].at \notin Past)
      PROVE  Mentioned'
  BY <1>1, <1>2, MentionedStays
<1>3. CASE AddToUser(k)
  <2>1. items' = items /\ procs[k].at = "users" /\ Same(procs[k], procs'[k]) /\ procs'[k].at = "users"
    BY <1>3, AddToUserStep
  <2>. QED
    BY <1>2, <2>1 DEF Past, Copying
<1>4. CASE AddedToUsers(k)
  <2>1. /\ items' = items /\ procs[k].at = "users"
        /\ procs'[k] = Done \/ (Same(procs[k], procs'[k]) /\ procs'[k].at = "row")
    BY <1>4, AddedToUsersStep DEF documents
  <2>. QED
    BY <1>2, <2>1 DEF Past, Copying
<1>5. CASE ChangeDefault(k)
  <2>1. items' = items /\ procs[k].at = "default" /\ procs'[k] = Done
    BY <1>5, ChangeDefaultStep
  <2>. QED
    BY <1>2, <2>1 DEF Copying
<1>6. CASE LoadItem(k)
  <2>. DEFINE r == procs[k]
              q == procs'[k]
  <2>1. /\ items' = items /\ cohort' = cohort /\ r.at = "load_item" /\ Same(r, q)
        /\ \/ r.items = <<>> /\ q.at = "remove"
           \/ q.at = "save_item" /\ q.items = r.items /\ q.copy = items[Head(r.items)]
    BY <1>6, LoadItemStep DEF LoadedItem, Moves, documents
  <2>2. MayWrite(procs[k])
    BY <1>1 DEF Mentioned
  <2>3. MayWrite(procs[k])'
    BY <2>1, <2>2 DEF MayWrite, Same, Past, Copying
  <2>4. ASSUME NEW i \in Documents, WillRename(procs[k], i)
        PROVE  procs'[k] # Done /\ WillRename(procs[k], i)'
    <3>1. r.name = items[i] /\ i \in Range(r.items)
      BY <2>1, <2>4 DEF WillRename
    <3>2. r.items # <<>>
      BY <3>1 DEF Range
    <3>. QED
      BY <2>1, <3>1, <3>2 DEF WillRename, Same, Done
  <2>. QED
    BY <1>1, <2>1, <2>3, <2>4, MentionedKept
<1>7. CASE SaveItem(k)
  <2>. DEFINE r == procs[k]
              q == procs'[k]
              list == r.items
              h == Head(list)
  <2>1. /\ cohort' = cohort /\ r.at = "save_item" /\ r.kind = "edit_attribute" /\ Same(r, q) /\ q.at = "load_item"
        /\ list \in Seq(Documents) /\ list # <<>> /\ q.items = Tail(list)
        /\ \/ r.copy # r.name /\ items' = items
           \/ items'[h] = r.new /\ \A j \in Documents \ {h} : items'[j] = items[j]
    BY <1>7, SaveItemStep DEF SavedItem
  <2>2. MayWrite(procs[k])
    BY <1>1 DEF Mentioned
  <2>3. r.new \in DOMAIN cohort
    BY <2>1, <2>2 DEF MayWrite, Past, Copying
  <2>4. MayWrite(procs[k])'
    BY <2>1, <2>3 DEF MayWrite, Same
  <2>5. \A i \in Documents : items'[i] = items[i] \/ items'[i] \in DOMAIN cohort'
    BY <2>1, <2>3
  <2>6. \A i \in Range(list) : i = h \/ i \in Range(Tail(list))
    <3>1. /\ h = list[1] /\ 1 \in DOMAIN list
          /\ \A x \in DOMAIN list \ {1} : x - 1 \in DOMAIN Tail(list) /\ Tail(list)[x - 1] = list[x]
      BY <2>1, ShorterList
    <3>. HIDE DEF h, list
    <3>. QED
      BY <3>1 DEF Range
  <2>7. ASSUME NEW i \in Documents, WillRename(procs[k], i)
        PROVE  items'[i] \in DOMAIN cohort' \/ (procs'[k] # Done /\ WillRename(procs[k], i)')
    <3>1. r.name = items[i] /\ i \in Range(list) /\ (i = h => r.copy = items[i])
      BY <2>1, <2>7 DEF WillRename
    <3>2. CASE i = h
      BY <2>1, <2>3, <3>1, <3>2
    <3>3. CASE i # h
      <4>1. items'[i] = items[i]
        BY <2>1, <3>3
      <4>2. i \in Range(q.items)
        BY <2>1, <2>6, <3>1, <3>3
      <4>. QED
        BY <2>1, <3>1, <4>1, <4>2 DEF WillRename, Same, Done
    <3>. QED
      BY <3>2, <3>3
  <2>. QED
    BY <1>1, <2>4, <2>5, <2>7, MentionedKept
<1>8. CASE SaveUserAttribute(k)
  <2>1. items' = items /\ procs[k].at = "set" /\ procs'[k] = Done
    BY <1>8, SaveUserAttributeStep DEF Told
  <2>. QED
    BY <1>2, <2>1 DEF Copying
<1>9. CASE ParseRow(k)
  <2>1. items' = items /\ procs[k].at = "row" /\ Same(procs[k], procs'[k]) /\ procs'[k].at \in {"load", "set"}
    BY <1>9, ParseRowStep DEF Moves, documents
  <2>. QED
    BY <1>2, <2>1 DEF Past, Copying
<1>10. CASE LoadCohort(k)
  <2>1. items' = items /\ procs[k].at = "load" /\ Same(procs[k], procs'[k]) /\ procs'[k].at = "insert"
    BY <1>10, LoadCohortStep DEF Moves, documents
  <2>. QED
    BY <1>2, <2>1 DEF Past, Copying
<1>11. CASE AddDefaults(k)
  <2>1. items' = items /\ procs[k].at = "defaults" /\ procs'[k] = Done
    BY <1>11, AddDefaultsStep DEF Told
  <2>. QED
    BY <1>2, <2>1 DEF Copying
<1>12. CASE WriteItem(k)
  <2>1. /\ procs[k].at = "item" /\ procs[k].kind = "modify_item" /\ procs'[k] = Done
        /\ \A i \in Documents : items'[i] = items[i] \/ items'[i] = procs[k].new
    BY <1>12, WriteItemStep
  <2>2. procs[k].new \in DOMAIN cohort
    BY <1>1, <2>1 DEF Mentioned, MayWrite
  <2>3. \A i \in Documents : ~WillRename(procs[k], i)
    BY <2>1 DEF WillRename
  <2>. QED
    BY <1>1, <2>1, <2>2, <2>3, MentionedKept
<1>13. CASE SetAttribute(k)
  <2>1. items' = items /\ procs[k].at = "set_attribute" /\ Same(procs[k], procs'[k]) /\ procs'[k].at = "test"
    BY <1>13, SetAttributeStep DEF Told
  <2>. QED
    BY <1>2, <2>1 DEF Past, Copying
<1>14. CASE TestConditional(k)
  <2>1. items' = items /\ procs[k].at = "test" /\ Same(procs[k], procs'[k]) /\ procs'[k].at = "send"
    BY <1>14, TestConditionalStep DEF Moves, documents
  <2>. QED
    BY <1>2, <2>1 DEF Past, Copying
<1>15. CASE SendQuestion(k)
  <2>1. items' = items /\ procs[k].at = "send" /\ procs'[k] = Done
    BY <1>15, SendQuestionStep DEF documents
  <2>. QED
    BY <1>2, <2>1 DEF Copying
<1>. QED
  BY <1>3, <1>4, <1>5, <1>6, <1>7, <1>8, <1>9, <1>10, <1>11, <1>12, <1>13, <1>14, <1>15, Zenon DEF LightAction

(* After a step of the copying: all items are still to be seen.            *)
LEMMA MentionedAfterCopy ==
    ASSUME Types, Mentioned, NEW k \in DOMAIN procs, CopyInUser(k), "edit_attribute" \notin marks'.raised
    PROVE  Mentioned'
<1>. DEFINE r == procs[k]
            q == procs'[k]
<1>1. Others(k) /\ k \in Working /\ r.at = "copy" /\ r.kind = "edit_attribute"
  BY CopyInUserStep
<1>2. MayWrite(procs[k])
  BY <1>1 DEF Mentioned
<1>3. CASE CopiedAll(k)
  <2>1. /\ cohort' = cohort /\ items' = items /\ Same(r, q) /\ q.at = "load_item"
        /\ q.items = <<"schedule", "question", "conditional">>
    BY <1>3 DEF CopiedAll, documents
  <2>2. GoesOn(k)
    BY <1>1, <2>1 DEF GoesOn, Same
  <2>3. MayWrite(procs[k])'
    BY <1>1, <1>2, <2>1 DEF MayWrite, Same, Past, Copying
  <2>4. Documents \subseteq Range(q.items)
    <3>1. /\ q.items[1] = "schedule" /\ q.items[2] = "question" /\ q.items[3] = "conditional"
          /\ DOMAIN q.items = 1 .. 3
      BY <2>1
    <3>2. 1 \in 1 .. 3 /\ 2 \in 1 .. 3 /\ 3 \in 1 .. 3
      OBVIOUS
    <3>. QED
      BY <3>1, <3>2 DEF Range, Documents
  <2>5. \A i \in Documents : WillRename(procs[k], i) => procs'[k] # Done /\ WillRename(procs[k], i)'
    BY <2>1, <2>4 DEF WillRename, Same, Done
  <2>. QED
    BY <2>1, <2>2, <2>3, <2>5, MentionedKept
<1>4. ASSUME NEW u \in DOMAIN r.list, CopiedOne(k, u)
      PROVE  Mentioned'
  <2>1. cohort' = cohort /\ items' = items /\ Same(r, q) /\ q.at = "copy"
    BY <1>4 DEF CopiedOne
  <2>2. GoesOn(k)
    BY <1>1, <2>1 DEF GoesOn, Same
  <2>3. MayWrite(procs[k])'
    BY <1>1, <1>2, <2>1 DEF MayWrite, Same, Past, Copying
  <2>4. \A i \in Documents : WillRename(procs[k], i) => procs'[k] # Done /\ WillRename(procs[k], i)'
    BY <2>1 DEF WillRename, Same, Done
  <2>. QED
    BY <2>1, <2>2, <2>3, <2>4, MentionedKept
<1>5. ~Raised("edit_attribute")
  BY DEF Raised
<1>. QED
  BY <1>3, <1>4, <1>5, CopyInUserStep

(* After a new attribute of the cohort.                                    *)
LEMMA MentionedAfterAddToCohort ==
    ASSUME Types, Mentioned, NEW k \in DOMAIN procs, AddToCohort(k), ~marks'.stale
    PROVE  Mentioned'
<1>1. /\ Others(k) /\ k \in Working /\ procs[k].at = "attribute" /\ procs[k].kind \in {"create_attribute", "upload"}
      /\ procs'[k].kind = procs[k].kind /\ procs'[k].at = "users"
      /\ DOMAIN cohort \subseteq DOMAIN cohort' /\ items' = items
  BY AddToCohortStep
<1>2. GoesOn(k)
  BY <1>1 DEF GoesOn
<1>3. MayWrite(procs[k])'
  BY <1>1 DEF MayWrite, Past, Copying
<1>4. \A i \in Documents : ~WillRename(procs[k], i)
  BY <1>1 DEF WillRename
<1>. QED
  BY <1>1, <1>2, <1>3, <1>4, MentionedKept

(* After the old name was taken from a user.                               *)
LEMMA MentionedAfterRemove ==
    ASSUME Types, Mentioned, NEW k \in DOMAIN procs, RemoveFromUser(k)
    PROVE  Mentioned'
<1>1. procs[k].at = "remove"
  BY DEF RemoveFromUser, At
<1>2. /\ GoesOn(k) /\ cohort' = cohort /\ items' = items
      /\ procs'[k] = Done \/ Same(procs[k], procs'[k])
  BY RemoveFromUserStep DEF Removed, Moves, documents, GoesOn, Same
<1>. QED
  BY <1>1, <1>2, MentionedStays DEF Past, Copying

(* After a new user.                                                       *)
LEMMA MentionedAfterInsert ==
    ASSUME Types, Mentioned, NEW k \in DOMAIN procs, Insert(k)
    PROVE  Mentioned'
<1>1. /\ Others(k) /\ k \in Working /\ cohort' = cohort /\ items' = items
      /\ procs[k].at = "insert" /\ Same(procs[k], procs'[k]) /\ procs'[k].at \in {"set", "defaults"}
  BY InsertStep
<1>2. GoesOn(k)
  BY <1>1 DEF GoesOn, Same
<1>. QED
  BY <1>1, <1>2, MentionedStays DEF Past, Copying

(* After a renaming in the cohort: the items that have the old name will   *)
(* be renamed.                                                             *)
LEMMA MentionedAfterRename ==
    ASSUME Types, PairsMet, Settled', Mentioned, NEW k \in DOMAIN procs, RenameInCohort(k)
    PROVE  Mentioned'
<1>. DEFINE r == procs[k]
            q == procs'[k]
<1>1. /\ Others(k) /\ Quiet /\ k \in Working /\ r.at = "rename" /\ r.kind = "edit_attribute"
      /\ q.kind = r.kind /\ q.name = r.name /\ q.new = r.new /\ q.at = "copy"
      /\ DOMAIN cohort' = (DOMAIN r.cohort \ {r.name}) \cup {r.new}
      /\ ~marks'.stale => cohort = r.cohort
      /\ items' = items
  BY RenameInCohortStep DEF Same
<1>2. /\ GoesOn(k) /\ Working' \subseteq Working /\ k \in Working'
      /\ \A l \in Working \ {k} : l \in Working' /\ procs'[l] = procs[l]
  <2>1. GoesOn(k) /\ procs'[k] # Done
    BY <1>1 DEF GoesOn, Done
  <2>. QED
    BY <2>1, WorkingStays
<1>3. Settled /\ DOMAIN cohort' = (DOMAIN cohort \ {r.name}) \cup {r.new}
  BY <1>1, SettledBefore DEF Quiet, Settled
<1>4. ASSUME NEW i \in Documents
      PROVE  Named(i)'
  <2>1. Named(i)
    BY DEF Mentioned
  <2>2. CASE items[i] = r.name
    <3>1. WillRename(procs[k], i)'
      BY <1>1, <2>2 DEF WillRename
    <3>. QED
      BY <1>2, <3>1 DEF Named
  <2>3. CASE items[i] # r.name /\ items[i] \in DOMAIN cohort
    BY <1>1, <1>3, <2>3 DEF Named
  <2>4. ASSUME NEW l \in Working, WillRename(procs[l], i)
        PROVE  Named(i)'
    <3>1. l # k
      BY <1>1, <2>4 DEF WillRename
    <3>2. l \in Working' /\ procs'[l] = procs[l]
      BY <1>2, <3>1
    <3>3. WillRename(procs[l], i)'
      BY <1>1, <2>4, <3>2 DEF WillRename
    <3>. QED
      BY <3>2, <3>3 DEF Named
  <2>. QED
    BY <2>1, <2>2, <2>3, <2>4 DEF Named
<1>5. ASSUME NEW l \in Working'
      PROVE  MayWrite(procs[l])'
  <2>1. CASE l = k
    BY <1>1, <2>1 DEF MayWrite
  <2>2. CASE l # k
    <3>1. l \in Working /\ procs'[l] = procs[l]
      BY <1>2, <2>2
    <3>2. procs[l].kind \notin Rename \cup {"modify_item"}
      <4>1. procs[l].kind \in Rename \cup {"modify_item"} => Met(Rename, Rename \cup {"modify_item"})
        BY <1>1, <2>2, <3>1, Together DEF Rename
      <4>. QED
        BY <1>3, <4>1 DEF Settled
    <3>3. procs[l].at \notin Past
      BY <3>1, <3>2, Kind
    <3>. QED
      BY <3>1, <3>2, <3>3 DEF MayWrite
  <2>. QED
    BY <2>1, <2>2
<1>. QED
  BY <1>4, <1>5 DEF Mentioned

(* After a beginning: an item is modified to an attribute there is.        *)
LEMMA MentionedAfterBegun ==
    ASSUME Types, Mentioned, NEW p, NEW j, Began(p, j), Starts(p)
    PROVE  Mentioned'
<1>1. /\ cohort' = cohort /\ items' = items /\ procs'[j] = p /\ j \notin Working
      /\ DOMAIN procs' = DOMAIN procs \cup {j}
      /\ \A l \in DOMAIN procs \ {j} : procs'[l] = procs[l]
  BY DEF Began, documents
<1>2. /\ \A l \in Working : l \in Working' /\ procs'[l] = procs[l]
      /\ \A l \in Working' : l = j \/ (l \in Working /\ procs'[l] = procs[l])
  BY <1>1 DEF Working
<1>3. ASSUME NEW i \in Documents
      PROVE  Named(i)'
  <2>1. Named(i)
    BY DEF Mentioned
  <2>2. ASSUME NEW l \in Working, WillRename(procs[l], i)
        PROVE  Named(i)'
    <3>1. l \in Working' /\ WillRename(procs[l], i)'
      BY <1>1, <1>2, <2>2 DEF WillRename
    <3>. QED
      BY <3>1 DEF Named
  <2>. QED
    BY <1>1, <2>1, <2>2 DEF Named
<1>4. ASSUME NEW l \in Working'
      PROVE  MayWrite(procs[l])'
  <2>1. CASE l = j
    BY <1>1, <2>1 DEF Starts, MayWrite, Past, Copying
  <2>2. CASE l # j
    <3>1. procs'[l] = procs[l] /\ MayWrite(procs[l])
      BY <1>2, <2>2 DEF Mentioned
    <3>. QED
      BY <1>1, <3>1 DEF MayWrite
  <2>. QED
    BY <2>1, <2>2
<1>. QED
  BY <1>3, <1>4 DEF Mentioned
-----------------------------------------------------------------------------
(* Until a survey has met a change of attributes, it has all attributes of *)
(* the cohort; and what is being renamed it has under the old name.        *)
Attentive ==
    \A k \in Working : procs[k].kind = "survey" =>
        /\ ~Met({"survey"}, Change) => DOMAIN cohort \subseteq DOMAIN procs[k].copy
        /\ \A l \in Working : procs[l].at \in {"rename"} \cup Copying => procs[l].name \in DOMAIN procs[k].copy

(* What a survey has, and what is renamed, goes on with the process.       *)
Continues(k) ==
    \/ procs'[k] = Done
    \/ /\ procs[k].kind = "survey" => DOMAIN procs[k].copy \subseteq DOMAIN procs'[k].copy
       /\ procs'[k].at \in {"rename"} \cup Copying =>
              procs[k].at \in {"rename"} \cup Copying /\ procs'[k].name = procs[k].name

(* A step keeps what surveys have, unless they have met the change.        *)
LEMMA AttentiveKept ==
    ASSUME Types, PairsMet, Attentive, NEW k, GoesOn(k), Continues(k), marks'.met = marks.met,
           DOMAIN cohort' \subseteq DOMAIN cohort \/ procs[k].kind \in Change
    PROVE  Attentive'
<1>1. /\ Working' \subseteq Working /\ k \in Working
      /\ \A l \in Working \ {k} : l \in Working' /\ procs'[l] = procs[l]
      /\ \A l \in Working' : procs'[l].kind = procs[l].kind
  BY WorkingStays DEF GoesOn
<1>. SUFFICES ASSUME NEW s \in Working', procs'[s].kind = "survey"
              PROVE  /\ ~Met({"survey"}, Change)' => DOMAIN cohort' \subseteq DOMAIN procs'[s].copy
                     /\ \A l \in Working' : procs'[l].at \in {"rename"} \cup Copying
                            => procs'[l].name \in DOMAIN procs'[s].copy
  BY DEF Attentive
<1>2. /\ s \in Working /\ procs[s].kind = "survey"
      /\ ~Met({"survey"}, Change) => DOMAIN cohort \subseteq DOMAIN procs[s].copy
      /\ \A l \in Working : procs[l].at \in {"rename"} \cup Copying => procs[l].name \in DOMAIN procs[s].copy
  BY <1>1 DEF Attentive
<1>3. \A l \in Working' : procs'[l] # Done
  BY DEF Working, Done
<1>4. DOMAIN procs[s].copy \subseteq DOMAIN procs'[s].copy
  BY <1>1, <1>2, <1>3 DEF Continues
<1>5. Met({"survey"}, Change)' <=> Met({"survey"}, Change)
  BY DEF Met
<1>6. ASSUME ~Met({"survey"}, Change)'
      PROVE  DOMAIN cohort' \subseteq DOMAIN procs'[s].copy
  <2>1. procs[k].kind \notin Change
    <3>1. s # k => (procs[k].kind \in Change => Met({"survey"}, Change))
      BY <1>1, <1>2, Together
    <3>. QED
      BY <1>2, <1>5, <1>6, <3>1 DEF Change
  <2>. QED
    BY <1>2, <1>4, <1>5, <1>6, <2>1
<1>7. ASSUME NEW l \in Working', procs'[l].at \in {"rename"} \cup Copying
      PROVE  procs'[l].name \in DOMAIN procs'[s].copy
  <2>1. l \in Working /\ procs[l].at \in {"rename"} \cup Copying /\ procs'[l].name = procs[l].name
    <3>1. CASE l = k
      BY <1>1, <1>3, <1>7, <3>1 DEF Continues
    <3>2. CASE l # k
      BY <1>1, <1>7, <3>2
    <3>. QED
      BY <3>1, <3>2
  <2>. QED
    BY <1>2, <1>4, <2>1
<1>. QED
  BY <1>6, <1>7

(* A survey has met a change of attributes, in the two ways it is said.    *)
LEMMA SurveyMet == Met({"survey"}, Change) <=> marks.met \cap SurveyMeetsChange # {}
  BY DEF Met, SurveyMeetsChange

(* A survey that begins finds the old name; a renaming that begins is the  *)
(* first change it meets.                                                  *)
LEMMA AttentiveBegun ==
    ASSUME Types, PairsMet, Apart, Users, Attentive, NEW p, NEW j, Began(p, j), Starts(p), ~marks'.again
    PROVE  Attentive'
<1>1. /\ cohort' = cohort /\ procs'[j] = p /\ j \notin Working
      /\ DOMAIN procs' = DOMAIN procs \cup {j}
      /\ \A l \in DOMAIN procs \ {j} : procs'[l] = procs[l]
      /\ marks.met \subseteq marks'.met
      /\ \A l \in Working : {p.kind, procs[l].kind} \in marks'.met
      /\ \A l \in Working : {p.kind, procs[l].kind} \in SurveyMeetsChange => marks.met \cap SurveyMeetsChange = {}
  BY DEF Began, documents
<1>2. \A l \in Working' : l = j \/ (l \in Working /\ procs'[l] = procs[l])
  BY <1>1 DEF Working
<1>3. p.at \in {"rename"} \cup Copying =>
          p.at = "rename" /\ p.kind = "edit_attribute" /\ p.name \in DOMAIN cohort
  BY DEF Starts, Copying
<1>. SUFFICES ASSUME NEW s \in Working', procs'[s].kind = "survey"
              PROVE  /\ ~Met({"survey"}, Change)' => DOMAIN cohort' \subseteq DOMAIN procs'[s].copy
                     /\ \A l \in Working' : procs'[l].at \in {"rename"} \cup Copying
                            => procs'[l].name \in DOMAIN procs'[s].copy
  BY DEF Attentive
<1>4. CASE s # j
  <2>1. /\ s \in Working /\ procs'[s] = procs[s] /\ procs[s].kind = "survey"
        /\ ~Met({"survey"}, Change) => DOMAIN cohort \subseteq DOMAIN procs[s].copy
        /\ \A l \in Working : procs[l].at \in {"rename"} \cup Copying => procs[l].name \in DOMAIN procs[s].copy
    BY <1>2, <1>4 DEF Attentive
  <2>2. Met({"survey"}, Change) => Met({"survey"}, Change)'
    BY <1>1 DEF Met
  <2>3. ASSUME p.at \in {"rename"} \cup Copying
        PROVE  p.name \in DOMAIN procs[s].copy
    <3>1. {p.kind, procs[s].kind} \in SurveyMeetsChange
      <4>1. {p.kind, procs[s].kind} = {"survey", "edit_attribute"}
        BY <1>3, <2>1, <2>3
      <4>. QED
        BY <4>1 DEF SurveyMeetsChange, Change
    <3>2. ~Met({"survey"}, Change)
      BY <1>1, <2>1, <3>1, SurveyMet
    <3>. QED
      BY <1>3, <2>1, <2>3, <3>2
  <2>. QED
    BY <1>1, <1>2, <2>1, <2>2, <2>3
<1>5. CASE s = j
  <2>1. p.kind = "survey" /\ procs'[s] = p
    BY <1>1, <1>5
  <2>2. PICK u \in DOMAIN users : p.copy = users[u]
    BY <2>1 DEF Starts
  <2>3. ASSUME ~Met({"survey"}, Change)', NEW n \in DOMAIN cohort
        PROVE  n \in DOMAIN users[u]
    <3>1. Coming(u, n)
      BY DEF Users, AllComing
    <3>2. ASSUME NEW l \in Working, WillGive(procs[l], u, n)
          PROVE  FALSE
      <4>1. procs[l].kind \in Change
        BY <3>2, Kind DEF WillGive
      <4>2. {"survey", procs[l].kind} \in marks'.met
        BY <1>1, <2>1
      <4>. QED
        BY <2>3, <4>1, <4>2 DEF Met
    <3>. QED
      BY <3>1, <3>2 DEF Coming
  <2>4. ASSUME NEW l \in Working, procs[l].at \in {"rename"} \cup Copying
        PROVE  procs[l].name \in DOMAIN users[u]
    <3>1. Knows(procs[l])
      BY DEF Users, AllKnow
    <3>2. CASE procs[l].at \in Copying
      BY <3>1, <3>2 DEF Knows
    <3>3. CASE procs[l].at = "rename"
      <4>1. Coming(u, procs[l].name)
        BY <3>1, <3>3 DEF Knows, Users, AllComing
      <4>2. ASSUME NEW m \in Working, WillGive(procs[m], u, procs[l].name)
            PROVE  FALSE
        <5>1. m # l /\ procs[m].kind \in Change
          BY <3>3, <4>2, Kind DEF WillGive
        <5>2. procs[l].kind \in Rename
          BY <3>3, Kind
        <5>. QED
          BY <5>1, <5>2, Together DEF Apart
      <4>. QED
        BY <4>1, <4>2 DEF Coming
    <3>. QED
      BY <2>4, <3>2, <3>3
  <2>5. p.at \notin {"rename"} \cup Copying
    BY <1>3, <2>1
  <2>6. ~Met({"survey"}, Change)' => DOMAIN cohort' \subseteq DOMAIN procs'[s].copy
    BY <1>1, <2>1, <2>2, <2>3
  <2>7. ASSUME NEW l \in Working', procs'[l].at \in {"rename"} \cup Copying
        PROVE  procs'[l].name \in DOMAIN procs'[s].copy
    <3>1. l # j
      BY <1>1, <2>5, <2>7
    <3>. QED
      BY <1>2, <2>1, <2>2, <2>4, <2>7, <3>1
  <2>. QED
    BY <2>6, <2>7
<1>. QED
  BY <1>4, <1>5

(* Every step of a process leaves what was excused excused.                *)
Acts(k) ==
    LightAction(k) \/ AddToCohort(k) \/ RenameInCohort(k) \/ CopyInUser(k) \/ RemoveFromUser(k) \/ Insert(k)

(* What every step of a process leaves alone.                              *)
LEMMA ActsGoesOn ==
    ASSUME Types, NEW k \in DOMAIN procs, Acts(k)
    PROVE  /\ GoesOn(k) /\ Continues(k) /\ marks'.met = marks.met /\ marks'.again = marks.again
           /\ marks.stale => marks'.stale
           /\ ~marks'.stale => DOMAIN cohort' \subseteq DOMAIN cohort \/ procs[k].kind \in Change
<1>0. ASSUME k \in Working, procs[k].at \notin {"set_attribute", "test", "send"},
             procs'[k] = Done \/ procs'[k].at \notin {"rename"} \cup Copying
      PROVE  Continues(k)
  BY <1>0, Kind DEF Continues
<1>1. CASE LightAction(k)
  <2>1. /\ GoesOn(k) /\ marks'.met = marks.met /\ marks'.again = marks.again /\ k \in Working
        /\ marks.stale => marks'.stale
        /\ ~marks'.stale => DOMAIN cohort' = DOMAIN cohort
    BY <1>1, LightStep DEF Light, GoesOn
  <2>2. Continues(k)
    <3>1. CASE AddToUser(k)
      <4>1. procs[k].at = "users" /\ procs'[k].at = "users"
        BY <3>1, AddToUserStep
      <4>. QED
        BY <1>0, <2>1, <4>1 DEF Copying
    <3>2. CASE AddedToUsers(k)
      <4>1. procs[k].at = "users" /\ (procs'[k] = Done \/ procs'[k].at = "row")
        BY <3>2, AddedToUsersStep
      <4>. QED
        BY <1>0, <2>1, <4>1 DEF Copying
    <3>3. CASE ChangeDefault(k)
      BY <3>3, ChangeDefaultStep DEF Continues
    <3>4. CASE LoadItem(k)
      <4>1. procs[k].at = "load_item" /\ procs[k].kind = "edit_attribute" /\ procs'[k].name = procs[k].name
        BY <3>4, LoadItemStep DEF LoadedItem, Same
      <4>. QED
        BY <4>1 DEF Continues, Copying
    <3>5. CASE SaveItem(k)
      <4>1. procs[k].at = "save_item" /\ procs[k].kind = "edit_attribute" /\ procs'[k].name = procs[k].name
        BY <3>5, SaveItemStep DEF SavedItem, Same
      <4>. QED
        BY <4>1 DEF Continues, Copying
    <3>6. CASE SaveUserAttribute(k)
      BY <3>6, SaveUserAttributeStep DEF Continues
    <3>7. CASE ParseRow(k)
      <4>1. procs[k].at = "row" /\ procs'[k].at \in {"load", "set"}
        BY <3>7, ParseRowStep
      <4>. QED
        BY <1>0, <2>1, <4>1 DEF Copying
    <3>8. CASE LoadCohort(k)
      <4>1. procs[k].at = "load" /\ procs'[k].at = "insert"
        BY <3>8, LoadCohortStep
      <4>. QED
        BY <1>0, <2>1, <4>1 DEF Copying
    <3>9. CASE AddDefaults(k)
      BY <3>9, AddDefaultsStep DEF Continues
    <3>10. CASE WriteItem(k)
      BY <3>10, WriteItemStep DEF Continues
    <3>11. CASE SetAttribute(k)
      <4>1. procs'[k].at = "test" /\ DOMAIN procs[k].copy \subseteq DOMAIN procs'[k].copy
        BY <3>11, SetAttributeStep
      <4>. QED
        BY <4>1 DEF Continues, Copying
    <3>12. CASE TestConditional(k)
      <4>1. procs'[k].at = "send" /\ procs'[k].copy = procs[k].copy
        BY <3>12, TestConditionalStep
      <4>. QED
        BY <4>1 DEF Continues, Copying
    <3>13. CASE SendQuestion(k)
      BY <3>13, SendQuestionStep DEF Continues
    <3>. QED
      BY <1>1, <3>1, <3>2, <3>3, <3>4, <3>5, <3>6, <3>7, <3>8, <3>9, <3>10, <3>11, <3>12, <3>13, Zenon DEF LightAction
  <2>. QED
    BY <2>1, <2>2
<1>2. CASE AddToCohort(k)
  <2>1. /\ Others(k) /\ Quiet /\ k \in Working /\ procs[k].at = "attribute" /\ procs'[k].at = "users"
        /\ procs[k].kind \in Change /\ procs'[k].kind = procs[k].kind
    BY <1>2, AddToCohortStep DEF Change
  <2>2. Continues(k)
    BY <1>0, <2>1 DEF Copying
  <2>. QED
    BY <2>1, <2>2 DEF GoesOn, Quiet
<1>3. CASE RenameInCohort(k)
  <2>1. /\ Others(k) /\ Quiet /\ k \in Working /\ procs[k].at = "rename" /\ procs[k].kind = "edit_attribute"
        /\ Same(procs[k], procs'[k])
    BY <1>3, RenameInCohortStep
  <2>2. Continues(k)
    BY <2>1 DEF Continues, Same
  <2>. QED
    BY <2>1, <2>2 DEF GoesOn, Quiet, Same, Change
<1>4. CASE CopyInUser(k)
  <2>1. /\ Others(k) /\ k \in Working /\ procs[k].at = "copy" /\ procs[k].kind = "edit_attribute"
        /\ \/ Same(procs[k], procs'[k]) /\ Quiet
           \/ procs'[k] = Done /\ Raised("edit_attribute")
    BY <1>4, CopyInUserStep DEF CopiedAll, CopiedOne, Quiet
  <2>2. Continues(k)
    BY <2>1 DEF Continues, Same, Copying
  <2>. QED
    BY <2>1, <2>2 DEF GoesOn, Quiet, Raised, Same, Change
<1>5. CASE RemoveFromUser(k)
  <2>1. /\ Others(k) /\ k \in Working /\ cohort' = cohort /\ Quiet
        /\ procs'[k] = Done \/ (procs'[k].at = "remove" /\ procs'[k].kind = procs[k].kind)
    BY <1>5, RemoveFromUserStep DEF Removed, Moves, Quiet, documents, Same
  <2>2. procs[k].at = "remove"
    BY <1>5 DEF RemoveFromUser, At
  <2>3. Continues(k)
    BY <1>0, <2>1, <2>2 DEF Copying
  <2>. QED
    BY <2>1, <2>3 DEF GoesOn, Quiet
<1>6. CASE Insert(k)
  <2>1. /\ Others(k) /\ k \in Working /\ cohort' = cohort /\ marks' = marks
        /\ procs[k].at = "insert" /\ procs'[k].at \in {"set", "defaults"} /\ procs'[k].kind = procs[k].kind
    BY <1>6, InsertStep DEF Same
  <2>2. Continues(k)
    BY <1>0, <2>1 DEF Copying
  <2>. QED
    BY <2>1, <2>2 DEF GoesOn
<1>. QED
  BY <1>1, <1>2, <1>3, <1>4, <1>5, <1>6 DEF Acts
-----------------------------------------------------------------------------
(* The names there are, and those that were renamed.                       *)
Known == DOMAIN cohort \cup marks.away

(* What the conditional compares with, and all that pages know of it, is   *)
(* one of them.                                                            *)
Compared == items["comparison"] \in Known /\ \A k \in Working : procs[k].compared \in Known

(* A step of process k writes what the process knew, and the process learns*)
(* what was written.                                                       *)
Compares(k) ==
    /\ items'["comparison"] \in {items["comparison"], procs[k].compared}
    /\ procs'[k] = Done \/ procs'[k].compared \in {items["comparison"], procs[k].compared}
    /\ ~marks'.stale => Known \subseteq Known'

(* So it is when items are left alone, and the process keeps what it knew. *)
LEMMA ComparesQuietly ==
    ASSUME Types, NEW k \in DOMAIN procs, NEW q, Becomes(k, q), items' = items,
           q = Done \/ q.compared = procs[k].compared,
           ~marks'.stale => Known \subseteq Known'
    PROVE  Compares(k)
  BY Alone DEF Compares

(* Names that are known stay known when marks or cohort are saved.         *)
LEMMA StillKnown ==
    ASSUME Types, NEW k \in DOMAIN procs
    PROVE  /\ cohort' = cohort /\ marks' = marks => Known \subseteq Known'
           /\ \A u, new, copy : SaveUser(u, new, copy) /\ cohort' = cohort => Known \subseteq Known'
           /\ \A u, n, copy : Tell(u, n, copy) /\ cohort' = cohort => Known \subseteq Known'
           /\ \A n, v, copy : SaveCohort(With(copy, n, v), copy) /\ ~marks'.stale => Known \subseteq Known'
           /\ Raise(k) => Known \subseteq Known'
<1>1. cohort' = cohort /\ marks' = marks => Known \subseteq Known'
  BY DEF Known
<1>2. \A u, new, copy : SaveUser(u, new, copy) /\ cohort' = cohort => Known \subseteq Known'
  BY DEF Known, SaveUser, Types, AllMarks
<1>3. \A u, n, copy : Tell(u, n, copy) /\ cohort' = cohort => Known \subseteq Known'
  BY DEF Known, Tell, Types, AllMarks
<1>4. ASSUME NEW n, NEW v, NEW copy, SaveCohort(With(copy, n, v), copy), ~marks'.stale
      PROVE  Known \subseteq Known'
  <2>1. cohort = copy /\ cohort' = With(copy, n, v) /\ marks'.away = marks.away
    BY <1>4 DEF SaveCohort, Types, AllMarks
  <2>2. DOMAIN copy \subseteq DOMAIN With(copy, n, v)
    BY DEF With
  <2>. QED
    BY <2>1, <2>2 DEF Known
<1>5. Raise(k) => Known \subseteq Known'
  BY DEF Known, Raise, documents, Types, AllMarks
<1>. QED
  BY <1>1, <1>2, <1>3, <1>4, <1>5

(* Every step of a process compares.                                       *)
LEMMA ActsCompares ==
    ASSUME Types, NEW k \in DOMAIN procs, Acts(k)
    PROVE  Compares(k)
<1>. DEFINE r == procs[k]
<1>0. r.at # "done" => r \in Requests
  BY Itself
<1>1. ASSUME NEW q, Becomes(k, q), items' = items, q = Done \/ q.compared = r.compared,
             ~marks'.stale => Known \subseteq Known'
      PROVE  Compares(k)
  BY <1>1, ComparesQuietly
<1>2. CASE LoadItem(k)
  <2>1. r \in Requests /\ UNCHANGED <<documents, counts, marks>>
    BY <1>0, <1>2 DEF LoadItem, At
  <2>2. PICK q : Becomes(k, q) /\ q.compared \in {r.compared, items["comparison"]}
    <3>. DEFINE a == [r EXCEPT !.at = "remove"]
                b == [r EXCEPT !.at = "save_item", !.copy = items[Head(r.items)], !.compared = items["comparison"]]
    <3>1. a.compared = r.compared /\ b.compared = items["comparison"]
      BY <2>1 DEF Requests
    <3>2. Becomes(k, a) \/ Becomes(k, b)
      BY <1>2 DEF LoadItem
    <3>. HIDE DEF a, b
    <3>. QED
      BY <3>1, <3>2
  <2>. QED
    BY <2>1, <2>2, Alone, StillKnown DEF Compares, documents
<1>3. CASE SaveItem(k)
  <2>. DEFINE q == [r EXCEPT !.at = "load_item", !.items = Tail(@)]
  <2>1. r \in Requests /\ Becomes(k, q) /\ cohort' = cohort
    BY <1>0, <1>3 DEF SaveItem, At
  <2>2. q.compared = r.compared
    BY <2>1 DEF Requests
  <2>3. procs'[k].compared = r.compared
    BY <2>1, <2>2, Alone
  <2>4. items'["comparison"] \in {items["comparison"], r.compared} /\ marks'.away = marks.away
    <3>1. items' = items \/ \E i, n : items' = Written(i, n, r.compared)
      BY <1>3 DEF SaveItem
    <3>2. items'["comparison"] \in {items["comparison"], r.compared}
      BY <3>1 DEF Written, Types, Items
    <3>3. marks'.away = marks.away
      BY <1>3 DEF SaveItem, Types, AllMarks
    <3>. QED
      BY <3>2, <3>3
  <2>. QED
    BY <2>1, <2>3, <2>4 DEF Compares, Known
<1>4. CASE WriteItem(k)
  <2>1. Becomes(k, Done) /\ cohort' = cohort /\ marks' = marks
    BY <1>4 DEF WriteItem, End
  <2>2. items'["comparison"] \in {items["comparison"], r.compared}
    BY <1>4 DEF WriteItem, Written, Types, Items
  <2>. QED
    BY <2>1, <2>2, Alone, StillKnown DEF Compares
<1>5. CASE RenameInCohort(k)
  <2>. DEFINE q == [r EXCEPT !.at = "copy", !.list = AllUsers]
  <2>1. r \in Requests /\ Becomes(k, q) /\ items' = items
    BY <1>0, <1>5 DEF RenameInCohort, At
  <2>2. q.compared = r.compared
    BY <2>1 DEF Requests
  <2>3. ASSUME ~marks'.stale
        PROVE  Known \subseteq Known'
    <3>1. cohort = r.cohort /\ cohort' = Renamed(cohort, r.name, r.new) /\ marks'.away = marks.away \cup {r.name}
      BY <1>5, <2>3 DEF RenameInCohort, Types, AllMarks
    <3>2. DOMAIN cohort \ {r.name} \subseteq DOMAIN cohort'
      BY <3>1 DEF Renamed, With, Drop
    <3>. QED
      BY <3>1, <3>2 DEF Known
  <2>. HIDE DEF q
  <2>. QED
    BY <1>1, <2>1, <2>2, <2>3
<1>6. CASE CopyInUser(k)
  <2>0. r \in Requests /\ items' = items
    BY <1>0, <1>6 DEF CopyInUser, At, Raise, documents
  <2>1. CASE Raise(k)
    BY <1>1, <2>0, <2>1, StillKnown DEF Raise, End
  <2>2. ASSUME NEW u, NEW new, SaveUser(u[1], new, u[2]), cohort' = cohort,
               Becomes(k, [r EXCEPT !.user = @ + 1, !.list[r.user + 1] = <<u[1], new>>])
        PROVE  Compares(k)
    <3>. DEFINE q == [r EXCEPT !.user = @ + 1, !.list[r.user + 1] = <<u[1], new>>]
    <3>1. q.compared = r.compared
      BY <2>0 DEF Requests
    <3>2. Known \subseteq Known'
      BY <2>2, StillKnown
    <3>3. Becomes(k, q)
      BY <2>2
    <3>. HIDE DEF q
    <3>. QED
      BY <1>1, <2>0, <3>1, <3>2, <3>3
  <2>3. ASSUME Becomes(k, [r EXCEPT !.at = "load_item", !.items = <<"schedule", "question", "conditional">>]),
               cohort' = cohort, marks' = marks
        PROVE  Compares(k)
    <3>. DEFINE q == [r EXCEPT !.at = "load_item", !.items = <<"schedule", "question", "conditional">>]
    <3>1. q.compared = r.compared
      BY <2>0 DEF Requests
    <3>2. Known \subseteq Known' /\ Becomes(k, q)
      BY <2>3, StillKnown
    <3>. HIDE DEF q
    <3>. QED
      BY <1>1, <2>0, <3>1, <3>2
  <2>. QED
    BY <1>6, <2>1, <2>2, <2>3 DEF CopyInUser, documents
<1>7. ASSUME AddToCohort(k) \/ AddToUser(k) \/ AddedToUsers(k) \/ ChangeDefault(k) \/ RemoveFromUser(k)
             \/ SaveUserAttribute(k) \/ ParseRow(k) \/ LoadCohort(k) \/ Insert(k) \/ AddDefaults(k)
             \/ SetAttribute(k) \/ TestConditional(k) \/ SendQuestion(k)
      PROVE  Compares(k)
  <2>0. r \in Requests /\ items' = items
    <3>1. r.at # "done"
      BY <1>7 DEF AddToCohort, AddToUser, AddedToUsers, ChangeDefault, RemoveFromUser, SaveUserAttribute, ParseRow,
         LoadCohort, Insert, AddDefaults, SetAttribute, TestConditional, SendQuestion, At
    <3>2. items' = items
      BY <1>7 DEF AddToCohort, AddToUser, AddedToUsers, ChangeDefault, RemoveFromUser, SaveUserAttribute, ParseRow,
         LoadCohort, Insert, AddDefaults, SetAttribute, TestConditional, SendQuestion, documents, Raise
    <3>. QED
      BY <1>0, <3>1, <3>2
  <2>1. ~marks'.stale => Known \subseteq Known'
    <3>1. CASE AddToCohort(k) \/ ChangeDefault(k)
      BY <3>1, StillKnown DEF AddToCohort, ChangeDefault
    <3>2. CASE AddToUser(k) \/ AddDefaults(k) \/ RemoveFromUser(k)
      BY <3>2, StillKnown DEF AddToUser, AddDefaults, RemoveFromUser, documents
    <3>3. CASE SaveUserAttribute(k) \/ SetAttribute(k)
      BY <3>3, StillKnown DEF SaveUserAttribute, SetAttribute
    <3>4. CASE AddedToUsers(k) \/ ParseRow(k) \/ LoadCohort(k) \/ Insert(k) \/ TestConditional(k)
      BY <3>4, StillKnown DEF AddedToUsers, ParseRow, LoadCohort, Insert, TestConditional, documents
    <3>5. CASE SendQuestion(k)
      BY <3>5, StillKnown DEF SendQuestion, documents
    <3>. QED
      BY <1>7, <3>1, <3>2, <3>3, <3>4, <3>5
  <2>2. \E q : Becomes(k, q) /\ (q = Done \/ q.compared = r.compared)
    <3>1. CASE AddToCohort(k)
      <4>. DEFINE q == [r EXCEPT !.at = "users", !.list = AllUsers]
      <4>1. Becomes(k, q)
        BY <3>1 DEF AddToCohort
      <4>2. q.compared = r.compared
        BY <2>0 DEF Requests
      <4>. HIDE DEF q
      <4>. QED
        BY <4>1, <4>2
    <3>2. CASE ParseRow(k)
      <4>. DEFINE q == IF r.user = 0 THEN [r EXCEPT !.at = "load"] ELSE [r EXCEPT !.at = "set", !.copy = users[r.user]]
      <4>1. Becomes(k, q)
        BY <3>2 DEF ParseRow
      <4>2. q.compared = r.compared
        BY <2>0 DEF Requests
      <4>. HIDE DEF q
      <4>. QED
        BY <4>1, <4>2
    <3>5. CASE AddToUser(k)
      <4>. DEFINE q == [r EXCEPT !.list = Tail(@)]
      <4>1. Becomes(k, q)
        BY <3>5 DEF AddToUser
      <4>2. q.compared = r.compared
        BY <2>0 DEF Requests
      <4>. HIDE DEF q
      <4>. QED
        BY <4>1, <4>2
    <3>6. CASE RemoveFromUser(k)
      <4>. DEFINE q == [r EXCEPT !.list = Tail(@)]
      <4>1. Becomes(k, q) \/ Becomes(k, Done)
        BY <3>6 DEF RemoveFromUser, End
      <4>2. q.compared = r.compared
        BY <2>0 DEF Requests
      <4>. HIDE DEF q
      <4>. QED
        BY <4>1, <4>2
    <3>7. CASE AddedToUsers(k)
      <4>. DEFINE q == [r EXCEPT !.at = "row"]
      <4>1. Becomes(k, q) \/ Becomes(k, Done)
        BY <3>7 DEF AddedToUsers, End
      <4>2. q.compared = r.compared
        BY <2>0 DEF Requests
      <4>. HIDE DEF q
      <4>. QED
        BY <4>1, <4>2
    <3>8. CASE LoadCohort(k)
      <4>. DEFINE q == [r EXCEPT !.at = "insert", !.copy = cohort]
      <4>1. Becomes(k, q)
        BY <3>8 DEF LoadCohort
      <4>2. q.compared = r.compared
        BY <2>0 DEF Requests
      <4>. HIDE DEF q
      <4>. QED
        BY <4>1, <4>2
    <3>9. CASE Insert(k)
      <4>. DEFINE q == [r EXCEPT !.at = IF r.kind = "upload" THEN "set" ELSE "defaults", !.user = NewUser]
      <4>1. Becomes(k, q)
        BY <3>9 DEF Insert
      <4>2. q.compared = r.compared
        BY <2>0 DEF Requests
      <4>. HIDE DEF q
      <4>. QED
        BY <4>1, <4>2
    <3>3. CASE SetAttribute(k)
      <4>. DEFINE q == [r EXCEPT !.at = "test", !.copy = With(@, r.new, "told")]
      <4>1. Becomes(k, q)
        BY <3>3 DEF SetAttribute
      <4>2. q.compared = r.compared
        BY <2>0 DEF Requests
      <4>. HIDE DEF q
      <4>. QED
        BY <4>1, <4>2
    <3>10. CASE TestConditional(k)
      <4>. DEFINE q == [r EXCEPT !.at = "send"]
      <4>1. Becomes(k, q)
        BY <3>10 DEF TestConditional
      <4>2. q.compared = r.compared
        BY <2>0 DEF Requests
      <4>. HIDE DEF q
      <4>. QED
        BY <4>1, <4>2
    <3>4. CASE ChangeDefault(k) \/ SaveUserAttribute(k) \/ AddDefaults(k) \/ SendQuestion(k)
      BY <3>4 DEF ChangeDefault, SaveUserAttribute, AddDefaults, SendQuestion, End, Raise
    <3>. QED
      BY <1>7, <3>1, <3>2, <3>3, <3>4, <3>5, <3>6, <3>7, <3>8, <3>9, <3>10
  <2>. QED
    BY <1>1, <2>0, <2>1, <2>2
<1>. QED
  BY <1>2, <1>3, <1>4, <1>5, <1>6, <1>7, Zenon DEF Acts, LightAction

(* The inductive invariant.                                                *)
AttributesInvariant ==
    /\ Types
    /\ ~marks.stale => Compared
    /\ PairsMet
    /\ Apart => Users
    /\ Settled => Mentioned
    /\ Apart /\ ~marks.again => Attentive
    /\ SurveyFindsAttribute

(* Every step keeps the types, ...                                         *)
LEMMA ActsType ==
    ASSUME Types, NEW k \in DOMAIN procs, Acts(k)
    PROVE  Types'
<1>1. CASE LightAction(k)
  BY <1>1, AddToUserStep, AddedToUsersStep, ChangeDefaultStep, LoadItemStep, SaveItemStep, SaveUserAttributeStep,
     ParseRowStep, LoadCohortStep, AddDefaultsStep, WriteItemStep, SetAttributeStep, TestConditionalStep,
     SendQuestionStep, Zenon DEF LightAction
<1>. QED
  BY <1>1, AddToCohortStep, RenameInCohortStep, CopyInUserStep, RemoveFromUserStep, InsertStep, Zenon DEF Acts

(* ... what users have, ...                                                *)
LEMMA ActsUsers ==
    ASSUME AttributesInvariant, NEW k \in DOMAIN procs, Acts(k), Apart'
    PROVE  Users'
<1>1. Types /\ PairsMet
  BY DEF AttributesInvariant
<1>2. Apart /\ ~marks'.stale
  BY <1>1, ActsGoesOn, ApartBefore DEF Apart
<1>3. Users
  BY <1>2 DEF AttributesInvariant
<1>. QED
  BY <1>1, <1>2, <1>3, UsersAfterLight, UsersAfterAddToCohort, UsersAfterRename, UsersAfterCopy, UsersAfterRemove,
     UsersAfterInsert, Zenon DEF Acts

(* What raised is not forgotten; a renaming raises while it copies, and a  *)
(* survey when it sends.                                                   *)
LEMMA ActsRaised ==
    ASSUME Types, NEW k \in DOMAIN procs, Acts(k)
    PROVE  /\ marks.raised \subseteq marks'.raised
           /\ "survey" \in marks'.raised /\ "survey" \notin marks.raised =>
                  SendQuestion(k) /\ Value(procs[k], items["question"]) = "none"
<1>1. ASSUME Quiet \/ marks' = marks \/ Raised("edit_attribute")
      PROVE  /\ marks.raised \subseteq marks'.raised
             /\ "survey" \in marks'.raised => "survey" \in marks.raised
  BY <1>1 DEF Quiet, Raised
<1>2. CASE SendQuestion(k)
  <2>1. marks' = marks \/ (Value(procs[k], items["question"]) = "none" /\ Raised("survey"))
    BY <1>2, SendQuestionStep
  <2>. QED
    BY <1>2, <2>1 DEF Raised
<1>3. CASE ~SendQuestion(k)
  <2>1. Quiet \/ marks' = marks \/ Raised("edit_attribute")
    <3>1. AddToUser(k) \/ ChangeDefault(k) \/ AddToCohort(k) \/ RenameInCohort(k) => Quiet
      BY AddToUserStep, ChangeDefaultStep, AddToCohortStep, RenameInCohortStep, Zenon
    <3>2. SaveItem(k) => Quiet
      BY SaveItemStep DEF SavedItem
    <3>3. SaveUserAttribute(k) \/ AddDefaults(k) \/ SetAttribute(k) => Quiet
      BY SaveUserAttributeStep, AddDefaultsStep, SetAttributeStep DEF Told
    <3>4. LoadItem(k) \/ ParseRow(k) \/ LoadCohort(k) \/ TestConditional(k) => marks' = marks
      BY LoadItemStep, ParseRowStep, LoadCohortStep, TestConditionalStep DEF Moves
    <3>5. AddedToUsers(k) \/ WriteItem(k) \/ Insert(k) => marks' = marks
      BY AddedToUsersStep, WriteItemStep, InsertStep
    <3>6. CopyInUser(k) => Quiet \/ marks' = marks \/ Raised("edit_attribute")
      BY CopyInUserStep DEF CopiedAll, CopiedOne
    <3>7. RemoveFromUser(k) => Quiet \/ marks' = marks
      BY RemoveFromUserStep DEF Removed, Moves
    <3>. QED
      BY <1>3, <3>1, <3>2, <3>3, <3>4, <3>5, <3>6, <3>7, Zenon DEF Acts, LightAction
  <2>. QED
    BY <1>1, <1>3, <2>1
<1>. QED
  BY <1>2, <1>3

(* ... and what items name.                                                *)
LEMMA ActsMentioned ==
    ASSUME AttributesInvariant, NEW k \in DOMAIN procs, Acts(k), Settled'
    PROVE  Mentioned'
<1>1. Types /\ PairsMet
  BY DEF AttributesInvariant
<1>2. Settled /\ ~marks'.stale /\ "edit_attribute" \notin marks'.raised
  BY <1>1, ActsGoesOn, ActsRaised, SettledBefore DEF Settled
<1>3. Mentioned
  BY <1>2 DEF AttributesInvariant
<1>. QED
  BY <1>1, <1>2, <1>3, MentionedAfterLight, MentionedAfterAddToCohort, MentionedAfterRename, MentionedAfterCopy,
     MentionedAfterRemove, MentionedAfterInsert, Zenon DEF Acts

(* What SurveyFindsAttribute excuses.                                      *)
Excused ==
    \/ marks.stale \/ marks.again
    \/ Met(MakeUser, Change) \/ Met(Rename, Change \cup {"modify_item"})

(* What holds when nothing is excused.                                     *)
LEMMA NotExcused ==
    ASSUME AttributesInvariant, ~Excused
    PROVE  Apart /\ Users /\ Mentioned /\ Attentive
<1>1. Apart /\ ~marks.again
  BY DEF Excused, Apart, Met
<1>2. Users /\ Attentive
  BY <1>1 DEF AttributesInvariant
<1>3. Settled
  BY <1>1, <1>2 DEF Excused, Settled, Apart, Users, Met, Rename, Change
<1>. QED
  BY <1>1, <1>2, <1>3 DEF AttributesInvariant

(* A survey that merges an attribute has a value for it.                   *)
LEMMA SurveyHasValue ==
    ASSUME AttributesInvariant, ~Excused, NEW k \in Working, procs[k].at = "send", procs[k].kind = "survey"
    PROVE  Value(procs[k], items["question"]) # "none"
<1>. DEFINE n == items["question"]
            copy == procs[k].copy
<1>1. /\ Apart /\ Users /\ Mentioned /\ Attentive /\ Types
  BY NotExcused DEF AttributesInvariant
<1>2. copy \in Attributes /\ cohort \in Attributes
  BY <1>1, OfUser DEF HasUser, Types
<1>3. /\ \A m \in DOMAIN copy : copy[m] \in Values
      /\ \A m \in DOMAIN cohort : cohort[m] \in Values
  BY <1>2, AttributesType
<1>4. "none" \notin Values
  BY DEF Values
<1>5. n \in DOMAIN copy \/ n \in DOMAIN cohort
  <2>1. Named("question")
    BY <1>1 DEF Mentioned, Documents
  <2>2. ASSUME NEW l \in Working, WillRename(procs[l], "question")
        PROVE  n \in DOMAIN copy
    <3>1. procs[l].name = n /\ procs[l].at \in Copying
      BY <2>2 DEF WillRename, Copying
    <3>. QED
      BY <1>1, <3>1 DEF Attentive
  <2>. QED
    BY <2>1, <2>2 DEF Named
<1>. HIDE DEF n, copy
<1>6. Value(procs[k], n) \in Values
  BY <1>3, <1>5 DEF Value, copy
<1>. QED
  BY <1>4, <1>6 DEF n

(* A step of a process keeps the invariant.                                *)
LEMMA ActsKeep ==
    ASSUME AttributesInvariant, NEW k \in DOMAIN procs, Acts(k)
    PROVE  AttributesInvariant'
<1>1. Types /\ PairsMet
  BY DEF AttributesInvariant
<1>2. /\ GoesOn(k) /\ Continues(k) /\ marks'.met = marks.met /\ marks'.again = marks.again
      /\ marks.stale => marks'.stale
      /\ ~marks'.stale => DOMAIN cohort' \subseteq DOMAIN cohort \/ procs[k].kind \in Change
  BY <1>1, ActsGoesOn
<1>3. Types'
  BY <1>1, ActsType
<1>4. PairsMet'
  BY <1>1, <1>2, PairsMetKept
<1>5. ASSUME Apart', ~marks'.again
      PROVE  Attentive'
  <2>1. Apart /\ ~marks.again /\ ~marks'.stale
    BY <1>2, <1>5, ApartBefore DEF Apart
  <2>2. Attentive
    BY <2>1 DEF AttributesInvariant
  <2>. QED
    BY <1>1, <1>2, <2>1, <2>2, AttentiveKept
<1>6. SurveyFindsAttribute'
  <2>. SUFFICES ASSUME "survey" \in marks'.raised, ~Excused' PROVE FALSE
    BY DEF SurveyFindsAttribute, Excused
  <2>1. ~Excused
    BY <1>2 DEF Excused, Met
  <2>2. "survey" \notin marks.raised
    BY <2>1 DEF AttributesInvariant, SurveyFindsAttribute, Excused
  <2>3. SendQuestion(k) /\ Value(procs[k], items["question"]) = "none"
    BY <1>1, <2>2, ActsRaised
  <2>4. k \in Working /\ procs[k].at = "send" /\ procs[k].kind = "survey"
    BY <1>1, <2>3, SendQuestionStep
  <2>. QED
    BY <2>1, <2>3, <2>4, SurveyHasValue
<1>7. ASSUME ~marks'.stale
      PROVE  Compared'
  <2>1. Compared /\ Compares(k) /\ Known \subseteq Known'
    BY <1>1, <1>2, <1>7, ActsCompares DEF AttributesInvariant, Compares
  <2>2. k \in Working
    BY <1>2 DEF GoesOn
  <2>3. items'["comparison"] \in Known' /\ (procs'[k] = Done \/ procs'[k].compared \in Known')
    BY <2>1, <2>2 DEF Compared, Compares
  <2>4. ASSUME NEW l \in Working'
        PROVE  procs'[l].compared \in Known'
    <3>1. l \in Working /\ (l # k => procs'[l] = procs[l]) /\ procs'[l] # Done
      BY <1>2, <2>4, WorkingStays DEF Working, Done
    <3>. QED
      BY <2>1, <2>3, <3>1 DEF Compared
  <2>. QED
    BY <2>3, <2>4 DEF Compared
<1>. QED
  BY <1>3, <1>4, <1>5, <1>6, <1>7, ActsUsers, ActsMentioned DEF AttributesInvariant

(* A beginning keeps the invariant.                                        *)
LEMMA BegunKeeps ==
    ASSUME AttributesInvariant, NEW p, NEW j, Began(p, j), Starts(p), Types'
    PROVE  AttributesInvariant'
<1>1. Types /\ PairsMet
  BY DEF AttributesInvariant
<1>2. /\ marks.met \subseteq marks'.met /\ marks'.stale = marks.stale /\ marks'.raised = marks.raised
      /\ marks.again => marks'.again
  BY DEF Began
<1>3. PairsMet'
  BY <1>1, PairsMetBegun
<1>4. Apart' => Apart
  BY <1>2, ApartBefore
<1>5. Settled' => Settled
  BY <1>2, SettledBefore
<1>6. Apart' => Users'
  BY <1>1, <1>4, UsersAfterBegun DEF AttributesInvariant
<1>7. Settled' => Mentioned'
  BY <1>1, <1>5, MentionedAfterBegun DEF AttributesInvariant
<1>8. Apart' /\ ~marks'.again => Attentive'
  BY <1>1, <1>2, <1>4, AttentiveBegun DEF AttributesInvariant
<1>9. Excused => Excused'
  BY <1>2 DEF Excused, Met
<1>10. SurveyFindsAttribute'
  BY <1>2, <1>9 DEF AttributesInvariant, SurveyFindsAttribute, Excused
<1>11. ASSUME ~marks'.stale
       PROVE  Compared'
  <2>1. Compared
    BY <1>2, <1>11 DEF AttributesInvariant
  <2>2. /\ cohort' = cohort /\ items' = items /\ marks'.away = marks.away
        /\ DOMAIN procs' = DOMAIN procs \cup {j} /\ procs'[j] = p
        /\ \A l \in DOMAIN procs \ {j} : procs'[l] = procs[l]
    BY DEF Began, documents
  <2>3. p.compared \in Known
    BY <2>1 DEF Starts, Compared, Known
  <2>. QED
    BY <2>1, <2>2, <2>3 DEF Compared, Known, Working
<1>. QED
  BY <1>3, <1>6, <1>7, <1>8, <1>10, <1>11 DEF AttributesInvariant

(* The invariant holds at first, ...                                       *)
LEMMA AttributesInit == Init => AttributesInvariant
<1>. SUFFICES ASSUME Init PROVE AttributesInvariant
  OBVIOUS
<1>1. /\ cohort = [n \in {First} |-> "default"] /\ users = <<cohort>> /\ items = [i \in Items |-> First]
      /\ procs = <<>> /\ pages = 0 /\ surveys = 0 /\ marks = NoMarks
  BY DEF Init
<1>2. cohort \in Attributes /\ DOMAIN cohort = {First}
  <2>1. cohort \in [{First} -> Values] /\ {First} \in SUBSET Names
    BY <1>1, AttributesAssumption DEF Values
  <2>. QED
    BY <2>1, IsAttributes
<1>3. Working = {}
  BY <1>1 DEF Working
<1>4. marks \in AllMarks /\ "survey" \notin marks.raised /\ "edit_attribute" \notin marks.raised
  BY <1>1, AttributesAssumption DEF NoMarks, AllMarks, Values
<1>5. /\ users \in Seq(Attributes) /\ Len(users) = 1 /\ DOMAIN users = {1} /\ users[1] = cohort
  <2>. HIDE DEF Attributes
  <2>. QED
    BY <1>1, <1>2
<1>6. Types
  <2>1. Len(users) \in 1 .. MaxUsers
    BY <1>5, AttributesAssumption
  <2>2. procs \in Seq(Requests \cup {Done})
    BY <1>1
  <2>3. items \in [Items -> Names]
    BY <1>1, AttributesAssumption
  <2>. QED
    BY <1>1, <1>2, <1>3, <1>4, <1>5, <2>1, <2>2, <2>3 DEF Types
<1>7. PairsMet
  BY <1>3 DEF PairsMet
<1>8. Users
  BY <1>3, <1>4, <1>5 DEF Users, AllComing, AllKnow, Coming
<1>9. Mentioned
  BY <1>1, <1>2, <1>3 DEF Mentioned, Named, Items
<1>10. Attentive
  BY <1>3 DEF Attentive
<1>11. SurveyFindsAttribute
  BY <1>4 DEF SurveyFindsAttribute
<1>12. Compared
  BY <1>1, <1>2, <1>3 DEF Compared, Known, Items
<1>. QED
  BY <1>6, <1>7, <1>8, <1>9, <1>10, <1>11, <1>12 DEF AttributesInvariant

(* ... and after every step.                                               *)
LEMMA AttributesNext == AttributesInvariant /\ [Next]_vars => AttributesInvariant'
<1>. SUFFICES ASSUME AttributesInvariant, [Next]_vars PROVE AttributesInvariant'
  OBVIOUS
<1>1. Types
  BY DEF AttributesInvariant
<1>2. CASE Arrive
  BY <1>1, <1>2, ArriveStep, BegunKeeps
<1>3. CASE \E u \in DOMAIN users : BeginSurvey(u)
  BY <1>1, <1>3, BeginSurveyStep, BegunKeeps
<1>4. CASE \E k \in DOMAIN procs : Acts(k)
  BY <1>4, ActsKeep
<1>5. CASE UNCHANGED vars
  <2>1. cohort' = cohort /\ users' = users /\ items' = items /\ procs' = procs /\ pages' = pages
        /\ surveys' = surveys /\ marks' = marks
    BY <1>5 DEF vars, documents, counts
  <2>2. Types'
    BY <1>1, <2>1 DEF Types, Working
  <2>3. PairsMet'
    BY <2>1 DEF AttributesInvariant, PairsMet, Working
  <2>4. (Apart' <=> Apart) /\ (Users' <=> Users)
    BY <2>1 DEF Apart, Met, Users, AllComing, Coming, AllKnow, Knows, Working, WillGive
  <2>5. (Settled' <=> Settled) /\ (Mentioned' <=> Mentioned)
    BY <2>1 DEF Settled, Met, Mentioned, Named, MayWrite, Working, WillRename
  <2>6. Attentive' <=> Attentive
    BY <2>1 DEF Attentive, Met, Working
  <2>7. SurveyFindsAttribute' <=> SurveyFindsAttribute
    BY <2>1 DEF SurveyFindsAttribute, Met
  <2>8. (marks'.stale <=> marks.stale) /\ (Compared' <=> Compared)
    BY <2>1 DEF Compared, Known, Working
  <2>. QED
    BY <2>1, <2>2, <2>3, <2>4, <2>5, <2>6, <2>7, <2>8 DEF AttributesInvariant
<1>6. Next => Arrive \/ (\E u \in DOMAIN users : BeginSurvey(u)) \/ \E k \in DOMAIN procs : Acts(k)
  BY Zenon DEF Next, Acts, LightAction
<1>. QED
  BY <1>2, <1>3, <1>4, <1>5, <1>6

(* Whatever pages and surveys do, the invariant holds.                     *)
THEOREM AttributesSpec == Spec => []AttributesInvariant
<1>. QED
  BY AttributesInit, AttributesNext, PTL DEF Spec

(* With no page at work nothing is still to be given.                      *)
LEMMA HaveAttributes == AttributesInvariant => UsersHaveAttributes
<1>. SUFFICES ASSUME AttributesInvariant PROVE UsersHaveAttributes
  OBVIOUS
<1>1. Types
  BY DEF AttributesInvariant
<1>2. TypeOK
  <2>1. cohort \in Attributes /\ \A u \in DOMAIN users : users[u] \in Attributes
    BY <1>1 DEF Types
  <2>. QED
    BY <1>1, <2>1, AttributesType DEF TypeOK, Types
<1>3. ASSUME Pages = {}, Apart, NEW u \in DOMAIN users, NEW n \in DOMAIN cohort
      PROVE  n \in DOMAIN users[u]
  <2>1. Coming(u, n)
    BY <1>3 DEF AttributesInvariant, Users, AllComing
  <2>2. ASSUME NEW k \in Working, WillGive(procs[k], u, n)
        PROVE  FALSE
    <3>1. procs[k].kind # "survey"
      BY <1>1, <2>2, Kind DEF WillGive
    <3>. QED
      BY <1>3, <3>1 DEF Pages
  <2>. QED
    BY <2>1, <2>2 DEF Coming
<1>. QED
  BY <1>2, <1>3 DEF UsersHaveAttributes, Apart

(* With no page at work no document is still to be renamed; what the       *)
(* conditional compares with is known at any time.                         *)
LEMMA NameAttributes == AttributesInvariant => ItemsNameAttributes
<1>1. ASSUME AttributesInvariant, Pages = {}, Settled, NEW i \in Documents
      PROVE  items[i] \in DOMAIN cohort
  <2>0. Types /\ Mentioned
    BY <1>1 DEF AttributesInvariant
  <2>1. Named(i)
    BY <2>0 DEF Mentioned
  <2>2. ASSUME NEW k \in Working, WillRename(procs[k], i)
        PROVE  FALSE
    <3>1. procs[k].kind # "survey"
      BY <2>0, <2>2, Kind DEF WillRename
    <3>. QED
      BY <1>1, <3>1 DEF Pages
  <2>. QED
    BY <2>1, <2>2 DEF Named
<1>2. AttributesInvariant /\ ~marks.stale => items["comparison"] \in DOMAIN cohort \cup marks.away
  BY DEF AttributesInvariant, Compared, Known
<1>. QED
  BY <1>1, <1>2 DEF ItemsNameAttributes, Settled

(* When no page is at work, every user has every attribute of the cohort,  *)
(* unless what the property excuses happened (EditUserAttribute, upload,   *)
(* User.create).                                                           *)
THEOREM EveryUserHasAttributes == Spec => []UsersHaveAttributes
<1>. QED
  BY AttributesSpec, HaveAttributes, PTL

(* When no page is at work, what schedules, questions and conditionals     *)
(* name in texts and as "attribute" is an attribute of the cohort, unless  *)
(* what the property excuses happened (update_merge_fields_in_object).     *)
(* What a conditional compares with, which no renaming comes to, is one or *)
(* was one before a renaming.                                              *)
THEOREM SurveysNameAttributes == Spec => []ItemsNameAttributes
<1>. QED
  BY AttributesSpec, NameAttributes, PTL

(* A survey finds a value for what it merges, while attributes are created *)
(* and renamed under it (get_custom_attribute_value).                      *)
THEOREM SurveysFindAttributes == Spec => []SurveyFindsAttribute
<1>1. AttributesInvariant => SurveyFindsAttribute
  BY DEF AttributesInvariant
<1>. QED
  BY <1>1, AttributesSpec, PTL
=============================================================================
