-------------------------- MODULE AdminAccountProofs --------------------------
(***************************************************************************)
(* The safety of an administrator's account for any number of requests at  *)
(* a time, and every throttle, life of a link and bound.                   *)
(***************************************************************************)
EXTENDS AdminAccount, TLAPS

Optional == Nat \cup {None}
Payloads == [hash : Optional, login : Optional, requested : Optional]
Docs == [hash : Optional, login : Optional, requested : Optional,
         token : Payloads \cup {None}, tos : BOOLEAN]
States ==
    {Idle} \cup [at : {"login", "clear"}, copy : Docs]
           \cup [at : {"reset"}, copy : Docs, time : Nat] \cup [at : {"new"}, token : Payloads]
Marks == [hash : Optional, stale : BOOLEAN, overlapped : SUBSET {"reset", "new"},
          mailed : Optional, used : BOOLEAN, again : BOOLEAN]

Shapes ==
    /\ now \in Nat /\ hashes \in Nat /\ logins \in Nat
    /\ internal \in BOOLEAN
    /\ admin \in Docs
    /\ session \in [tos : BOOLEAN] \cup {None}
    /\ req \in [Requests -> States]
    /\ marks \in Marks

(* What a document may hold at this moment: a reset_password that saves a   *)
(* copy whole puts it into the database, so the copies must be so, too.     *)
Fine(d) ==
    /\ d.hash \in 1 .. hashes \cup {None}
    /\ d.login \in 1 .. logins \cup {None}
    /\ d.token # None => d.token = Payload(d.token, d.requested)
    /\ d.requested \in 0 .. now \cup {None}

CopiesFine ==
    \A r \in Requests :
        /\ req[r].at \in {"login", "clear", "reset"} => Fine(req[r].copy)
        /\ req[r].at = "reset" => req[r].time <= now

PasswordKept == admin.hash = marks.hash \/ marks.stale

(* A login brings the terms of its copy into the session.                   *)
CopiesSigned ==
    \A r \in Requests :
        req[r].at = "login" /\ req[r].copy.tos => admin.tos \/ marks.stale

(* As long as no two requests for a mail have met, the time in the document *)
(* is that of the last mail, and the one request at work keeps its distance. *)
Spaced ==
    "reset" \notin marks.overlapped =>
        /\ marks.mailed = admin.requested
        /\ \A r \in Requests : req[r].at = "reset" =>
              /\ admin.requested # None => req[r].time - admin.requested >= Throttle
              /\ \A q \in Requests : req[q].at = "reset" => q = r

IInv ==
    /\ Shapes
    /\ Fine(admin) /\ CopiesFine
    /\ PasswordKept
    /\ TermsAreSigned /\ CopiesSigned
    /\ Spaced

(* Initially there are no requests and no copies. *)
LEMMA InitIInv == Init => IInv
  <1> SUFFICES ASSUME Init PROVE IInv
    OBVIOUS
  <1>1. Shapes
    BY AccountAssumption
       DEF Init, Shapes, Docs, Payloads, Optional, States, Marks, NoMarks
  <1>2. Fine(admin) /\ PasswordKept /\ TermsAreSigned /\ Spaced
    BY AccountAssumption
       DEF Init, Fine, PasswordKept, TermsAreSigned, Spaced, NoMarks, Idle
  <1>3. CopiesFine /\ CopiesSigned
    BY DEF Init, CopiesFine, CopiesSigned, Idle
  <1>4. QED
    BY <1>1, <1>2, <1>3 DEF IInv

(* A login takes a copy of the document, which is fine as the document is. *)
LEMMA LoadLoginStep ==
  ASSUME IInv, NEW r \in Requests, LoadLogin(r)
  PROVE  IInv'
  <1> USE AccountAssumption DEF IInv
  <1>1. Shapes'
    BY SMTT(40)
       DEF LoadLogin, Enters, Goto, Shapes, Docs, Payloads, Optional, States,
           Marks, Idle
  <1>2. Fine(admin)' /\ CopiesFine'
    BY <1>1
       DEF LoadLogin, Enters, Goto, Shapes, Docs, Fine, CopiesFine, Payload, Idle,
           States, Payloads
  <1>3. PasswordKept' /\ TermsAreSigned' /\ CopiesSigned'
    BY <1>1
       DEF LoadLogin, Enters, Goto, Shapes, Docs, PasswordKept, TermsAreSigned,
           CopiesSigned, Idle, Marks, States
  <1>4. Spaced'
    BY <1>1
       DEF LoadLogin, Enters, Goto, Shapes, Docs, Spaced, Idle, Marks, States,
           Fine, CopiesFine, Optional
  <1>5. QED
    BY <1>1, <1>2, <1>3, <1>4

(* A login writes its time and its session, from a copy that is fine. *)
LEMMA LoginStep ==
  ASSUME IInv, NEW r \in Requests, Login(r)
  PROVE  IInv'
  <1> USE AccountAssumption DEF IInv
  <1>1. Shapes'
    BY SMTT(40)
       DEF Login, Goto, Record, Terms, Shapes, Docs, Payloads, Optional, States,
           Marks, Idle
  <1>2. Fine(admin)' /\ CopiesFine'
    BY <1>1
       DEF Login, Goto, Record, Terms, Shapes, Docs, Fine, CopiesFine, Payload,
           Idle, States, Payloads
  <1>3. PasswordKept' /\ TermsAreSigned' /\ CopiesSigned'
    BY <1>1
       DEF Login, Goto, Record, Terms, Shapes, Docs, PasswordKept, TermsAreSigned,
           CopiesSigned, Idle, Marks, States
  <1>4. Spaced'
    BY <1>1
       DEF Login, Goto, Record, Terms, Shapes, Docs, Spaced, Idle, Marks, States,
           Fine, CopiesFine, Optional
  <1>5. QED
    BY <1>1, <1>2, <1>3, <1>4

(* The one-time password is cleared, field by field. *)
LEMMA ClearPasswordStep ==
  ASSUME IInv, NEW r \in Requests, ClearPassword(r)
  PROVE  IInv'
  <1> USE AccountAssumption DEF IInv
  <1>1. Shapes'
    BY ZenonT(60) DEF ClearPassword, Goto, Shapes, Docs, Payloads, Optional, States, Marks, Idle
  <1>2. Fine(admin)' /\ CopiesFine'
    BY <1>1
       DEF ClearPassword, Goto, Shapes, Docs, Fine, CopiesFine, Payload, Idle,
           States, Payloads
  <1>3. PasswordKept' /\ TermsAreSigned' /\ CopiesSigned'
    BY <1>1
       DEF ClearPassword, Goto, Shapes, Docs, PasswordKept, TermsAreSigned,
           CopiesSigned, Idle, Marks, States
  <1>4. Spaced'
    BY <1>1
       DEF ClearPassword, Goto, Shapes, Docs, Spaced, Idle, Marks, States, Fine,
           CopiesFine, Optional
  <1>5. QED
    BY <1>1, <1>2, <1>3, <1>4

(* A request for a link takes a copy, if the throttle lets it. *)
LEMMA LoadResetStep ==
  ASSUME IInv, NEW r \in Requests, LoadReset(r)
  PROVE  IInv'
  <1> USE AccountAssumption DEF IInv
  <1>1. Shapes'
    BY SMTT(40)
       DEF LoadReset, Enters, Goto, Overlap, Throttled, Elapsed, Shapes, Docs,
           Payloads, Optional, States, Marks, Idle
  <1>2. Fine(admin)' /\ CopiesFine'
    BY <1>1
       DEF LoadReset, Enters, Goto, Overlap, Throttled, Elapsed, Shapes, Docs,
           Fine, CopiesFine, Payload, Idle, States, Payloads
  <1>3. PasswordKept' /\ TermsAreSigned' /\ CopiesSigned'
    BY <1>1
       DEF LoadReset, Enters, Goto, Overlap, Throttled, Elapsed, Shapes, Docs,
           PasswordKept, TermsAreSigned, CopiesSigned, Idle, Marks, States
  <1>4. Spaced'
    BY <1>1
       DEF LoadReset, Enters, Goto, Overlap, Throttled, Elapsed, Shapes, Docs,
           Spaced, Idle, Marks, States, Fine, CopiesFine, Optional
  <1>5. QED
    BY <1>1, <1>2, <1>3, <1>4

(* The copy has, with the new token, what a document may have; so the save  *)
(* of it is harmless but for what others wrote since, which makes it stale. *)
LEMMA SaveResetStep ==
  ASSUME IInv, NEW r \in Requests, SaveReset(r)
  PROVE  IInv'
  <1> DEFINE copy == req[r].copy
             time == req[r].time
             token == Payload(copy, time)
  <1>1. /\ copy \in Docs /\ time \in Nat /\ time <= now
        /\ Fine(copy)
    BY DEF IInv, SaveReset, Shapes, States, Idle, CopiesFine
  <1>2. token \in Payloads
    BY <1>1 DEF Docs, Payloads, Payload, Optional
  <1>3. /\ admin' \in Docs
        /\ admin'.hash = copy.hash /\ admin'.login = copy.login /\ admin'.tos = copy.tos
        /\ admin'.requested = time /\ admin'.token = token
    BY <1>1, <1>2 DEF SaveReset, Docs, Optional
  <1>4. /\ marks' \in Marks
        /\ marks'.hash = marks.hash /\ marks'.overlapped = marks.overlapped
        /\ marks'.mailed = time
        /\ marks.stale => marks'.stale
        /\ ~marks'.stale => admin = copy
    <2>1. marks \in Marks
      BY DEF IInv, Shapes
    <2>2. time \in Optional
      BY <1>1 DEF Optional
    <2>3. QED
      BY <2>1, <2>2 DEF SaveReset, Marks
  <1>5. /\ req' \in [Requests -> States]
        /\ req'[r] = Idle /\ \A q \in Requests \ {r} : req'[q] = req[q]
    BY DEF IInv, SaveReset, Goto, Shapes, States
  <1>6. UNCHANGED <<now, internal, session, hashes, logins>>
    BY DEF SaveReset
  <1>7. Shapes'
    BY <1>3, <1>4, <1>5, <1>6 DEF IInv, Shapes
  <1>8. Fine(admin)'
    <2>1. token = Payload(token, time)
      BY DEF Payload
    <2>2. QED
      BY <1>1, <1>3, <1>6, <2>1 DEF Fine
  <1>9. CopiesFine'
    BY <1>5, <1>6 DEF IInv, CopiesFine, Fine, Idle
  <1>10. PasswordKept' /\ TermsAreSigned' /\ CopiesSigned'
    BY <1>3, <1>4, <1>5, <1>6 DEF IInv, PasswordKept, TermsAreSigned, CopiesSigned, Idle
  <1>11. Spaced'
    BY <1>3, <1>4, <1>5, SaveReset(r) DEF IInv, SaveReset, Spaced, Idle
  <1>12. QED
    BY <1>7, <1>8, <1>9, <1>10, <1>11 DEF IInv

(* A link that is still good becomes a request with a copy. *)
LEMMA CheckTokenStep ==
  ASSUME IInv, NEW r \in Requests, CheckToken(r)
  PROVE  IInv'
  <1> USE AccountAssumption DEF IInv
  <1>1. Shapes'
    BY SMTT(40)
       DEF CheckToken, Enters, Goto, Overlap, Shapes, Docs, Payloads, Optional,
           States, Marks, Idle
  <1>2. Fine(admin)' /\ CopiesFine'
    BY <1>1
       DEF CheckToken, Enters, Goto, Overlap, Shapes, Docs, Fine, CopiesFine,
           Payload, Idle, States, Payloads
  <1>3. PasswordKept' /\ TermsAreSigned' /\ CopiesSigned'
    BY <1>1
       DEF CheckToken, Enters, Goto, Overlap, Shapes, Docs, PasswordKept,
           TermsAreSigned, CopiesSigned, Idle, Marks, States
  <1>4. Spaced'
    BY <1>1
       DEF CheckToken, Enters, Goto, Overlap, Shapes, Docs, Spaced, Idle, Marks,
           States, Fine, CopiesFine, Optional
  <1>5. QED
    BY <1>1, <1>2, <1>3, <1>4

(* A new hash comes into the document, and nothing else; or the link was    *)
(* replaced meanwhile, and nothing at all.                                  *)
LEMMA SetPasswordStep ==
  ASSUME IInv, NEW r \in Requests, SetPassword(r)
  PROVE  IInv'
  <1> USE DEF IInv
  <1>1. /\ req' \in [Requests -> States]
        /\ req'[r] = Idle /\ \A q \in Requests \ {r} : req'[q] = req[q]
        /\ UNCHANGED <<now, internal, session, logins>>
    BY DEF SetPassword, Goto, Shapes, States
  <1>2. CASE admin.token = req[r].token
    <2>1. hashes' = hashes + 1 /\ hashes' \in Nat
      BY <1>2 DEF SetPassword, Shapes
    <2>2. /\ admin' = [admin EXCEPT !.hash = hashes']
          /\ marks' = [marks EXCEPT !.hash = hashes', !.again = @ \/ marks.used, !.used = TRUE]
      BY <1>2, <2>1 DEF SetPassword
    <2>3. /\ admin' \in Docs /\ admin'.hash = hashes'
          /\ admin'.login = admin.login /\ admin'.requested = admin.requested
          /\ admin'.token = admin.token /\ admin'.tos = admin.tos
      BY <2>1, <2>2 DEF Shapes, Docs, Optional
    <2>4. /\ marks' \in Marks /\ marks'.hash = hashes'
          /\ marks'.stale = marks.stale /\ marks'.overlapped = marks.overlapped
          /\ marks'.mailed = marks.mailed
      BY <2>1, <2>2 DEF Shapes, Marks, Optional
    <2>5. Shapes'
      BY <1>1, <2>1, <2>3, <2>4 DEF Shapes
    <2>6. Fine(admin)' /\ CopiesFine'
      BY <1>1, <2>1, <2>3 DEF Shapes, Fine, CopiesFine, Idle
    <2>7. PasswordKept' /\ TermsAreSigned' /\ CopiesSigned'
      BY <1>1, <2>3, <2>4 DEF PasswordKept, TermsAreSigned, CopiesSigned, Idle
    <2>8. Spaced'
      BY <1>1, <2>3, <2>4 DEF Spaced, Idle
    <2>9. QED
      BY <2>5, <2>6, <2>7, <2>8
  <1>3. CASE admin.token # req[r].token
    <2>1. UNCHANGED <<admin, hashes, marks>>
      BY <1>3 DEF SetPassword
    <2>2. Shapes' /\ Fine(admin)' /\ CopiesFine'
      BY <1>1, <2>1 DEF Shapes, Fine, CopiesFine, Idle
    <2>3. PasswordKept' /\ TermsAreSigned' /\ CopiesSigned' /\ Spaced'
      BY <1>1, <2>1 DEF PasswordKept, TermsAreSigned, CopiesSigned, Spaced, Idle
    <2>4. QED
      BY <2>2, <2>3
  <1>4. QED
    BY <1>2, <1>3

(* Logging out touches the session alone. *)
LEMMA LogoutStep ==
  ASSUME IInv, Logout
  PROVE  IInv'
  <1> USE AccountAssumption DEF IInv, Logout
  <1>1. Shapes'
    BY DEF Shapes, Docs, Optional, Marks
  <1>2. Fine(admin)' /\ CopiesFine'
    BY <1>1 DEF Shapes, Docs, Fine, CopiesFine, States, Idle, Optional
  <1>3. PasswordKept' /\ TermsAreSigned' /\ CopiesSigned' /\ Spaced'
    BY <1>1 DEF Shapes, Docs, Marks, PasswordKept, TermsAreSigned, CopiesSigned, Spaced
  <1>4. QED
    BY <1>1, <1>2, <1>3

(* The terms are signed in the document, for the session that is open. *)
LEMMA SignTermsStep ==
  ASSUME IInv, SignTerms
  PROVE  IInv'
  <1> USE AccountAssumption DEF IInv, SignTerms
  <1>1. Shapes'
    BY DEF Shapes, Docs, Optional, Marks
  <1>2. Fine(admin)' /\ CopiesFine'
    BY <1>1 DEF Shapes, Docs, Fine, CopiesFine, States, Idle, Optional
  <1>3. PasswordKept' /\ TermsAreSigned' /\ CopiesSigned' /\ Spaced'
    BY <1>1 DEF Shapes, Docs, Marks, PasswordKept, TermsAreSigned, CopiesSigned, Spaced
  <1>4. QED
    BY <1>1, <1>2, <1>3

(* The one-time password of an internal login is a new hash. *)
LEMMA SetInternalPasswordStep ==
  ASSUME IInv, SetInternalPassword
  PROVE  IInv'
  <1> USE AccountAssumption DEF IInv, SetInternalPassword
  <1>1. Shapes'
    BY DEF Shapes, Docs, Optional, Marks
  <1>2. Fine(admin)' /\ CopiesFine'
    BY <1>1 DEF Shapes, Docs, Fine, CopiesFine, States, Idle, Optional
  <1>3. PasswordKept' /\ TermsAreSigned' /\ CopiesSigned' /\ Spaced'
    BY <1>1 DEF Shapes, Docs, Marks, PasswordKept, TermsAreSigned, CopiesSigned, Spaced
  <1>4. QED
    BY <1>1, <1>2, <1>3

(* Time passes, which disturbs no bound on the past. *)
LEMMA TickStep ==
  ASSUME IInv, Tick
  PROVE  IInv'
  <1> USE AccountAssumption DEF IInv, Tick
  <1>1. Shapes'
    BY DEF Shapes, Docs, Optional, Marks
  <1>2. Fine(admin)' /\ CopiesFine'
    BY <1>1 DEF Shapes, Docs, Fine, CopiesFine, States, Idle, Optional
  <1>3. PasswordKept' /\ TermsAreSigned' /\ CopiesSigned' /\ Spaced'
    BY <1>1 DEF Shapes, Docs, Marks, PasswordKept, TermsAreSigned, CopiesSigned, Spaced
  <1>4. QED
    BY <1>1, <1>2, <1>3

(* The first invariant is inductive. *)
LEMMA NextStep == IInv /\ [Next]_vars => IInv'
  <1> SUFFICES ASSUME IInv, [Next]_vars PROVE IInv'
    OBVIOUS
  <1>1. CASE \E r \in Requests :
               LoadLogin(r) \/ Login(r) \/ ClearPassword(r) \/ LoadReset(r) \/ SaveReset(r)
                   \/ CheckToken(r) \/ SetPassword(r)
    BY <1>1, LoadLoginStep, LoginStep, ClearPasswordStep, LoadResetStep, SaveResetStep,
       CheckTokenStep, SetPasswordStep
  <1>2. CASE Logout \/ SignTerms \/ SetInternalPassword \/ Tick
    BY <1>2, LogoutStep, SignTermsStep, SetInternalPasswordStep, TickStep
  <1>3. CASE UNCHANGED vars
    BY <1>3 DEF vars, IInv, Shapes, Fine, CopiesFine, PasswordKept, TermsAreSigned,
       CopiesSigned, Spaced
  <1>4. QED
    BY <1>1, <1>2, <1>3 DEF Next

(* Every reachable state of the account has the first invariant. *)
THEOREM AccountInductive == Spec => []IInv
  <1>1. QED
    BY InitIInv, NextStep, PTL DEF Spec

(***************************************************************************)
(* A link sets a password once.  What a used link would need is gone: the   *)
(* hash it was made with, or the login; only a save of an older copy brings *)
(* both back.  A login that still has to clear the one-time password could  *)
(* bring back the hash None, but not the login of before.                   *)
(***************************************************************************)
Bounded(t) == t.hash \in 1 .. hashes \cup {None} /\ t.login \in 1 .. logins \cup {None}

TokensBounded ==
    /\ admin.token # None => Bounded(admin.token)
    /\ marks.used => admin.token # None
    /\ \A r \in Requests :
          /\ req[r].at = "new" => req[r].token # None /\ Bounded(req[r].token)
          /\ req[r].at \in {"login", "clear"} => req[r].copy.hash # None

LinksApart ==
    "new" \notin marks.overlapped =>
        \A q, r \in Requests : req[q].at = "new" /\ req[r].at = "new" => q = r

UsedLinkIsDead ==
    marks.used /\ ~marks.stale =>
        /\ admin.token.hash # admin.hash \/ admin.token.login # admin.login
        /\ \A r \in Requests :
              req[r].at = "clear" /\ req[r].copy.hash = admin.hash /\ admin.token.hash = None
                  => admin.token.login # admin.login
        /\ "new" \notin marks.overlapped =>
              \A r \in Requests : req[r].at = "new" => req[r].token # admin.token

LinkInv == TokensBounded /\ LinksApart /\ UsedLinkIsDead /\ LinkSetsOnce

(* Initially no link was made or used. *)
LEMMA InitLinkInv == Init => LinkInv
  BY AccountAssumption
     DEF Init, LinkInv, TokensBounded, LinksApart, UsedLinkIsDead, LinkSetsOnce, NoMarks, Idle

(* A login takes a copy and leaves the links as they are. *)
LEMMA LoadLoginLinks ==
  ASSUME IInv, IInv', LinkInv, NEW r \in Requests, LoadLogin(r)
  PROVE  LinkInv'
  <1> USE AccountAssumption DEF LinkInv
  <1>1. TokensBounded'
    BY DEF LoadLogin, Enters, Goto, TokensBounded, Bounded, IInv, Shapes, Docs,
           Marks, States, Idle
  <1>2. LinksApart' /\ LinkSetsOnce'
    BY DEF LoadLogin, Enters, Goto, LinksApart, LinkSetsOnce, IInv, Shapes, Docs,
           Marks, States, Idle
  <1>3. UsedLinkIsDead'
    BY DEF LoadLogin, Enters, Goto, UsedLinkIsDead, TokensBounded, Bounded, IInv,
           Shapes, Docs, Marks, States, Idle, Optional
  <1>4. QED
    BY <1>1, <1>2, <1>3

(* A login makes the links that were made before it worthless, and revives none. *)
LEMMA LoginLinks ==
  ASSUME IInv, IInv', LinkInv, NEW r \in Requests, Login(r)
  PROVE  LinkInv'
  <1> USE AccountAssumption DEF LinkInv
  <1>1. TokensBounded'
    BY DEF Login, Goto, Record, Terms, TokensBounded, Bounded, IInv, Shapes, Docs,
           Marks, States, Idle
  <1>2. LinksApart' /\ LinkSetsOnce'
    BY DEF Login, Goto, Record, Terms, LinksApart, LinkSetsOnce, IInv, Shapes,
           Docs, Marks, States, Idle
  <1>3. UsedLinkIsDead'
    BY DEF Login, Goto, Record, Terms, UsedLinkIsDead, TokensBounded, Bounded,
           IInv, Shapes, Docs, Marks, States, Idle, Optional
  <1>4. QED
    BY <1>1, <1>2, <1>3

(* The hash becomes None, which a used link may know, but its login is past. *)
LEMMA ClearPasswordLinks ==
  ASSUME IInv, IInv', LinkInv, NEW r \in Requests, ClearPassword(r)
  PROVE  LinkInv'
  <1> USE AccountAssumption DEF LinkInv
  <1>1. TokensBounded'
    BY DEF ClearPassword, Goto, TokensBounded, Bounded, IInv, Shapes, Docs, Marks,
           States, Idle
  <1>2. LinksApart' /\ LinkSetsOnce'
    BY DEF ClearPassword, Goto, LinksApart, LinkSetsOnce, IInv, Shapes, Docs,
           Marks, States, Idle
  <1>3. UsedLinkIsDead'
    BY DEF ClearPassword, Goto, UsedLinkIsDead, TokensBounded, Bounded, IInv,
           Shapes, Docs, Marks, States, Idle, Optional
  <1>4. QED
    BY <1>1, <1>2, <1>3

(* A request for a link takes a copy and leaves the links as they are. *)
LEMMA LoadResetLinks ==
  ASSUME IInv, IInv', LinkInv, NEW r \in Requests, LoadReset(r)
  PROVE  LinkInv'
  <1> USE AccountAssumption DEF LinkInv
  <1>1. TokensBounded'
    BY DEF LoadReset, Enters, Goto, Overlap, Throttled, Elapsed, TokensBounded,
           Bounded, IInv, Shapes, Docs, Marks, States, Idle
  <1>2. LinksApart' /\ LinkSetsOnce'
    BY DEF LoadReset, Enters, Goto, Overlap, Throttled, Elapsed, LinksApart,
           LinkSetsOnce, IInv, Shapes, Docs, Marks, States, Idle
  <1>3. UsedLinkIsDead'
    BY DEF LoadReset, Enters, Goto, Overlap, Throttled, Elapsed, UsedLinkIsDead,
           TokensBounded, Bounded, IInv, Shapes, Docs, Marks, States, Idle, Optional
  <1>4. QED
    BY <1>1, <1>2, <1>3

(* A link in use has the token of the document. *)
LEMMA CheckTokenLinks ==
  ASSUME IInv, IInv', LinkInv, NEW r \in Requests, CheckToken(r)
  PROVE  LinkInv'
  <1> USE AccountAssumption DEF LinkInv
  <1>1. TokensBounded'
    BY DEF CheckToken, Enters, Goto, Overlap, Good, Payload, TokensBounded,
           Bounded, IInv, Shapes, Docs, Marks, States, Idle
  <1>2. LinksApart' /\ LinkSetsOnce'
    BY DEF CheckToken, Enters, Goto, Overlap, Good, Payload, LinksApart,
           LinkSetsOnce, IInv, Shapes, Docs, Marks, States, Idle
  <1>3. UsedLinkIsDead'
    BY DEF CheckToken, Enters, Goto, Overlap, Good, Payload, UsedLinkIsDead,
           TokensBounded, Bounded, IInv, Shapes, Docs, Marks, States, Idle, Optional
  <1>4. QED
    BY <1>1, <1>2, <1>3

(* Unless it makes the document stale, the save changes the token and its   *)
(* time alone; the link is used still if the token is the same.             *)
LEMMA SaveResetLinks ==
  ASSUME IInv, LinkInv, NEW r \in Requests, SaveReset(r)
  PROVE  LinkInv'
  <1> DEFINE copy == req[r].copy
             token == Payload(copy, req[r].time)
  <1>1. copy \in Docs /\ Fine(copy)
    BY DEF IInv, SaveReset, Shapes, States, Idle, CopiesFine
  <1>2. /\ admin'.hash = copy.hash /\ admin'.login = copy.login
        /\ admin'.token = token
    BY <1>1 DEF SaveReset, Docs
  <1>3. /\ marks'.overlapped = marks.overlapped /\ marks'.again = marks.again
        /\ marks'.used <=> marks.used /\ token = admin.token
        /\ marks'.stale <=> marks.stale \/ admin # copy
    BY DEF SaveReset, IInv, Shapes, Marks
  <1>4. /\ req'[r] = Idle /\ \A q \in Requests \ {r} : req'[q] = req[q]
        /\ UNCHANGED <<hashes, logins>>
    BY DEF IInv, SaveReset, Goto, Shapes
  <1>5. Bounded(token)
    BY <1>1 DEF Fine, Bounded, Payload
  <1>6. TokensBounded'
    BY <1>2, <1>3, <1>4, <1>5 DEF LinkInv, TokensBounded, Bounded, Idle
  <1>7. LinksApart' /\ LinkSetsOnce'
    BY <1>3, <1>4 DEF LinkInv, LinksApart, LinkSetsOnce, Idle
  <1>8. UsedLinkIsDead'
    BY <1>2, <1>3, <1>4 DEF LinkInv, UsedLinkIsDead, Idle
  <1>9. QED
    BY <1>6, <1>7, <1>8 DEF LinkInv

(* The new hash is none that a token was made with, and no other request    *)
(* with the same token is about to set one, unless two have met.            *)
LEMMA SetPasswordLinks ==
  ASSUME IInv, LinkInv, NEW r \in Requests, SetPassword(r)
  PROVE  LinkInv'
  <1> USE DEF LinkInv
  <1>1. /\ req[r].at = "new"
        /\ req'[r] = Idle /\ \A q \in Requests \ {r} : req'[q] = req[q]
        /\ UNCHANGED logins
    BY DEF IInv, SetPassword, Goto, Shapes
  <1>2. CASE admin.token = req[r].token
    <2>1. hashes \in Nat /\ hashes' = hashes + 1
      BY <1>2 DEF IInv, SetPassword, Shapes
    <2>2. /\ admin' = [admin EXCEPT !.hash = hashes']
          /\ marks' = [marks EXCEPT !.hash = hashes', !.again = @ \/ marks.used, !.used = TRUE]
      BY <1>2, <2>1 DEF SetPassword
    <2>3. /\ admin'.hash = hashes' /\ admin'.login = admin.login /\ admin'.token = admin.token
          /\ marks'.stale = marks.stale /\ marks'.overlapped = marks.overlapped
          /\ marks'.again <=> marks.again \/ marks.used
      BY <2>2 DEF IInv, Shapes, Docs, Marks
    <2>4. TokensBounded'
      BY <1>1, <1>2, <2>1, <2>3 DEF TokensBounded, Bounded, Idle
    <2>5. LinksApart'
      BY <1>1, <2>3 DEF LinksApart, Idle
    <2>6. LinkSetsOnce'
      BY <1>1, <1>2, <2>3 DEF UsedLinkIsDead, LinkSetsOnce
    <2>7. UsedLinkIsDead'
      <3>1. admin.token.hash # hashes'
        BY <1>1, <1>2, <2>1, AccountAssumption DEF TokensBounded, Bounded
      <3>2. \A q \in Requests : req[q].at = "clear" => req[q].copy.hash # hashes'
        BY <2>1, AccountAssumption DEF IInv, CopiesFine, Fine
      <3>3. "new" \notin marks.overlapped =>
                \A q \in Requests : req'[q].at # "new"
        BY <1>1 DEF LinksApart, Idle
      <3>4. QED
        BY <1>1, <2>3, <3>1, <3>2, <3>3 DEF UsedLinkIsDead, Idle
    <2>8. QED
      BY <2>4, <2>5, <2>6, <2>7
  <1>3. CASE admin.token # req[r].token
    <2>1. UNCHANGED <<admin, hashes, marks>>
      BY <1>3 DEF SetPassword
    <2>2. QED
      BY <1>1, <2>1
         DEF TokensBounded, Bounded, LinksApart, LinkSetsOnce, UsedLinkIsDead, Idle
  <1>4. QED
    BY <1>2, <1>3

(* A one-time password is a new hash, which no link was made with. *)
LEMMA SetInternalPasswordLinks ==
  ASSUME IInv, LinkInv, SetInternalPassword
  PROVE  LinkInv'
  <1> USE DEF LinkInv
  <1>1. /\ hashes \in Nat /\ hashes' = hashes + 1
        /\ UNCHANGED <<req, logins>>
    BY DEF IInv, SetInternalPassword, Shapes
  <1>2. /\ admin' = [admin EXCEPT !.hash = hashes']
        /\ marks' = [marks EXCEPT !.hash = hashes']
    BY <1>1 DEF SetInternalPassword
  <1>3. /\ admin'.hash = hashes' /\ admin'.login = admin.login /\ admin'.token = admin.token
        /\ marks'.stale = marks.stale /\ marks'.overlapped = marks.overlapped
        /\ marks'.again = marks.again /\ marks'.used = marks.used
    BY <1>2 DEF IInv, Shapes, Docs, Marks
  <1>4. TokensBounded'
    BY <1>1, <1>3 DEF TokensBounded, Bounded
  <1>5. LinksApart' /\ LinkSetsOnce'
    BY <1>1, <1>3 DEF LinksApart, LinkSetsOnce
  <1>6. UsedLinkIsDead'
    <2>1. marks.used => admin.token.hash # hashes'
      BY <1>1, AccountAssumption DEF TokensBounded, Bounded
    <2>2. \A q \in Requests : req[q].at = "clear" => req[q].copy.hash # hashes'
      BY <1>1, AccountAssumption DEF IInv, CopiesFine, Fine
    <2>3. QED
      BY <1>1, <1>3, <2>1, <2>2 DEF UsedLinkIsDead
  <1>7. QED
    BY <1>4, <1>5, <1>6

(* The second invariant is inductive relative to the first. *)
LEMMA NextLinks == IInv /\ IInv' /\ LinkInv /\ [Next]_vars => LinkInv'
  <1> SUFFICES ASSUME IInv, IInv', LinkInv, [Next]_vars PROVE LinkInv'
    OBVIOUS
  <1>1. CASE \E r \in Requests :
               LoadLogin(r) \/ Login(r) \/ ClearPassword(r) \/ LoadReset(r) \/ SaveReset(r)
                   \/ CheckToken(r) \/ SetPassword(r)
    BY <1>1, LoadLoginLinks, LoginLinks, ClearPasswordLinks, LoadResetLinks, SaveResetLinks,
       CheckTokenLinks, SetPasswordLinks
  <1>2. CASE SetInternalPassword
    BY <1>2, SetInternalPasswordLinks
  <1>3. CASE Logout \/ Tick \/ UNCHANGED vars
    BY <1>3
       DEF Logout, Tick, vars, LinkInv, TokensBounded, Bounded, LinksApart,
           LinkSetsOnce,
                UsedLinkIsDead
  <1>4. CASE SignTerms
    <2>1. /\ admin'.hash = admin.hash /\ admin'.login = admin.login /\ admin'.token = admin.token
          /\ UNCHANGED <<req, hashes, logins, marks>>
      BY <1>4 DEF SignTerms, IInv, Shapes, Docs
    <2>2. QED
      BY <2>1
         DEF LinkInv, TokensBounded, Bounded, LinksApart, LinkSetsOnce,
             UsedLinkIsDead
  <1>5. QED
    BY <1>1, <1>2, <1>3, <1>4 DEF Next

(* A link sets one password, unless two requests with links meet or an      *)
(* older copy is saved, however many requests are at work and whether the   *)
(* administrator is the internal one or not.                                *)
THEOREM AccountLinks == Spec => []LinkSetsOnce
  <1>1. LinkInv => LinkSetsOnce
    BY DEF LinkInv
  <1>2. QED
    BY <1>1, AccountInductive, InitLinkInv, NextLinks, PTL DEF Spec

(* The document has its types, and its password is the last one set unless  *)
(* a whole save, or the removal of a one-time password, undid another's     *)
(* write, however many requests are at work.                                *)
THEOREM AccountPassword == Spec => []PasswordStands
  <1>1. IInv => PasswordStands
    BY DEF IInv, Shapes, Fine, PasswordKept, PasswordStands, TypeOK
  <1>2. QED
    BY <1>1, AccountInductive, PTL

(* Who works under the terms has signed them, unless a whole save undid the *)
(* signature, however many requests are at work.                            *)
THEOREM AccountTerms == Spec => []TermsAreSigned
  <1>1. IInv => TermsAreSigned
    BY DEF IInv
  <1>2. QED
    BY <1>1, AccountInductive, PTL

(* As long as no two requests for a link have met, mails keep their         *)
(* distance, whatever the throttle.                                         *)
THEOREM AccountMails == Spec => MailsThrottled
  <1> DEFINE Far ==
               admin'.token # admin.token /\ marks.mailed # None /\ "reset" \notin marks.overlapped
                   => admin'.requested - marks.mailed >= Throttle
  <1>1. ASSUME IInv, [Next]_vars PROVE [Far]_vars
    <2>1. ASSUME NEW r \in Requests, SaveReset(r) PROVE Far
      <3>1. req[r].copy \in Docs
        BY <1>1, <2>1 DEF IInv, SaveReset, Shapes, States, Idle
      <3>2. admin'.requested = req[r].time
        BY <2>1, <3>1 DEF SaveReset, Docs
      <3>3. /\ "reset" \notin marks.overlapped
            /\ marks.mailed # None
            => req[r].time - marks.mailed >= Throttle
        BY <1>1, <2>1 DEF IInv, Spaced, SaveReset
      <3>4. QED
        BY <3>2, <3>3
    <2>2. ASSUME NEW x, \/ admin' = admin
                        \/ admin' = [admin EXCEPT !.login = x]
                        \/ admin' = [admin EXCEPT !.hash = x]
                        \/ admin' = [admin EXCEPT !.tos = x]
          PROVE  admin'.token = admin.token
      BY <1>1, <2>2 DEF IInv, Shapes, Docs
    <2>3. ASSUME NEW r \in Requests,
                 LoadLogin(r) \/ Login(r) \/ ClearPassword(r) \/ LoadReset(r) \/ CheckToken(r)
                     \/ SetPassword(r)
          PROVE  admin'.token = admin.token
      BY <2>2, <2>3, Zenon
         DEF LoadLogin, Login, ClearPassword, LoadReset, CheckToken, SetPassword,
                        Record
    <2>4. ASSUME Logout \/ SignTerms \/ SetInternalPassword \/ Tick
          PROVE  admin'.token = admin.token
      BY <2>2, <2>4, Zenon DEF Logout, SignTerms, SetInternalPassword, Tick
    <2>5. QED
      BY <1>1, <2>1, <2>2, <2>3, <2>4 DEF Next
  <1>2. QED
    BY <1>1, AccountInductive, PTL DEF Spec, MailsThrottled
=============================================================================
