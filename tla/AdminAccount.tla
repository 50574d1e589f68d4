---------------------------- MODULE AdminAccount ----------------------------
(***************************************************************************)
(* The account of one administrator: logins, the terms of service, links   *)
(* to set a new password (frontend/pages/admin_portal/login_pages.py,      *)
(* docs.py, frontend/auth.py, database/tracking/admins.py).                *)
(*                                                                         *)
(* A request loads the Admin document and writes it later, by field or, in *)
(* reset_password, whole; other requests come in between.  A hash is never *)
(* made twice (bcrypt.gensalt), so hashes are numbered; so are logins.  A   *)
(* token is the digest of a payload, and stands for it here.               *)
(***************************************************************************)
EXTENDS Naturals, FiniteSets

CONSTANTS
    Requests,     \* the requests the server works on at a time
    Throttle,     \* time between two mails: 10 minutes
    LinkLife,     \* time a link is good for: 4 hours
    MaxNow,       \* bound on the clock
    MaxHashes,    \* bound on the passwords ever set
    MaxLogins,    \* bound on the logins
    None

ASSUME AccountAssumption ==
    /\ {Throttle, LinkLife, MaxNow, MaxHashes, MaxLogins} \subseteq Nat
    /\ None \notin Requests \cup Nat

VARIABLES
    now,
    internal, \* whether this is the internal super admin, with a one-time password
    admin,    \* the Admin document
    session,  \* the session of the browser: absent, or whether it knows of the terms
    req,      \* the requests: what each has in memory
    hashes,   \* how many hashes were made, ...
    logins,   \* ... and logins
    marks     \* what happened: see NoMarks

vars == <<now, internal, admin, session, req, hashes, logins, marks>>

Idle == [at |-> "idle"]

NoMarks ==
    [hash |-> 1,            \* the hash that was set last
     stale |-> FALSE,       \* a write undid what another request wrote since the load
     overlapped |-> {},     \* the kinds of which two requests were at work together
     mailed |-> None,       \* when the last mail was asked for
     used |-> FALSE,        \* the stored link has set a password
     again |-> FALSE]       \* a link set a password twice

Init ==
    /\ now = 0
    /\ internal \in BOOLEAN
    /\ admin = [hash |-> 1, login |-> None, requested |-> None, token |-> None, tos |-> FALSE]
    /\ session = None
    /\ req = [r \in Requests |-> Idle]
    /\ hashes = 1 /\ logins = 0
    /\ marks = NoMarks

Elapsed(t) == now - t
Overlap(r, kind, at) ==
    IF \E q \in Requests \ {r} : req[q].at \in at THEN marks.overlapped \cup {kind}
    ELSE marks.overlapped
Goto(r, state) == req' = [req EXCEPT ![r] = state]

Enters(r, state) ==
    /\ req[r] = Idle
    /\ Goto(r, state)
-----------------------------------------------------------------------------
(* Admin.get_admin: the hash of the document loaded is the password's.      *)
LoadLogin(r) ==
    /\ logins < MaxLogins
    /\ admin.hash # None
    /\ Enters(r, [at |-> "login", copy |-> admin])
    /\ UNCHANGED <<now, internal, admin, session, hashes, logins, marks>>

(* Slip: the whole copy is saved.                                           *)
RecordWhole(copy) == [copy EXCEPT !.login = logins + 1]

Record(copy) == [admin EXCEPT !.login = logins + 1]

(* Slip: the terms are taken for granted.                                   *)
TermsGranted(copy) == TRUE

Terms(copy) == copy.tos

(* set_loggedin_admin, and the time of the login                            *)
Login(r) ==
    /\ req[r].at = "login"
    /\ session' = [tos |-> Terms(req[r].copy)]
    /\ logins' = logins + 1
    /\ admin' = Record(req[r].copy)
    /\ Goto(r, IF internal THEN [req[r] EXCEPT !.at = "clear"] ELSE Idle)
    /\ UNCHANGED <<now, internal, hashes, marks>>

(* The one-time password is removed, or one that was set since.             *)
ClearPassword(r) ==
    /\ req[r].at = "clear"
    /\ admin' = [admin EXCEPT !.hash = None]
    /\ marks' = [marks EXCEPT !.hash = None, !.stale = @ \/ admin.hash # req[r].copy.hash]
    /\ Goto(r, Idle)
    /\ UNCHANGED <<now, internal, session, hashes, logins>>

(* logout, and the expiry of the session: from whichever comes first on     *)
Logout ==
    /\ session # None
    /\ session' = None
    /\ UNCHANGED <<now, internal, admin, req, hashes, logins, marks>>

(* render_terms                                                             *)
SignTerms ==
    /\ session # None /\ ~session.tos
    /\ admin' = [admin EXCEPT !.tos = TRUE]
    /\ session' = [tos |-> TRUE]
    /\ UNCHANGED <<now, internal, req, hashes, logins, marks>>
-----------------------------------------------------------------------------
(* Slip: requests are not throttled.                                        *)
ThrottledNot == FALSE

Throttled == admin.requested # None /\ Elapsed(admin.requested) < Throttle

LoadReset(r) ==
    /\ ~Throttled
    /\ Enters(r, [at |-> "reset", copy |-> admin, time |-> now])
    /\ marks' = [marks EXCEPT !.overlapped = Overlap(r, "reset", {"reset"})]
    /\ UNCHANGED <<now, internal, admin, session, hashes, logins>>

Payload(doc, time) == [hash |-> doc.hash, login |-> doc.login, requested |-> time]

(* The copy, with the new token, is saved whole, and the mail sent.         *)
SaveReset(r) ==
    LET copy == req[r].copy
        token == Payload(copy, req[r].time)
    IN  /\ req[r].at = "reset"
        /\ admin' = [copy EXCEPT !.requested = req[r].time, !.token = token]
        /\ marks' = [marks EXCEPT !.mailed = req[r].time,
                     !.used = @ /\ token = admin.token, !.stale = @ \/ admin # copy]
        /\ Goto(r, Idle)
        /\ UNCHANGED <<now, internal, session, hashes, logins>>

(* Slip: the payload is not computed again.                                 *)
GoodOnceSent(token) == admin.token = token /\ Elapsed(admin.requested) <= LinkLife

(* check_token                                                              *)
Good(token) ==
    /\ admin.token = token
    /\ Elapsed(admin.requested) <= LinkLife
    /\ Payload(admin, admin.requested) = token

(* check_token of the link with the token that is stored has passed, and   *)
(* the document is loaded by the token again; if that was replaced          *)
(* meanwhile, the request raises.                                           *)
CheckToken(r) ==
    /\ admin.token # None /\ Good(admin.token)
    /\ hashes < MaxHashes
    /\ Enters(r, [at |-> "new", token |-> admin.token])
    /\ marks' = [marks EXCEPT !.overlapped = Overlap(r, "new", {"new"})]
    /\ UNCHANGED <<now, internal, admin, session, hashes, logins>>

SetPassword(r) ==
    /\ req[r].at = "new"
    /\ Goto(r, Idle)
    /\ IF admin.token = req[r].token
       THEN /\ admin' = [admin EXCEPT !.hash = hashes + 1]
            /\ hashes' = hashes + 1
            /\ marks' = [marks EXCEPT !.hash = hashes + 1,
                             !.again = @ \/ marks.used, !.used = TRUE]
       ELSE UNCHANGED <<admin, hashes, marks>>
    /\ UNCHANGED <<now, internal, session, logins>>

(* set_internal_super_admin_password, from a terminal                       *)
SetInternalPassword ==
    /\ internal /\ hashes < MaxHashes
    /\ admin' = [admin EXCEPT !.hash = hashes + 1]
    /\ hashes' = hashes + 1
    /\ marks' = [marks EXCEPT !.hash = hashes + 1]
    /\ UNCHANGED <<now, internal, session, req, logins>>

Tick ==
    /\ now < MaxNow
    /\ now' = now + 1
    /\ UNCHANGED <<internal, admin, session, req, hashes, logins, marks>>

Next ==
    \/ \E r \in Requests :
          \/ LoadLogin(r) \/ Login(r) \/ ClearPassword(r)
          \/ LoadReset(r) \/ SaveReset(r)
          \/ CheckToken(r) \/ SetPassword(r)
    \/ Logout \/ SignTerms \/ SetInternalPassword
    \/ Tick

Spec == Init /\ [][Next]_vars
-----------------------------------------------------------------------------
(* What is in the document was made by somebody, and the token with the     *)
(* time that stands beside it.                                              *)
TypeOK ==
    /\ admin.hash \in 1 .. hashes \cup {None}
    /\ admin.login \in 1 .. logins \cup {None}
    /\ admin.token # None => admin.token = Payload(admin.token, admin.requested)
    /\ admin.requested \in 0 .. now \cup {None}
    /\ session # None => session.tos \in BOOLEAN

(* The password is the one that was set last, though logins, links and the  *)
(* terminal write to the document between each other's loads and writes:    *)
(* only a reset_password that was overtaken (it saves the whole document),  *)
(* or the removal of a one-time password, undoes another's.  (The state has    *)
(* its types.)                                                              *)
PasswordStands == TypeOK /\ (admin.hash = marks.hash \/ marks.stale)

(* A link sets a password once, unless it is used twice at the same moment, *)
(* or the save of an older copy brings the password back it was made for.   *)
LinkSetsOnce == ~marks.again \/ "new" \in marks.overlapped \/ marks.stale

(* Mails keep their distance, unless two requests for one meet.             *)
MailsThrottled ==
    [][admin'.token # admin.token /\ marks.mailed # None /\ "reset" \notin marks.overlapped =>
           admin'.requested - marks.mailed >= Throttle]_vars

(* A browser that works under the terms belongs to an administrator who     *)
(* signed them, unless a whole save undid the signature.                    *)
TermsAreSigned == session # None => (session.tos => admin.tos \/ marks.stale)
=============================================================================
