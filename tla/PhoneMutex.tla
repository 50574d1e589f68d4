----------------------------- MODULE PhoneMutex -----------------------------
(***************************************************************************)
(* What `with UserLock(phonenum)` promises to the handlers that use it     *)
(* (utils/concurency.py): a phone number is held by at most one handler,   *)
(* a handler holds at most one phone number, and a phone number changes    *)
(* hands only through a release.                                           *)
(***************************************************************************)
CONSTANTS Threads,    \* the threads that run on_receive_core or every_hour_core
          Phones      \* the phone numbers, the keys of the lock

VARIABLE held         \* the set of pairs <<t, p>> such that t is inside p's lock

Init == held = {}

Take(t, p) ==
    /\ \A h \in held : h[1] # t /\ h[2] # p
    /\ held' = held \cup {<<t, p>>}

Give(t, p) ==
    /\ <<t, p>> \in held
    /\ held' = held \ {<<t, p>>}

Next == \E t \in Threads, p \in Phones : Take(t, p) \/ Give(t, p)

Spec == Init /\ [][Next]_held

=============================================================================
