------------------------------ MODULE UserLock ------------------------------
(***************************************************************************)
(* The per-phone-number lock of utils/concurency.py.  One condition        *)
(* variable guards two dictionaries shared by every thread and process:    *)
(* the phone numbers being served and those whose server is the responder. *)
(* A thread that finds its number taken waits on the condition variable;   *)
(* every exit wakes every waiter, whatever number it waits for.            *)
(*                                                                         *)
(* The body of `with class_cv` runs under the condition variable's own     *)
(* mutex, which wait() alone gives up: each stretch between two waits is   *)
(* one action here.                                                        *)
(***************************************************************************)
EXTENDS Naturals

CONSTANTS Threads,    \* callers: an on_receive_core or an every_hour_core each
          Phones,     \* phone numbers
          MaxCalls,   \* bound on the calls of one thread
          MaxKills    \* bound on the holders killed before they exit

ASSUME LockAssumption == MaxCalls \in Nat /\ MaxKills \in Nat

VARIABLES
    pc,            \* where each thread is
    phone,         \* the phone number of each thread's current (or last) call
    isResponder,   \* __responder of each thread's UserLock object
    activeUsers,   \* __active_users: the numbers being served
    responders,    \* __responders
    calls,         \* calls made by each thread (bounds the model)
    kills          \* holders killed so far (bounds the model)

vars == <<pc, phone, isResponder, activeUsers, responders, calls, kills>>

Init ==
    /\ pc = [t \in Threads |-> "outside"]
    /\ phone \in [Threads -> Phones]
    /\ isResponder = [t \in Threads |-> TRUE]
    /\ activeUsers = {}
    /\ responders = {}
    /\ calls = [t \in Threads |-> 0]
    /\ kills = 0

(***************************************************************************)
(* The end of __enter__, once the number is free: the thread takes it, and *)
(* registers as the responder if it came as one.                           *)
(***************************************************************************)
TakePhone(t, p, first) ==
    /\ pc' = [pc EXCEPT ![t] = "inside"]
    /\ activeUsers' = activeUsers \cup {p}
    /\ responders' = IF first THEN responders \cup {p} ELSE responders

(***************************************************************************)
(* The start of __enter__.  Whether the thread is a responder is decided   *)
(* here, before any wait.                                                  *)
(***************************************************************************)
Enter(t, p) ==
    /\ pc[t] = "outside"
    /\ calls[t] < MaxCalls
    /\ calls' = [calls EXCEPT ![t] = @ + 1]
    /\ phone' = [phone EXCEPT ![t] = p]
    /\ isResponder' = [isResponder EXCEPT ![t] = p \notin responders]
    /\ \/ /\ p \in activeUsers
          /\ pc' = [pc EXCEPT ![t] = "waiting"]
          /\ UNCHANGED <<activeUsers, responders>>
       \/ /\ p \notin activeUsers
          /\ TakePhone(t, p, p \notin responders)
    /\ UNCHANGED kills

(* Slip: `if` for `while` in __enter__.                                    *)
RecheckNever(t) ==
    /\ pc[t] = "woken"
    /\ TakePhone(t, phone[t], isResponder[t])
    /\ UNCHANGED <<phone, isResponder, calls, kills>>

(***************************************************************************)
(* A woken thread runs the while test of __enter__ again.                  *)
(***************************************************************************)
Recheck(t) ==
    /\ pc[t] = "woken"
    /\ \/ /\ phone[t] \in activeUsers
          /\ pc' = [pc EXCEPT ![t] = "waiting"]
          /\ UNCHANGED <<activeUsers, responders>>
       \/ /\ phone[t] \notin activeUsers
          /\ TakePhone(t, phone[t], isResponder[t])
    /\ UNCHANGED <<phone, isResponder, calls, kills>>

(* Slip: __exit__ wakes nobody.                                            *)
ExitSilently(t) ==
    /\ pc[t] = "inside"
    /\ pc' = [pc EXCEPT ![t] = "outside"]
    /\ activeUsers' = activeUsers \ {phone[t]}
    /\ responders' = responders \ {phone[t]}
    /\ UNCHANGED <<phone, isResponder, calls, kills>>

(* Slip: __exit__ leaves the responder's entry.                            *)
ExitStillResponder(t) ==
    /\ pc[t] = "inside"
    /\ pc' = [u \in Threads |-> IF u = t THEN "outside"
                                ELSE IF pc[u] = "waiting" THEN "woken"
                                ELSE pc[u]]
    /\ activeUsers' = activeUsers \ {phone[t]}
    /\ UNCHANGED <<phone, isResponder, responders, calls, kills>>

(***************************************************************************)
(* __exit__: both entries of the number go, whoever made them, and         *)
(* notify_all wakes every waiter.  An exception in the body exits too.     *)
(***************************************************************************)
Exit(t) ==
    /\ pc[t] = "inside"
    /\ pc' = [u \in Threads |-> IF u = t THEN "outside"
                                ELSE IF pc[u] = "waiting" THEN "woken"
                                ELSE pc[u]]
    /\ activeUsers' = activeUsers \ {phone[t]}
    /\ responders' = responders \ {phone[t]}
    /\ UNCHANGED <<phone, isResponder, calls, kills>>

(***************************************************************************)
(* The process of a holder is killed: __exit__ never runs, and the shared  *)
(* dictionaries, which live in the manager process, keep its entries.      *)
(***************************************************************************)
Kill(t) ==
    /\ pc[t] = "inside"
    /\ kills < MaxKills
    /\ pc' = [pc EXCEPT ![t] = "killed"]
    /\ kills' = kills + 1
    /\ UNCHANGED <<phone, isResponder, activeUsers, responders, calls>>

Next == \E t \in Threads :
            \/ \E p \in Phones : Enter(t, p)
            \/ Recheck(t)
            \/ Exit(t)
            \/ Kill(t)

(***************************************************************************)
(* A running thread is scheduled again, and a handler ends: nothing is     *)
(* promised about calls being made, or about holders being killed.         *)
(***************************************************************************)
Fairness == \A t \in Threads : WF_vars(Recheck(t)) /\ WF_vars(Exit(t))

Spec == Init /\ [][Next]_vars
FairSpec == Spec /\ Fairness
-----------------------------------------------------------------------------
TypeOK ==
    /\ pc \in [Threads -> {"outside", "waiting", "woken", "inside", "killed"}]
    /\ phone \in [Threads -> Phones]
    /\ isResponder \in [Threads -> BOOLEAN]
    /\ activeUsers \subseteq Phones
    /\ responders \subseteq Phones
    /\ calls \in [Threads -> 0..MaxCalls]
    /\ kills \in 0..MaxKills

Holds(t) == pc[t] \in {"inside", "killed"}

(* Two handlers of one phone number never run at the same time, even after *)
(* a holder was killed: the lock never lets a second thread into a number. *)
MutualExclusion ==
    \A t, u \in Threads : Holds(t) /\ Holds(u) /\ phone[t] = phone[u] => t = u

(* A number is marked as served exactly while some thread holds it: no     *)
(* exit or wake-up leaves an entry without a holder.                       *)
ServedIffHeld ==
    \A p \in Phones : p \in activeUsers <=> \E t \in Threads : Holds(t) /\ phone[t] = p

(* No lost wake-up: a thread that sleeps on the condition variable sleeps  *)
(* for a number that is held, so a later exit will wake it.                *)
NoLostWakeup ==
    \A t \in Threads : pc[t] = "waiting" => phone[t] \in activeUsers

(* __responders holds a number exactly when its present holder came as its *)
(* responder, although __exit__ deletes the entry without asking whose.    *)
ResponderEntryIsHolders ==
    \A p \in Phones : p \in responders <=>
        \E t \in Threads : Holds(t) /\ phone[t] = p /\ isResponder[t]

(* A number whose holder was killed is never given out again.              *)
KilledHolderKeepsPhone ==
    [][\A t \in Threads : pc[t] = "killed" => phone[t] \in activeUsers']_vars

(* Every handler that waits gets in, or its number is one whose holder was *)
(* killed: notify_all gives no turn order, but handlers end and only       *)
(* finitely many calls arrive.                                             *)
EveryWaiterEnters ==
    \A t \in Threads :
        (pc[t] \in {"waiting", "woken"})
            ~> (pc[t] = "inside" \/ \E u \in Threads : pc[u] = "killed" /\ phone[u] = phone[t])

(* UserLock implements the abstract per-number mutex.                      *)
Mutex == INSTANCE PhoneMutex WITH
            held <- {h \in Threads \X Phones : Holds(h[1]) /\ phone[h[1]] = h[2]}
ImplementsMutex == Mutex!Spec

=============================================================================
