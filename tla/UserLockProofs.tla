--------------------------- MODULE UserLockProofs ---------------------------
(***************************************************************************)
(* The safety of the per-phone-number lock for every set of threads and    *)
(* phone numbers and every bound on calls and kills, and its refinement of *)
(* PhoneMutex.                                                             *)
(***************************************************************************)
EXTENDS UserLock, TLAPS

(* The invariants are inductive together: the shared dictionaries describe *)
(* the holders (ServedIffHeld, ResponderEntryIsHolders), which makes the   *)
(* test in __enter__ a test on the holders.                                *)
IInv ==
    /\ TypeOK
    /\ MutualExclusion
    /\ ServedIffHeld
    /\ NoLostWakeup
    /\ ResponderEntryIsHolders

LEMMA InitIInv == Init => IInv
  BY LockAssumption
     DEF Init, IInv, TypeOK, MutualExclusion, ServedIffHeld, NoLostWakeup,
         ResponderEntryIsHolders, Holds

(* A thread that takes a free number becomes its only holder.              *)
LEMMA TakeStep ==
  ASSUME IInv, NEW t \in Threads, NEW p \in Phones, NEW first \in BOOLEAN,
         pc[t] \notin {"inside", "killed"}, p \notin activeUsers,
         TakePhone(t, p, first),
         phone' = [phone EXCEPT ![t] = p],
         isResponder' = [isResponder EXCEPT ![t] = first]
  PROVE  /\ pc' \in [Threads -> {"outside", "waiting", "woken", "inside", "killed"}]
         /\ phone' \in [Threads -> Phones]
         /\ isResponder' \in [Threads -> BOOLEAN]
         /\ activeUsers' \subseteq Phones
         /\ responders' \subseteq Phones
         /\ MutualExclusion'
         /\ ServedIffHeld'
         /\ NoLostWakeup'
         /\ ResponderEntryIsHolders'
  <1> USE DEF IInv, TypeOK, Holds
  <1>1. /\ pc' \in [Threads -> {"outside", "waiting", "woken", "inside", "killed"}]
        /\ phone' \in [Threads -> Phones]
        /\ isResponder' \in [Threads -> BOOLEAN]
        /\ activeUsers' \subseteq Phones
        /\ responders' \subseteq Phones
    BY DEF TakePhone
  <1>2. \A u \in Threads : Holds(u) => phone[u] # p
    BY DEF ServedIffHeld
  <1>3. MutualExclusion'
    BY <1>2 DEF MutualExclusion, TakePhone
  <1>4. ServedIffHeld'
    BY <1>2 DEF ServedIffHeld, TakePhone
  <1>5. NoLostWakeup'
    BY DEF NoLostWakeup, TakePhone
  <1>6. p \notin responders
    BY <1>2 DEF ResponderEntryIsHolders
  <1>7. ResponderEntryIsHolders'
    BY <1>2, <1>6 DEF ResponderEntryIsHolders, TakePhone
  <1>8. QED
    BY <1>1, <1>3, <1>4, <1>5, <1>7

LEMMA NextIInv == IInv /\ [Next]_vars => IInv'
  <1> SUFFICES ASSUME IInv, [Next]_vars PROVE IInv'
    OBVIOUS
  <1> USE LockAssumption DEF IInv, TypeOK, Holds
  <1>1. ASSUME NEW t \in Threads, NEW p \in Phones, Enter(t, p)
        PROVE  IInv'
    <2>1. /\ calls' \in [Threads -> 0..MaxCalls]
          /\ kills' \in 0..MaxKills
      BY <1>1 DEF Enter
    <2>2. CASE p \in activeUsers
      <3>1. TypeOK'
        BY <1>1, <2>1, <2>2 DEF Enter
      <3>2. MutualExclusion' /\ ServedIffHeld' /\ NoLostWakeup'
        BY <1>1, <2>2 DEF Enter, MutualExclusion, ServedIffHeld, NoLostWakeup
      <3>3. ResponderEntryIsHolders'
        BY <1>1, <2>2 DEF Enter, ResponderEntryIsHolders
      <3>4. QED
        BY <3>1, <3>2, <3>3
    <2>3. CASE p \notin activeUsers
      <3>1. /\ TakePhone(t, p, p \notin responders)
            /\ phone' = [phone EXCEPT ![t] = p]
            /\ isResponder' = [isResponder EXCEPT ![t] = p \notin responders]
            /\ pc[t] \notin {"inside", "killed"}
        BY <1>1, <2>3 DEF Enter
      <3>2. (p \notin responders) \in BOOLEAN
        OBVIOUS
      <3>3. QED
        BY <2>1, <2>3, <3>1, <3>2, TakeStep
    <2>4. QED
      BY <2>2, <2>3
  <1>2. ASSUME NEW t \in Threads, Recheck(t)
        PROVE  IInv'
    <2>1. CASE phone[t] \in activeUsers
      BY <1>2, <2>1
         DEF Recheck, MutualExclusion, ServedIffHeld, NoLostWakeup,
             ResponderEntryIsHolders
    <2>2. CASE phone[t] \notin activeUsers
      <3>1. /\ TakePhone(t, phone[t], isResponder[t])
            /\ pc[t] \notin {"inside", "killed"}
        BY <1>2, <2>2 DEF Recheck
      <3>2. /\ phone' = [phone EXCEPT ![t] = phone[t]]
            /\ isResponder' = [isResponder EXCEPT ![t] = isResponder[t]]
            /\ UNCHANGED <<calls, kills>>
        BY <1>2 DEF Recheck
      <3>3. phone[t] \in Phones /\ isResponder[t] \in BOOLEAN
        OBVIOUS
      <3>4. QED
        BY <2>2, <3>1, <3>2, <3>3, TakeStep
    <2>3. QED
      BY <2>1, <2>2
  <1>3. ASSUME NEW t \in Threads, Exit(t)
        PROVE  IInv'
    <2>1. TypeOK'
      BY <1>3 DEF Exit
    <2>2. \A u \in Threads : Holds(u)' <=> Holds(u) /\ u # t
      BY <1>3 DEF Exit
    <2>3. \A u \in Threads : u # t /\ Holds(u) => phone[u] # phone[t]
      BY <1>3 DEF Exit, MutualExclusion
    <2>4. MutualExclusion'
      BY <1>3, <2>2 DEF Exit, MutualExclusion
    <2>5. ServedIffHeld'
      BY <1>3, <2>2, <2>3 DEF Exit, ServedIffHeld
    <2>6. NoLostWakeup'
      BY <1>3 DEF Exit, NoLostWakeup
    <2>7. ResponderEntryIsHolders'
      BY <1>3, <2>2, <2>3 DEF Exit, ResponderEntryIsHolders
    <2>8. QED
      BY <2>1, <2>4, <2>5, <2>6, <2>7
  <1>4. ASSUME NEW t \in Threads, Kill(t)
        PROVE  IInv'
    <2>1. TypeOK'
      BY <1>4 DEF Kill
    <2>2. \A u \in Threads : Holds(u)' <=> Holds(u)
      BY <1>4 DEF Kill
    <2>3. MutualExclusion' /\ ServedIffHeld' /\ ResponderEntryIsHolders'
      BY <1>4, <2>2
         DEF Kill, MutualExclusion, ServedIffHeld, ResponderEntryIsHolders
    <2>4. NoLostWakeup'
      BY <1>4 DEF Kill, NoLostWakeup
    <2>5. QED
      BY <2>1, <2>3, <2>4
  <1>5. CASE UNCHANGED vars
    BY <1>5 DEF vars, MutualExclusion, ServedIffHeld, NoLostWakeup,
                ResponderEntryIsHolders
  <1>6. QED
    BY <1>1, <1>2, <1>3, <1>4, <1>5 DEF Next

(* IInv holds in every reachable state.                                    *)
THEOREM LockInductive == Spec => []IInv
  BY InitIInv, NextIInv, PTL DEF Spec

(* Every state of the lock is of the types that __enter__ and __exit__     *)
(* keep: program counters, dictionaries over the numbers, bounded counts.  *)
THEOREM LockTypeOK == Spec => []TypeOK
  <1>1. IInv => TypeOK
    BY DEF IInv
  <1>2. QED
    BY <1>1, LockInductive, PTL

(* Two handlers of one phone number never run at the same time.            *)
THEOREM LockMutualExclusion == Spec => []MutualExclusion
  <1>1. IInv => MutualExclusion
    BY DEF IInv
  <1>2. QED
    BY <1>1, LockInductive, PTL

(* No thread sleeps for a number that nobody holds.                        *)
THEOREM LockNoLostWakeup == Spec => []NoLostWakeup
  <1>1. IInv => NoLostWakeup
    BY DEF IInv
  <1>2. QED
    BY <1>1, LockInductive, PTL

(* __responders names exactly the held numbers whose holder came first.    *)
THEOREM LockResponders == Spec => []ResponderEntryIsHolders
  <1>1. IInv => ResponderEntryIsHolders
    BY DEF IInv
  <1>2. QED
    BY <1>1, LockInductive, PTL

(* A number whose holder was killed is never given out again: the entry in *)
(* __active_users outlives its holder.                                     *)
THEOREM LockKilledHolder == Spec => KilledHolderKeepsPhone
  <1>1. IInv /\ IInv' /\ [Next]_vars =>
          [\A t \in Threads : pc[t] = "killed" => phone[t] \in activeUsers']_vars
    <2> SUFFICES ASSUME IInv, IInv', Next, NEW t \in Threads, pc[t] = "killed"
                 PROVE  phone[t] \in activeUsers'
      OBVIOUS
    <2>1. pc'[t] = "killed" /\ phone'[t] = phone[t]
      BY DEF Next, Enter, TakePhone, Recheck, Exit, Kill, IInv, TypeOK
    <2>2. QED
      BY <2>1 DEF IInv, ServedIffHeld, Holds, TypeOK
  <1>2. QED
    BY <1>1, LockInductive, PTL DEF Spec, KilledHolderKeepsPhone

(* Every step of the lock takes a free number for one thread, gives one    *)
(* back, or leaves the abstract mutex alone.                               *)
THEOREM LockRefinesMutex == Spec => ImplementsMutex
  <1> DEFINE heldNow == {h \in Threads \X Phones : Holds(h[1]) /\ phone[h[1]] = h[2]}
  <1>1. Init => Mutex!Init
    BY DEF Init, Mutex!Init, Holds
  <1>2. IInv /\ IInv' /\ [Next]_vars => [Mutex!Next]_heldNow
    <2> SUFFICES ASSUME IInv, IInv', [Next]_vars
                 PROVE  Mutex!Next \/ heldNow' = heldNow
      OBVIOUS
    <2> USE DEF IInv, TypeOK, Holds
    <2>1. ASSUME NEW t \in Threads, NEW p \in Phones,
                 pc[t] \notin {"inside", "killed"}, p \notin activeUsers,
                 pc' = [pc EXCEPT ![t] = "inside"],
                 phone' = [phone EXCEPT ![t] = p]
          PROVE  Mutex!Take(t, p)
      <3>1. \A u \in Threads : Holds(u) => phone[u] # p
        BY <2>1 DEF ServedIffHeld
      <3>2. \A h \in heldNow : h[1] # t /\ h[2] # p
        BY <2>1, <3>1
      <3>3. heldNow' = heldNow \cup {<<t, p>>}
        <4>1. \A u \in Threads, q \in Phones :
                (Holds(u)' /\ phone'[u] = q) <=> (Holds(u) /\ phone[u] = q) \/ (u = t /\ q = p)
          BY <2>1
        <4>2. QED
          BY <4>1
      <3>4. QED
        BY <3>2, <3>3 DEF Mutex!Take
    <2>2. ASSUME NEW t \in Threads, NEW p \in Phones, Enter(t, p)
          PROVE  Mutex!Next \/ heldNow' = heldNow
      <3>1. CASE p \in activeUsers
        <4>1. \A u \in Threads : (Holds(u)' <=> Holds(u)) /\ (Holds(u) => phone'[u] = phone[u])
          BY <2>2, <3>1 DEF Enter
        <4>2. QED
          BY <4>1
      <3>2. CASE p \notin activeUsers
        BY <2>1, <2>2, <3>2 DEF Enter, TakePhone, Mutex!Next
      <3>3. QED
        BY <3>1, <3>2
    <2>3. ASSUME NEW t \in Threads, Recheck(t)
          PROVE  Mutex!Next \/ heldNow' = heldNow
      <3>1. CASE phone[t] \in activeUsers
        <4>1. \A u \in Threads : (Holds(u)' <=> Holds(u)) /\ phone'[u] = phone[u]
          BY <2>3, <3>1 DEF Recheck
        <4>2. QED
          BY <4>1
      <3>2. CASE phone[t] \notin activeUsers
        <4>1. PICK p \in Phones : p = phone[t]
          OBVIOUS
        <4>2. /\ pc[t] \notin {"inside", "killed"}
              /\ p \notin activeUsers
              /\ pc' = [pc EXCEPT ![t] = "inside"]
              /\ phone' = [phone EXCEPT ![t] = p]
          BY <2>3, <3>2, <4>1 DEF Recheck, TakePhone
        <4>3. Mutex!Take(t, p)
          BY <2>1, <4>2
        <4>4. QED
          BY <4>3 DEF Mutex!Next
      <3>3. QED
        BY <3>1, <3>2
    <2>4. ASSUME NEW t \in Threads, Exit(t)
          PROVE  Mutex!Next \/ heldNow' = heldNow
      <3>1. \A u \in Threads : (Holds(u)' <=> Holds(u) /\ u # t) /\ phone'[u] = phone[u]
        BY <2>4 DEF Exit
      <3>2. <<t, phone[t]>> \in heldNow
        BY <2>4 DEF Exit
      <3>3. heldNow' = heldNow \ {<<t, phone[t]>>}
        BY <3>1
      <3>4. QED
        BY <3>2, <3>3 DEF Mutex!Next, Mutex!Give
    <2>5. ASSUME NEW t \in Threads, Kill(t)
          PROVE  Mutex!Next \/ heldNow' = heldNow
      <3>1. \A u \in Threads : (Holds(u)' <=> Holds(u)) /\ phone'[u] = phone[u]
        BY <2>5 DEF Kill
      <3>2. QED
        BY <3>1
    <2>6. CASE UNCHANGED vars
      BY <2>6 DEF vars
    <2>7. QED
      BY <2>2, <2>3, <2>4, <2>5, <2>6 DEF Next
  <1>3. QED
    BY <1>1, <1>2, LockInductive, PTL DEF Spec, ImplementsMutex, Mutex!Spec

=============================================================================
