------------------------- MODULE DistributedLockProofs -------------------------
(***************************************************************************)
(* Proofs about DistributedLock, for every set of handles, TTL and skew.   *)
(*                                                                         *)
(* LeaseExclusive is not inductive: it says nothing of the row.  LeaseInRow *)
(* ties every unexpired lease to the row, and TimesOrdered keeps a renewal *)
(* that is under way at least as late as the lease it renews, so that a    *)
(* renewal whose reply is lost only lengthens what the row promises.       *)
(***************************************************************************)
EXTENDS DistributedLock, TLAPS

LeaseInRow == \A h \in Handles : Leased(h) => row = h /\ left >= lease[h]

TimesOrdered ==
  \A h \in Handles : /\ lease[h] =< NewExpiry(h) /\ want[h] =< NewExpiry(h)
                     /\ pc[h] = "extend" => lease[h] =< want[h]

SleepsInside == \A h \in Handles : pc[h] = "sleep" => tries[h] < MaxRetries

IInv == TypeOK /\ SleepsInside /\ LeaseInRow /\ TimesOrdered

\* The deltas of Tick keep the order of two times.
LEMMA LaterMonotone ==
  ASSUME NEW s \in Int, NEW t \in Int, s =< t
  PROVE  Later(s) =< Later(t) /\ Later(s) \in Int /\ Later(s) =< s
BY DEF Later, Past

\* A row that nobody's clock has passed survives every clean-up.
LEMMA SkewBound == ASSUME NEW h \in Handles PROVE Skew[h] \in Int /\ 0 =< Skew[h] /\ Skew[h] =< MaxSkew /\ MaxSkew \in Int /\ NewExpiry(h) \in Int
BY LockAssumption DEF NewExpiry

LEMMA BackoffType == ASSUME NEW i \in Nat PROVE Backoff(i) \in Nat
<1> DEFINE e == IF i > MaxExp THEN MaxExp ELSE i
<1>1. e \in 0 .. 5 BY LockAssumption
<1>2. <<1, 2, 4, 8, 16, 32>>[1 + e] \in Nat BY <1>1
<1> QED BY <1>2 DEF Backoff

\* Every step keeps the types; the loop's counter needs SleepsInside.
LEMMA TypeStep == TypeOK /\ SleepsInside /\ [Next]_vars => TypeOK' /\ SleepsInside'
<1> SUFFICES ASSUME TypeOK, SleepsInside, [Next]_vars PROVE TypeOK' /\ SleepsInside'
  OBVIOUS
<1> USE LockAssumption DEF TypeOK, SleepsInside, Inside, Trying, Past
<1>1. CASE UNCHANGED vars
  BY <1>1 DEF vars
<1>2. CASE Tick
  <2>1. \A t \in Int : Later(t) \in Int BY DEF Later
  <2> QED BY <1>2, <2>1 DEF Tick
<1>3. ASSUME NEW h \in Handles, Step(h) PROVE TypeOK' /\ SleepsInside'
  <2>0. NewExpiry(h) \in Int BY SkewBound
  <2>1. CASE Begin(h) BY <2>1 DEF Begin, Goto
  <2>2. CASE Clean(h)
    <3>1. pc' \in [Handles -> {"idle", "gaveup"} \cup Trying \cup Inside] BY <2>2 DEF Clean, Goto
    <3>2. want' \in [Handles -> Int] BY <2>2, <2>0 DEF Clean
    <3>3. hindered' \in [Handles -> BOOLEAN] BY <2>2 DEF Clean
    <3>4. row' \in Handles \cup {NoHandle} /\ left' \in Int BY <2>2 DEF Clean, Drop
    <3>5. SleepsInside' BY <2>2 DEF Clean, Goto
    <3> QED BY <2>2, <3>1, <3>2, <3>3, <3>4, <3>5 DEF Clean
  <2>3. CASE Insert(h) BY <2>3 DEF Insert, Goto, Hinder
  <2>4. CASE InsertErrs(h)
    <3>1. hindered' \in [Handles -> BOOLEAN] BY <2>4 DEF InsertErrs, Hinder
    <3>2. row' \in Handles \cup {NoHandle} /\ left' \in Int BY <2>4 DEF InsertErrs
    <3>3. /\ pc' \in [Handles -> {"idle", "gaveup"} \cup Trying \cup Inside]
          /\ want' \in [Handles -> Int] /\ lease' \in [Handles -> Int]
          /\ tries' \in [Handles -> 0 .. MaxRetries] /\ timer' \in [Handles -> Nat]
      BY <2>4 DEF InsertErrs, Done
    <3>4. SleepsInside' BY <2>4 DEF InsertErrs, Done
    <3> QED BY <2>4, <3>1, <3>2, <3>3, <3>4 DEF InsertErrs
  <2>5. CASE Refused(h)
    <3>1. Backoff(tries[h]) \in Nat BY BackoffType
    <3> QED BY <2>5, <3>1 DEF Refused, Goto
  <2>6. CASE Wake(h)
    <3>1. tries[h] + 1 \in 0 .. MaxRetries BY <2>6 DEF Wake
    <3> QED BY <2>6, <3>1 DEF Wake, Goto
  <2>7. CASE Stop(h) BY <2>7 DEF Stop, Done
  <2>8. CASE ExtendBegin(h)
    <3>1. want' \in [Handles -> Int] BY <2>8, <2>0 DEF ExtendBegin
    <3>2. pc' \in [Handles -> {"idle", "gaveup"} \cup Trying \cup Inside] BY <2>8 DEF ExtendBegin, Goto
    <3>3. SleepsInside' BY <2>8 DEF ExtendBegin, Goto
    <3> QED BY <2>8, <3>1, <3>2, <3>3 DEF ExtendBegin
  <2>9. CASE Extend(h)
    <3>1. left' \in Int BY <2>9 DEF Extend
    <3>2. lease' \in [Handles -> Int] BY <2>9 DEF Extend
    <3>3. hindered' \in [Handles -> BOOLEAN] BY <2>9 DEF Extend, Hinder
    <3>4. acquired' \in [Handles -> BOOLEAN] BY <2>9 DEF Extend
    <3>5. pc' \in [Handles -> {"idle", "gaveup"} \cup Trying \cup Inside] BY <2>9 DEF Extend, Goto
    <3>6. SleepsInside' BY <2>9 DEF Extend, Goto
    <3> QED BY <2>9, <3>1, <3>2, <3>3, <3>4, <3>5, <3>6 DEF Extend
  <2>10. CASE IsHeld(h) BY <2>10 DEF IsHeld
  <2>11. CASE Unlock(h)
    <3>1. row' \in Handles \cup {NoHandle} /\ left' \in Int BY <2>11 DEF Unlock, Drop
    <3>2. acquired' \in [Handles -> BOOLEAN] BY <2>11 DEF Unlock
    <3>3. /\ pc' \in [Handles -> {"idle", "gaveup"} \cup Trying \cup Inside]
          /\ want' \in [Handles -> Int] /\ lease' \in [Handles -> Int]
          /\ tries' \in [Handles -> 0 .. MaxRetries] /\ timer' \in [Handles -> Nat]
      BY <2>11 DEF Unlock, Done
    <3>4. SleepsInside' BY <2>11 DEF Unlock, Done
    <3> QED BY <2>11, <3>1, <3>2, <3>3, <3>4 DEF Unlock
  <2>12. CASE Crash(h) BY <2>12 DEF Crash, Done
  <2>13. CASE CleanupExpiredLocks(h) BY <2>13 DEF CleanupExpiredLocks, Drop
  <2> QED BY <1>3, <2>1, <2>2, <2>3, <2>4, <2>5, <2>6, <2>7, <2>8, <2>9, <2>10, <2>11, <2>12, <2>13 DEF Step
<1> QED BY <1>1, <1>2, <1>3 DEF Next

\* Every unexpired lease stays in the row, and renewals stay ahead of it.
LEMMA LeaseStep == IInv /\ [Next]_vars => LeaseInRow' /\ TimesOrdered'
<1> SUFFICES ASSUME IInv, [Next]_vars PROVE LeaseInRow' /\ TimesOrdered'
  OBVIOUS
<1> USE LockAssumption DEF Inside, Trying, Past
<1>0. TypeOK /\ LeaseInRow /\ TimesOrdered /\ TypeOK'
  BY TypeStep DEF IInv
<1>1. CASE UNCHANGED vars
  BY <1>0, <1>1 DEF vars, LeaseInRow, TimesOrdered, Leased, NewExpiry
<1>2. CASE Tick
  <2> SUFFICES ASSUME NEW k \in Handles
               PROVE  /\ Leased(k)' => row' = k /\ left' >= lease'[k]
                      /\ lease'[k] =< NewExpiry(k) /\ want'[k] =< NewExpiry(k)
                      /\ pc'[k] = "extend" => lease'[k] =< want'[k]
    BY DEF LeaseInRow, TimesOrdered, NewExpiry
  <2>1. lease[k] \in Int /\ want[k] \in Int /\ left \in Int /\ NewExpiry(k) \in Int /\ MaxSkew \in Int
    BY <1>0, SkewBound DEF TypeOK
  <2>2. lease'[k] = Later(lease[k]) /\ want'[k] = Later(want[k]) /\ left' = Later(left) /\ row' = row /\ pc' = pc /\ acquired' = acquired
    BY <1>2 DEF Tick
  <2>3. lease'[k] =< lease[k] BY <2>1, <2>2, LaterMonotone
  <2>4. Leased(k)' => Leased(k) BY <2>1, <2>2, <2>3, <1>0 DEF Leased, TypeOK
  <2>5. Leased(k) => row = k /\ lease[k] =< left BY <1>0, <2>1 DEF LeaseInRow
  <2>6. Leased(k)' => row' = k /\ left' >= lease'[k] BY <2>1, <2>2, <2>4, <2>5, LaterMonotone, <1>0 DEF TypeOK
  <2>7. lease'[k] =< NewExpiry(k) /\ want'[k] =< NewExpiry(k) BY <1>0, <2>1, <2>3, <2>2, LaterMonotone DEF TimesOrdered
  <2>8. pc'[k] = "extend" => lease'[k] =< want'[k] BY <1>0, <2>1, <2>2, LaterMonotone DEF TimesOrdered
  <2> QED BY <2>6, <2>7, <2>8
<1>3. ASSUME NEW h \in Handles, Step(h) PROVE LeaseInRow' /\ TimesOrdered'
  <2> SUFFICES ASSUME NEW k \in Handles
               PROVE  /\ Leased(k)' => row' = k /\ left' >= lease'[k]
                      /\ lease'[k] =< NewExpiry(k) /\ want'[k] =< NewExpiry(k)
                      /\ pc'[k] = "extend" => lease'[k] =< want'[k]
    BY DEF LeaseInRow, TimesOrdered, NewExpiry
  <2>0. /\ Skew[k] \in Int /\ 0 =< Skew[k] /\ Skew[k] =< MaxSkew /\ NewExpiry(k) \in Int
        /\ Skew[h] \in Int /\ 0 =< Skew[h] /\ Skew[h] =< MaxSkew /\ MaxSkew \in Int
        /\ Past =< NewExpiry(k)
    BY SkewBound, LockAssumption DEF NewExpiry
  <2>k. /\ Leased(k) => row = k /\ left >= lease[k]
        /\ lease[k] =< NewExpiry(k) /\ want[k] =< NewExpiry(k)
        /\ pc[k] = "extend" => lease[k] =< want[k]
        /\ lease[k] \in Int /\ want[k] \in Int /\ left \in Int
    BY <1>0 DEF LeaseInRow, TimesOrdered, TypeOK
  <2> USE <2>0, <2>k DEF Leased
  <2>1. CASE Begin(h) BY <2>1, <1>0 DEF Begin, Goto, TypeOK
  <2>2. CASE Clean(h) BY <2>2, <1>0 DEF Clean, Goto, Drop, ExpiredFor, TypeOK
  <2>3. CASE Insert(h)
    <3>1. want[h] =< NewExpiry(h) BY <1>0 DEF TimesOrdered
    <3> QED BY <2>3, <3>1, <1>0 DEF Insert, Goto, TypeOK
  <2>4. CASE InsertErrs(h) BY <2>4, <1>0 DEF InsertErrs, Done, TypeOK
  <2>5. CASE Refused(h) BY <2>5, <1>0 DEF Refused, Goto, TypeOK
  <2>6. CASE Wake(h) BY <2>6, <1>0 DEF Wake, Goto, TypeOK
  <2>7. CASE Stop(h) BY <2>7, <1>0 DEF Stop, Done, TypeOK
  <2>8. CASE ExtendBegin(h) BY <2>8, <1>0 DEF ExtendBegin, Goto, TypeOK
  <2>9. CASE Extend(h) BY <2>9, <1>0 DEF Extend, Goto, TypeOK
  <2>10. CASE IsHeld(h) BY <2>10, <1>0 DEF IsHeld, TypeOK
  <2>11. CASE Unlock(h) BY <2>11, <1>0 DEF Unlock, Done, Drop, TypeOK
  <2>12. CASE Crash(h) BY <2>12, <1>0 DEF Crash, Done, TypeOK
  <2>13. CASE CleanupExpiredLocks(h) BY <2>13, <1>0 DEF CleanupExpiredLocks, Drop, ExpiredFor, TypeOK
  <2> QED BY <1>3, <2>1, <2>2, <2>3, <2>4, <2>5, <2>6, <2>7, <2>8, <2>9, <2>10, <2>11, <2>12, <2>13 DEF Step
<1> QED BY <1>1, <1>2, <1>3 DEF Next

LEMMA Inductive == Spec => []IInv
<1>1. Init => IInv
  <2> SUFFICES ASSUME Init PROVE IInv
    OBVIOUS
  <2>1. TypeOK BY LockAssumption DEF Init, TypeOK, Past
  <2>2. SleepsInside /\ LeaseInRow BY DEF Init, SleepsInside, LeaseInRow, Leased, Inside
  <2>3. \A h \in Handles : Past =< NewExpiry(h) 
    <3>1. \A h \in Handles : Skew[h] \in Int /\ 0 =< Skew[h] BY SkewBound
    <3>2. TTL \in Int /\ 0 =< TTL BY LockAssumption
    <3>3. SUFFICES ASSUME NEW h \in Handles PROVE -1 =< Skew[h] + TTL BY DEF NewExpiry, Past
    <3> QED BY <3>1, <3>2
  <2>4. TimesOrdered BY <2>3 DEF Init, TimesOrdered
  <2> QED BY <2>1, <2>2, <2>4 DEF IInv
<1>2. IInv /\ [Next]_vars => IInv'
  BY TypeStep, LeaseStep DEF IInv
<1> QED BY <1>1, <1>2, PTL DEF Spec

\* Type correctness; in particular LockWithRetry's loop stays within maxRetries.
THEOREM LockTypes == Spec => []TypeOK
<1>1. IInv => TypeOK BY DEF IInv
<1> QED BY <1>1, Inductive, PTL

\* Mutual exclusion of leases: TryLock, Extend, Unlock and the clean-ups of any
\* number of processes never leave two of them with a lease that has not expired
\* on any clock.
THEOREM LeasesAreExclusive == Spec => []LeaseExclusive
<1>1. IInv => LeaseExclusive BY DEF IInv, LeaseInRow, LeaseExclusive
<1> QED BY <1>1, Inductive, PTL

\* A row that has not expired on the fastest clock leaves the table only by the
\* Unlock of its own holder.
THEOREM NeverStolen == Spec => NotStolen
<1> DEFINE A == \A h \in Handles : row = h /\ row' # h /\ left >= MaxSkew => pc[h] = "inside" /\ pc'[h] = "idle"
<1>1. IInv /\ [Next]_vars => [A]_vars
  <2> SUFFICES ASSUME TypeOK, Next, NEW h \in Handles, row = h, row' # h, left >= MaxSkew
               PROVE  pc[h] = "inside" /\ pc'[h] = "idle"
    BY DEF IInv
  <2>1. h # NoHandle BY LockAssumption
  <2>2. \A k \in Handles : ~ExpiredFor(k)
    BY SkewBound DEF ExpiredFor, TypeOK
  <2>3. PICK k \in Handles : Step(k)
    BY DEF Next, Tick
  <2>4. CASE Unlock(k) BY <2>4, <2>1 DEF Unlock, Done, TypeOK
  <2>5. CASE ~Unlock(k)
    BY <2>1, <2>2, <2>3, <2>5 DEF Step, Begin, Clean, Insert, InsertErrs, Refused, Wake, Stop, ExtendBegin, Extend, IsHeld, Crash, CleanupExpiredLocks
  <2> QED BY <2>4, <2>5
<1> QED BY <1>1, Inductive, PTL DEF Spec, NotStolen

\* The lock table refines the exclusive lock: the leases that have not expired on
\* any clock are its holders, and each step of the code acquires, releases, or
\* leaves them alone.
THEOREM LockRefines == Spec => ImplementsLock
<1>1. Init => Exclusive!Init
  BY DEF Init, Exclusive!Init, Leaseholders, Leased, Inside
<1>2. IInv /\ IInv' /\ [Next]_vars => [Exclusive!Next]_Leaseholders
  <2> SUFFICES ASSUME IInv, IInv', [Next]_vars, Leaseholders' # Leaseholders PROVE Exclusive!Next
    OBVIOUS
  <2>1. \A g, h \in Handles : Leased(g) /\ Leased(h) => g = h
    BY DEF IInv, LeaseInRow
  <2>2. \A g, h \in Handles : Leased(g)' /\ Leased(h)' => g = h
    BY DEF IInv, LeaseInRow
  <2>3. \E h \in Handles : (Leased(h) # Leased(h)') /\ \A k \in Handles \ {h} : (Leased(k)' => Leased(k)) /\ (Leased(k) /\ ~Leased(k)' => FALSE)
    <3>1. CASE UNCHANGED vars
      BY <3>1 DEF vars, Leaseholders, Leased
    <3>2. CASE Tick
      <4>1. \A k \in Handles : Leased(k)' => Leased(k)
        <5> SUFFICES ASSUME NEW k \in Handles, Leased(k)' PROVE Leased(k)
          OBVIOUS
        <5>1. lease[k] \in Int /\ MaxSkew \in Int BY LockAssumption DEF IInv, TypeOK
        <5>2. lease'[k] = Later(lease[k]) /\ pc' = pc /\ acquired' = acquired BY <3>2 DEF Tick
        <5>3. lease'[k] =< lease[k] /\ lease'[k] \in Int BY <5>1, <5>2, LaterMonotone
        <5> QED BY <5>1, <5>2, <5>3 DEF Leased
      <4>2. PICK h \in Handles : Leased(h) /\ ~Leased(h)'
        BY <4>1 DEF Leaseholders
      <4>3. \A k \in Handles \ {h} : ~Leased(k) BY <4>2, <2>1
      <4> QED BY <4>1, <4>2, <4>3
    <3>3. CASE \E h \in Handles : Step(h)
      <4>1. PICK h \in Handles : Step(h) BY <3>3
      <4>2. \A k \in Handles \ {h} : pc'[k] = pc[k] /\ acquired'[k] = acquired[k] /\ lease'[k] = lease[k]
        <5> USE DEF TypeOK, IInv
        <5>1. CASE Begin(h) BY <5>1 DEF Begin, Goto
        <5>2. CASE Clean(h) BY <5>2 DEF Clean, Goto
        <5>3. CASE Insert(h) BY <5>3 DEF Insert, Goto
        <5>4. CASE InsertErrs(h) BY <5>4 DEF InsertErrs, Done
        <5>5. CASE Refused(h) BY <5>5 DEF Refused, Goto
        <5>6. CASE Wake(h) BY <5>6 DEF Wake, Goto
        <5>7. CASE Stop(h) BY <5>7 DEF Stop, Done
        <5>8. CASE ExtendBegin(h) BY <5>8 DEF ExtendBegin, Goto
        <5>9. CASE Extend(h) BY <5>9 DEF Extend, Goto
        <5>10. CASE IsHeld(h) BY <5>10 DEF IsHeld
        <5>11. CASE Unlock(h) BY <5>11 DEF Unlock, Done
        <5>12. CASE Crash(h) BY <5>12 DEF Crash, Done
        <5>13. CASE CleanupExpiredLocks(h) BY <5>13 DEF CleanupExpiredLocks
        <5> QED BY <4>1, <5>1, <5>2, <5>3, <5>4, <5>5, <5>6, <5>7, <5>8, <5>9, <5>10, <5>11, <5>12, <5>13 DEF Step
      <4>3. \A k \in Handles \ {h} : Leased(k)' = Leased(k)
        BY <4>2 DEF Leased
      <4>4. Leased(h)' # Leased(h)
        BY <4>3 DEF Leaseholders
      <4> QED BY <4>3, <4>4
    <3> QED BY <3>1, <3>2, <3>3 DEF Next
  <2>4. PICK h \in Handles : (Leased(h) # Leased(h)') /\ \A k \in Handles \ {h} : (Leased(k)' => Leased(k)) /\ (Leased(k) /\ ~Leased(k)' => FALSE)
    BY <2>3
  <2>5. CASE Leased(h) /\ ~Leased(h)'
    <3>1. Leaseholders = {h} /\ Leaseholders' = {}
      BY <2>1, <2>4, <2>5 DEF Leaseholders
    <3> QED BY <3>1 DEF Exclusive!Next, Exclusive!Release
  <2>6. CASE ~Leased(h) /\ Leased(h)'
    <3>1. Leaseholders = {} /\ Leaseholders' = {h}
      BY <2>2, <2>4, <2>6 DEF Leaseholders
    <3> QED BY <3>1 DEF Exclusive!Next, Exclusive!Acquire
  <2> QED BY <2>4, <2>5, <2>6 DEF Leased
<1> QED BY <1>1, <1>2, Inductive, PTL DEF Spec, ImplementsLock, Exclusive!Spec

(***************************************************************************)
(* LockWithRetry against a row that a dead process left behind.            *)
(***************************************************************************)
\* W[i] is what the first i waits add up to.
Sums(W) ==
  /\ W \in [0 .. MaxRetries -> Nat] /\ W[0] = 0
  /\ \A i \in 0 .. MaxRetries : i < MaxRetries => W[i + 1] = W[i] + Backoff(i)

\* The waits together are longer than a lease is on the slowest clock.
Patient == \E W : Sums(W) /\ W[MaxRetries] > MaxSkew + TTL

\* What a handle has waited at least, since it began.
Waited(W, h) == W[tries[h]] + (IF pc[h] = "sleep" THEN Backoff(tries[h]) - timer[h] ELSE 0)

\* No row, and nothing that is about to be written, lasts longer than a lease.
Bounded ==
  /\ Past =< left /\ left =< MaxSkew + TTL
  /\ \A h \in Handles : Past =< want[h] /\ want[h] =< MaxSkew + TTL

\* A row that no rival wrote since the handle began has aged by what the
\* handle waited, or has expired on every clock; after the last clean-up it is gone.
Aging(W) ==
  \A h \in Handles : ~hindered[h] =>
    /\ pc[h] # "gaveup"
    /\ pc[h] \in Trying => left = Past \/ left + Waited(W, h) =< MaxSkew + TTL
    /\ pc[h] = "insert" /\ tries[h] = MaxRetries => row = NoHandle

LEMMA BoundedStep ==
  ASSUME IInv, Bounded, [Next]_vars
  PROVE  Bounded'
<1> USE LockAssumption DEF Past
<1>0. TypeOK /\ left \in Int /\ want \in [Handles -> Int] /\ MaxSkew + TTL \in Nat BY DEF IInv, TypeOK
<1>1. CASE UNCHANGED vars BY <1>1 DEF vars, Bounded
<1>2. CASE Tick
  <2>1. Past =< left' /\ left' =< MaxSkew + TTL BY <1>0, <1>2 DEF Tick, Bounded, Later
  <2>2. ASSUME NEW h \in Handles PROVE Past =< want'[h] /\ want'[h] =< MaxSkew + TTL
    <3>1. want[h] \in Int /\ Past =< want[h] /\ want[h] =< MaxSkew + TTL BY <1>0 DEF Bounded
    <3>2. want'[h] = IF want[h] > -1 THEN want[h] - 1 ELSE want[h] BY <1>2 DEF Tick, Later
    <3> QED BY <1>0, <3>1, <3>2
  <2> QED BY <2>1, <2>2 DEF Bounded
<1>3. ASSUME NEW h \in Handles, Step(h) PROVE Bounded'
  <2>1. NewExpiry(h) \in Int /\ Past =< NewExpiry(h) /\ NewExpiry(h) =< MaxSkew + TTL BY SkewBound DEF NewExpiry
  <2>2. left' \in {left, want[h], Past}
    BY <1>3 DEF Step, Begin, Clean, Insert, InsertErrs, Refused, Wake, Stop, ExtendBegin, Extend, IsHeld,
                Unlock, Crash, CleanupExpiredLocks, Drop
  <2>3. want' = want \/ \E x \in {NewExpiry(h), Past} : want' = [want EXCEPT ![h] = x]
    BY <1>3 DEF Step, Begin, Clean, Insert, InsertErrs, Refused, Wake, Stop, ExtendBegin, Extend, IsHeld,
                Unlock, Crash, CleanupExpiredLocks, Done
  <2> QED BY <1>0, <2>1, <2>2, <2>3 DEF Bounded
<1> QED BY <1>1, <1>2, <1>3 DEF Next

\* A step of h that is not the beginning, the clean-up, a refusal or the end of a
\* sleep leaves the rivals' rows as old as they are, or hinders them.
Passing(h) ==
  /\ \A k \in Handles \ {h} : /\ pc'[k] = pc[k] /\ tries'[k] = tries[k] /\ timer'[k] = timer[k]
                              /\ ~hindered'[k] => ~hindered[k]
  /\ \A k \in Handles \ {h} : ~hindered'[k] /\ pc[k] \in Trying =>
       (row' = row \/ row' = NoHandle) /\ (left' = left \/ left' = Past)

LEMMA StepPasses == ASSUME TypeOK, NEW h \in Handles, Step(h) PROVE Passing(h)
<1> USE DEF TypeOK, Passing, Goto, Done, Drop, Hinder
<1>1. CASE Begin(h) BY <1>1 DEF Begin
<1>2. CASE Clean(h) BY <1>2 DEF Clean
<1>3. CASE Insert(h) BY <1>3 DEF Insert
<1>4. CASE InsertErrs(h) BY <1>4 DEF InsertErrs
<1>5. CASE Refused(h) BY <1>5 DEF Refused
<1>6. CASE Wake(h) BY <1>6 DEF Wake
<1>7. CASE Stop(h) BY <1>7 DEF Stop
<1>8. CASE ExtendBegin(h) BY <1>8 DEF ExtendBegin
<1>9. CASE Extend(h) BY <1>9 DEF Extend
<1>10. CASE IsHeld(h) BY <1>10 DEF IsHeld
<1>11. CASE Unlock(h) BY <1>11 DEF Unlock
<1>12. CASE Crash(h) BY <1>12 DEF Crash
<1>13. CASE CleanupExpiredLocks(h) BY <1>13 DEF CleanupExpiredLocks
<1> QED BY <1>1, <1>2, <1>3, <1>4, <1>5, <1>6, <1>7, <1>8, <1>9, <1>10, <1>11, <1>12, <1>13 DEF Step

LEMMA AgingStep ==
  ASSUME NEW W, Sums(W), W[MaxRetries] > MaxSkew + TTL, IInv, Bounded, Aging(W), [Next]_vars
  PROVE  Aging(W)'
<1> USE LockAssumption DEF Past
<1>a. /\ TypeOK /\ SleepsInside /\ left \in Int /\ MaxSkew + TTL \in Nat
      /\ \A h \in Handles : tries[h] \in 0 .. MaxRetries /\ tries[h] \in Nat /\ timer[h] \in Nat
  BY DEF IInv, TypeOK
<1>b. \A h \in Handles : W[tries[h]] \in Nat BY <1>a DEF Sums
<1>c. \A h \in Handles : Backoff(tries[h]) \in Nat BY <1>a, BackoffType
<1>0. /\ TypeOK /\ SleepsInside /\ left \in Int /\ MaxSkew + TTL \in Nat
      /\ \A h \in Handles : /\ tries[h] \in 0 .. MaxRetries /\ tries[h] \in Nat /\ timer[h] \in Nat
                           /\ W[tries[h]] \in Nat /\ Backoff(tries[h]) \in Nat
  BY <1>a, <1>b, <1>c
<1>1. CASE UNCHANGED vars BY <1>1 DEF vars, Aging, Waited
<1>2. CASE Tick
  <2> SUFFICES ASSUME NEW h \in Handles, ~hindered[h]
               PROVE  /\ pc[h] # "gaveup"
                      /\ pc[h] \in Trying => left' = Past \/ left' + Waited(W, h)' =< MaxSkew + TTL
                      /\ pc[h] = "insert" /\ tries[h] = MaxRetries => row = NoHandle
    BY <1>2 DEF Tick, Aging
  <2>1. /\ pc[h] # "gaveup" /\ (pc[h] = "insert" /\ tries[h] = MaxRetries => row = NoHandle)
        /\ pc[h] \in Trying => left = Past \/ left + Waited(W, h) =< MaxSkew + TTL
    BY DEF Aging
  <2>2. left' = IF left > -1 THEN left - 1 ELSE left BY <1>2 DEF Tick, Later
  <2>3. /\ pc' = pc /\ tries' = tries
        /\ timer'[h] = IF timer[h] > 0 THEN timer[h] - 1 ELSE 0
    BY <1>2 DEF Tick
  <2>4. /\ Waited(W, h) \in Int /\ Waited(W, h)' \in Int /\ Waited(W, h)' =< Waited(W, h) + 1
    BY <1>0, <2>3 DEF Waited
  <2>5. pc[h] \in Trying => left' = Past \/ left' + Waited(W, h)' =< MaxSkew + TTL
    BY <1>0, <2>1, <2>2, <2>4 DEF Bounded
  <2> QED BY <2>1, <2>5
<1>3. ASSUME NEW h \in Handles, Step(h) PROVE Aging(W)'
  <2>1. Passing(h) BY <1>0, <1>3, StepPasses
  <2>2. ASSUME NEW k \in Handles, k # h, ~hindered'[k]
        PROVE  /\ pc'[k] # "gaveup"
               /\ pc'[k] \in Trying => left' = Past \/ left' + Waited(W, k)' =< MaxSkew + TTL
               /\ pc'[k] = "insert" /\ tries'[k] = MaxRetries => row' = NoHandle
    <3>1. /\ pc'[k] = pc[k] /\ Waited(W, k)' = Waited(W, k) /\ tries'[k] = tries[k] /\ ~hindered[k]
          /\ pc[k] \in Trying => (row' = row \/ row' = NoHandle) /\ (left' = left \/ left' = Past)
      BY <2>1, <2>2 DEF Passing, Waited
    <3>2. /\ pc[k] # "gaveup" /\ (pc[k] = "insert" /\ tries[k] = MaxRetries => row = NoHandle)
          /\ pc[k] \in Trying => left = Past \/ left + Waited(W, k) =< MaxSkew + TTL
      BY <3>1 DEF Aging
    <3> QED BY <3>1, <3>2 DEF Trying
  <2>3. ASSUME ~hindered'[h]
        PROVE  /\ pc'[h] # "gaveup"
               /\ pc'[h] \in Trying => left' = Past \/ left' + Waited(W, h)' =< MaxSkew + TTL
               /\ pc'[h] = "insert" /\ tries'[h] = MaxRetries => row' = NoHandle
    <3>h. ~hindered[h] =>
            /\ pc[h] # "gaveup" /\ (pc[h] = "insert" /\ tries[h] = MaxRetries => row = NoHandle)
            /\ pc[h] \in Trying => left = Past \/ left + Waited(W, h) =< MaxSkew + TTL
      BY DEF Aging
    <3>t. pc \in [Handles -> {"idle", "gaveup"} \cup Trying \cup Inside] /\ tries \in [Handles -> 0 .. MaxRetries]
          /\ timer \in [Handles -> Nat] /\ hindered \in [Handles -> BOOLEAN]
      BY <1>0 DEF TypeOK
    <3>1. CASE Begin(h)
      <4>1. pc'[h] = "clean" /\ tries'[h] = 0 /\ left' = left BY <3>1, <3>t DEF Begin, Goto
      <4>2. Waited(W, h)' = 0 BY <4>1 DEF Waited, Sums
      <4> QED BY <1>0, <4>1, <4>2 DEF Bounded, Trying
    <3>2. CASE Clean(h)
      <4>0. hindered' = hindered /\ ~hindered[h]
        <5>1. hindered' # [hindered EXCEPT ![h] = TRUE] BY <2>3, <3>t
        <5> QED BY <2>3, <3>2, <5>1 DEF Clean
      <4>1. /\ pc[h] = "clean" /\ pc'[h] = "insert" /\ tries' = tries /\ ~hindered[h]
            /\ \/ left' = Past /\ row' = NoHandle
               \/ (row = NoHandle \/ ~ExpiredFor(h)) /\ row' = row /\ left' = left
        <5>1. pc[h] = "clean" /\ pc'[h] = "insert" /\ tries' = tries BY <3>2, <3>t DEF Clean, Goto
        <5>2. hindered' # [hindered EXCEPT ![h] = TRUE] BY <2>3, <3>t
        <5>3. \/ row # NoHandle /\ ExpiredFor(h) /\ row' = NoHandle /\ left' = Past /\ UNCHANGED hindered
              \/ (row = NoHandle \/ ~ExpiredFor(h)) /\ UNCHANGED <<row, left, hindered>>
          BY <3>2, <5>2, Zenon DEF Clean, Drop
        <5> QED BY <4>0, <5>1, <5>3
      <4>2. Waited(W, h)' = W[tries[h]] /\ Waited(W, h) = W[tries[h]] BY <1>0, <4>1 DEF Waited
      <4>3. left' = Past \/ left' + Waited(W, h)' =< MaxSkew + TTL BY <3>h, <4>1, <4>2 DEF Trying
      <4>4. ASSUME tries[h] = MaxRetries PROVE row' = NoHandle
        <5>1. Skew[h] \in Int /\ 0 =< Skew[h] BY SkewBound
        <5>2. left < 0 BY <1>0, <3>h, <4>1, <4>2, <4>4 DEF Trying
        <5> QED BY <1>0, <4>1, <5>1, <5>2 DEF ExpiredFor
      <4> QED BY <4>1, <4>3, <4>4
    <3>3. CASE Refused(h)
      <4>1. pc[h] = "insert" /\ row # NoHandle /\ left' = left /\ tries' = tries /\ hindered' = hindered
        BY <3>3 DEF Refused
      <4>2. tries[h] < MaxRetries /\ ~hindered[h] BY <1>0, <2>3, <3>h, <4>1
      <4>3. pc'[h] = "sleep" /\ timer'[h] = Backoff(tries[h]) BY <3>3, <3>t, <4>2 DEF Refused, Goto
      <4>4. Waited(W, h)' = Waited(W, h) BY <1>0, <4>1, <4>3 DEF Waited
      <4> QED BY <3>h, <4>1, <4>2, <4>3, <4>4 DEF Trying
    <3>4. CASE Wake(h)
      <4>1. /\ pc[h] = "sleep" /\ timer[h] = 0 /\ left' = left /\ hindered' = hindered
            /\ pc'[h] = "clean" /\ tries'[h] = tries[h] + 1
        BY <3>4, <3>t DEF Wake, Goto
      <4>2. tries[h] < MaxRetries BY <1>0, <4>1 DEF SleepsInside
      <4>3. W[tries[h] + 1] = W[tries[h]] + Backoff(tries[h]) BY <1>0, <4>2 DEF Sums
      <4>4. Waited(W, h)' = Waited(W, h) BY <1>0, <4>1, <4>3 DEF Waited
      <4> QED BY <2>3, <3>h, <4>1, <4>4 DEF Trying
    <3>5. CASE CleanupExpiredLocks(h)
      <4>1. pc' = pc /\ hindered' = hindered /\ row' = NoHandle /\ left' = Past
        BY <3>5 DEF CleanupExpiredLocks, Drop
      <4> QED BY <2>3, <3>h, <4>1
    <3>6. CASE ~(Begin(h) \/ Clean(h) \/ Refused(h) \/ Wake(h) \/ CleanupExpiredLocks(h))
      <4>1. pc'[h] \in {"idle", "inside", "extend"}
        BY <1>3, <3>6, <3>t DEF Step, Insert, InsertErrs, Stop, ExtendBegin, Extend, IsHeld, Unlock, Crash, Goto, Done
      <4> QED BY <4>1 DEF Trying
    <3> QED BY <3>1, <3>2, <3>3, <3>4, <3>5, <3>6
  <2> QED BY <2>2, <2>3 DEF Aging
<1> QED BY <1>1, <1>2, <1>3 DEF Next

\* LockWithRetry with a patience longer than the TTL and the skew gives up only if
\* somebody got or renewed the lock meanwhile or its own clean-up failed, for any
\* number of processes, tries and any cap on the backoff.
THEOREM OrphansAreOutlived == Patient => (Spec => []OutlivesOrphan)
<1> SUFFICES ASSUME Patient PROVE Spec => []OutlivesOrphan
  OBVIOUS
<1>w. PICK W : Sums(W) /\ W[MaxRetries] > MaxSkew + TTL BY DEF Patient
<1>1. Init => Bounded /\ Aging(W)
  BY LockAssumption DEF Init, Bounded, Aging, Past, Trying
<1>2. IInv /\ Bounded /\ Aging(W) /\ [Next]_vars => Bounded' /\ Aging(W)'
  BY <1>w, BoundedStep, AgingStep
<1>3. Aging(W) => OutlivesOrphan BY DEF Aging, OutlivesOrphan
<1> QED BY <1>1, <1>2, <1>3, Inductive, PTL DEF Spec

\* The lock of the start-up reset (plugins/governance/main.go:184-192), ten retries
\* and a TTL of thirty seconds, outlasts a dead process while clocks are at most
\* 160 seconds apart.
LEMMA StartupResetIsPatient ==
  ASSUME MaxRetries = 10, MaxExp = 5, TTL = 30, MaxSkew =< 160
  PROVE  Patient
<1> DEFINE W == [i \in 0 .. 10 |-> IF i < 6 THEN <<0, 1, 3, 7, 15, 31>>[i + 1] ELSE (32 * i) - 129]
<1>1. \A i \in 0 .. 5 : Backoff(i) = <<1, 2, 4, 8, 16, 32>>[i + 1] BY DEF Backoff
<1>2. \A i \in 5 .. 10 : Backoff(i) = 32 BY DEF Backoff
<1>3. W \in [0 .. 10 -> Nat]
  <2>1. \A i \in 0 .. 5 : <<0, 1, 3, 7, 15, 31>>[i + 1] \in Nat OBVIOUS
  <2>2. \A i \in 6 .. 10 : (32 * i) - 129 \in Nat OBVIOUS
  <2> QED BY <2>1, <2>2
<1>4. \A i \in 0 .. 9 : W[i + 1] = W[i] + Backoff(i) BY <1>1, <1>2
<1>5. W[0] = 0 /\ W[10] = 191 OBVIOUS
<1>6. Sums(W) BY <1>3, <1>4, <1>5 DEF Sums
<1>7. W[MaxRetries] > MaxSkew + TTL BY <1>5, LockAssumption
<1> QED BY <1>6, <1>7 DEF Patient
====
