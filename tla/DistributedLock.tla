---------------------------- MODULE DistributedLock ----------------------------
(***************************************************************************)
(* The distributed lock of framework/configstore/dlock.go over one row of  *)
(* the lock table: TryLock deletes the row if it has expired and inserts   *)
(* its own unless there is one; Extend, IsHeld and Unlock are conditional  *)
(* on the row's holder.  Expiry is judged by the clock of whoever looks,   *)
(* and those clocks differ by at most MaxSkew.                             *)
(*                                                                         *)
(* Times are kept relative to the present: Tick lowers them, and what has  *)
(* expired on every clock stays at -1.                                     *)
(***************************************************************************)
EXTENDS Integers, Sequences

CONSTANTS
  Handles,     \* DistributedLock objects, each with a holderID of its own
  NoHandle,    \* no row
  TTL,         \* l.ttl, in ticks
  MaxSkew,     \* how far clocks are apart, in ticks
  Skew,        \* how far a handle's clock is ahead of the slowest
  MaxRetries,  \* LockWithRetry's maxRetries
  MaxExp       \* LockWithRetry's cap on the exponent of the backoff

ASSUME LockAssumption ==
  /\ TTL \in Nat /\ MaxSkew \in Nat /\ MaxRetries \in Nat /\ MaxExp \in 0 .. 5
  /\ Skew \in [Handles -> 0 .. MaxSkew]
  /\ NoHandle \notin Handles

VARIABLES
  row, left,   \* the row's holder_id and the time left until its expires_at
  pc,          \* where the handle's user is
  acquired,    \* l.acquired
  want,        \* the expires_at computed for the next write
  lease,       \* the last expires_at the handle knows it wrote
  tries,       \* the loop's i
  timer,       \* what is left of the sleep between two tries
  hindered     \* history: since it began, a rival got or renewed the lock, or its clean-up erred

vars == <<row, left, pc, acquired, want, lease, tries, timer, hindered>>

Past == -1
Inside == {"inside", "extend"}
Trying == {"clean", "insert", "sleep"}

TypeOK ==
  /\ row \in Handles \cup {NoHandle} /\ left \in Int
  /\ pc \in [Handles -> {"idle", "gaveup"} \cup Trying \cup Inside]
  /\ acquired \in [Handles -> BOOLEAN] /\ hindered \in [Handles -> BOOLEAN]
  /\ want \in [Handles -> Int] /\ lease \in [Handles -> Int]
  /\ tries \in [Handles -> 0 .. MaxRetries] /\ timer \in [Handles -> Nat]

Init ==
  /\ row = NoHandle /\ left = Past
  /\ pc = [h \in Handles |-> "idle"] /\ acquired = [h \in Handles |-> FALSE]
  /\ want = [h \in Handles |-> Past] /\ lease = [h \in Handles |-> Past]
  /\ tries = [h \in Handles |-> 0] /\ timer = [h \in Handles |-> 0]
  /\ hindered = [h \in Handles |-> FALSE]

\* expires_at of a write made now: the handle's clock plus the TTL.
NewExpiry(h) == Skew[h] + TTL

\* expires_at < time.Now() and expires_at > time.Now() on h's clock.
ExpiredFor(h) == left < Skew[h]
ValidFor(h)   == left > Skew[h]

Goto(h, l) == pc' = [pc EXCEPT ![h] = l]

\* The call is over, and what it kept in local variables is gone.
Done(h) ==
  /\ pc' = [pc EXCEPT ![h] = "idle"]
  /\ want' = [want EXCEPT ![h] = Past] /\ lease' = [lease EXCEPT ![h] = Past]
  /\ tries' = [tries EXCEPT ![h] = 0] /\ timer' = [timer EXCEPT ![h] = 0]

\* The row is gone.
Drop == row' = NoHandle /\ left' = Past

(***************************************************************************)
(* LockWithRetry: TryLock, and a growing sleep after each refusal.  A      *)
(* handle is a new object with a new holderID whenever it starts.          *)
(***************************************************************************)
Begin(h) ==
  /\ pc[h] \in {"idle", "gaveup"} /\ row # h
  /\ Goto(h, "clean")
  /\ acquired' = [acquired EXCEPT ![h] = FALSE] /\ tries' = [tries EXCEPT ![h] = 0]
  /\ hindered' = [hindered EXCEPT ![h] = FALSE]
  /\ UNCHANGED <<row, left, want, lease, timer>>

\* cleanupExpiredLock; its error is ignored.
Clean(h) ==
  /\ pc[h] = "clean" /\ Goto(h, "insert")
  /\ \/ row # NoHandle /\ ExpiredFor(h) /\ Drop /\ UNCHANGED hindered
     \/ (row = NoHandle \/ ~ExpiredFor(h)) /\ UNCHANGED <<row, left, hindered>>
     \/ hindered' = [hindered EXCEPT ![h] = TRUE] /\ UNCHANGED <<row, left>>
  /\ want' = [want EXCEPT ![h] = NewExpiry(h)]
  /\ UNCHANGED <<acquired, lease, tries, timer>>

\* Everyone else who tries has a rival who got or renewed the lock.
Hinder(h) == hindered' = [k \in Handles |-> hindered[k] \/ (k # h /\ pc[k] \in Trying)]

\* INSERT ... ON CONFLICT DO NOTHING took effect.
Insert(h) ==
  /\ pc[h] = "insert" /\ row = NoHandle
  /\ row' = h /\ left' = want[h]
  /\ acquired' = [acquired EXCEPT ![h] = TRUE] /\ lease' = [lease EXCEPT ![h] = want[h]]
  /\ Goto(h, "inside") /\ Hinder(h)
  /\ UNCHANGED <<want, tries, timer>>

\* It took effect or not, but the call failed: Lock returns an error, and a row
\* that was written stays until it expires.
InsertErrs(h) ==
  /\ pc[h] = "insert" /\ Done(h)
  /\ \/ row = NoHandle /\ row' = h /\ left' = want[h] /\ Hinder(h)
     \/ UNCHANGED <<row, left, hindered>>
  /\ UNCHANGED acquired

\* Wrong variant: the wait of Lock, which does not grow.
FlatBackoff(i) == 0
\* 1 << exp seconds.
Backoff(i) == <<1, 2, 4, 8, 16, 32>>[1 + (IF i > MaxExp THEN MaxExp ELSE i)]

Refused(h) ==
  /\ pc[h] = "insert" /\ row # NoHandle
  /\ IF tries[h] < MaxRetries
     THEN Goto(h, "sleep") /\ timer' = [timer EXCEPT ![h] = Backoff(tries[h])]
     ELSE Goto(h, "gaveup") /\ UNCHANGED timer
  /\ UNCHANGED <<row, left, acquired, want, lease, tries, hindered>>

Wake(h) ==
  /\ pc[h] = "sleep" /\ timer[h] = 0
  /\ Goto(h, "clean") /\ tries' = [tries EXCEPT ![h] = @ + 1]
  /\ UNCHANGED <<row, left, acquired, want, lease, timer, hindered>>

\* The caller's context ends.
Stop(h) ==
  /\ pc[h] \in {"clean", "sleep"} /\ Done(h)
  /\ UNCHANGED <<row, left, acquired, hindered>>

(***************************************************************************)
(* Under the lock.                                                         *)
(***************************************************************************)
ExtendBegin(h) ==
  /\ pc[h] = "inside" /\ acquired[h] /\ Goto(h, "extend")
  /\ want' = [want EXCEPT ![h] = NewExpiry(h)]
  /\ UNCHANGED <<row, left, acquired, lease, tries, timer, hindered>>

\* Wrong variant: the expiry is renewed whoever holds the row.
ExtendAnyone(h) ==
  /\ pc[h] = "extend" /\ Goto(h, "inside")
  /\ row # NoHandle /\ ValidFor(h) /\ left' = want[h] /\ lease' = [lease EXCEPT ![h] = want[h]] /\ Hinder(h)
  /\ UNCHANGED <<acquired, row, want, tries, timer>>

\* UpdateLockExpiry: renewed; not held (l.acquired is cleared); or an error, with
\* the write made or not.
Extend(h) ==
  /\ pc[h] = "extend" /\ Goto(h, "inside")
  /\ \/ row = h /\ ValidFor(h) /\ left' = want[h] /\ Hinder(h)
        /\ lease' = [lease EXCEPT ![h] = want[h]] /\ UNCHANGED acquired
     \/ ~(row = h /\ ValidFor(h)) /\ acquired' = [acquired EXCEPT ![h] = FALSE] /\ UNCHANGED <<left, lease, hindered>>
     \/ row = h /\ ValidFor(h) /\ left' = want[h] /\ Hinder(h) /\ UNCHANGED <<acquired, lease>>
     \/ UNCHANGED <<acquired, left, lease, hindered>>
  /\ UNCHANGED <<row, want, tries, timer>>

\* IsHeld clears l.acquired when the row is gone, another's, or expired.
IsHeld(h) ==
  /\ pc[h] = "inside" /\ acquired[h] /\ (row # h \/ ExpiredFor(h))
  /\ acquired' = [acquired EXCEPT ![h] = FALSE]
  /\ UNCHANGED <<row, left, pc, want, lease, tries, timer, hindered>>

\* Wrong variant: ReleaseLock deletes by key alone.
UnlockAnyone(h) ==
  /\ pc[h] = "inside" /\ acquired[h] /\ Done(h) /\ Drop
  /\ acquired' = [acquired EXCEPT ![h] = FALSE]
  /\ UNCHANGED hindered

\* ReleaseLock deletes the row of this holder; an error leaves l.acquired, with
\* the row deleted or not.  Without l.acquired the store is not asked.
Unlock(h) ==
  /\ pc[h] = "inside" /\ Done(h)
  /\ \/ acquired[h] /\ row = h /\ Drop /\ acquired' = [acquired EXCEPT ![h] = FALSE]
     \/ acquired[h] /\ row # h /\ acquired' = [acquired EXCEPT ![h] = FALSE] /\ UNCHANGED <<row, left>>
     \/ acquired[h] /\ row = h /\ Drop /\ UNCHANGED acquired
     \/ UNCHANGED <<acquired, row, left>>
  /\ UNCHANGED hindered

\* The process dies, anywhere; the row stays.
Crash(h) ==
  /\ pc[h] # "idle" /\ Done(h)
  /\ acquired' = [acquired EXCEPT ![h] = FALSE]
  /\ UNCHANGED <<row, left, hindered>>

\* CleanupExpiredLocks, on the clock of h's process.
CleanupExpiredLocks(h) ==
  /\ row # NoHandle /\ ExpiredFor(h) /\ Drop
  /\ UNCHANGED <<pc, acquired, want, lease, tries, timer, hindered>>

Later(t) == IF t > Past THEN t - 1 ELSE t

Tick ==
  /\ left' = Later(left)
  /\ want' = [h \in Handles |-> Later(want[h])] /\ lease' = [h \in Handles |-> Later(lease[h])]
  /\ timer' = [h \in Handles |-> IF timer[h] > 0 THEN timer[h] - 1 ELSE 0]
  /\ UNCHANGED <<row, pc, acquired, tries, hindered>>

Step(h) ==
  \/ Begin(h) \/ Clean(h) \/ Insert(h) \/ InsertErrs(h) \/ Refused(h) \/ Wake(h) \/ Stop(h)
  \/ ExtendBegin(h) \/ Extend(h) \/ IsHeld(h) \/ Unlock(h) \/ Crash(h) \/ CleanupExpiredLocks(h)

Next == Tick \/ \E h \in Handles : Step(h)

Spec == Init /\ [][Next]_vars

(***************************************************************************)
(* Properties.                                                             *)
(***************************************************************************)
\* A handle knows it holds the lock while what it last wrote has not expired on
\* any clock.
Leased(h) == pc[h] \in Inside /\ acquired[h] /\ lease[h] >= MaxSkew
Leaseholders == {h \in Handles : Leased(h)}

\* No two handles hold unexpired leases, whatever calls fail or arrive late,
\* whoever is slow, crashes, or cleans up on a fast clock.
LeaseExclusive == \A g, h \in Handles : Leased(g) /\ Leased(h) => g = h

\* As long as it has not expired on the fastest clock, a row is removed or
\* replaced only by its own holder's Unlock: a slow former holder's Unlock,
\* Extend or clean-up never takes it from the next one.
NotStolen ==
  [][\A h \in Handles : row = h /\ row' # h /\ left >= MaxSkew => pc[h] = "inside" /\ pc'[h] = "idle"]_vars

\* LockWithRetry does not give up on a lock that a dead process left behind: its
\* waits add up to more than the TTL, so it fails only if somebody got or renewed
\* the lock meanwhile (or its own clean-up call failed).
OutlivesOrphan == \A h \in Handles : pc[h] = "gaveup" => hindered[h]

\* The lock table implements an exclusive lock, with the unexpired leases as its
\* holders: a lease ends by Unlock or by time and only then begins another.
Exclusive == INSTANCE ExclusiveLock WITH Clients <- Handles, holders <- Leaseholders
ImplementsLock == Exclusive!Spec
====
