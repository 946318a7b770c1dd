---------------------------------- MODULE Jobs ----------------------------------
(***************************************************************************)
(* Background jobs: the Runner of framework/sidekiq/sidekiq.go over the    *)
(* sidekiq table (framework/configstore/sidekiq.go), with the cost         *)
(* recalculation of plugins/logging/costrecalc.go as the handler.          *)
(*                                                                         *)
(* A job is a row.  Runners (processes) claim rows by a conditional        *)
(* UPDATE, renew them by heartbeats and settle them with writes fenced on  *)
(* runner_id and status.  A row whose heartbeat lapsed may be claimed by   *)
(* anyone, its owner still at work included.  The runner_id of a process   *)
(* is a parameter of sidekiq.New: the server passes "" in every process,   *)
(* a cluster is meant to pass node ids.                                    *)
(*                                                                         *)
(* The store is a database that may run at READ COMMITTED: a statement     *)
(* reads other rows as they were when it began, and its own row as it is.  *)
(*                                                                         *)
(* The clock is not modelled: live[j] says updated_at >= staleBefore, and  *)
(* Lapse(j) is the passing of StaleAfter without a write to the row.       *)
(***************************************************************************)
EXTENDS Naturals

CONSTANTS
  Runners,      \* the processes
  Ids, NoId,    \* the values of runner_id, and the empty one
  Namings,      \* the ways in which the processes may be given their runner_id
  JobIds,       \* the ids of the jobs that may be enqueued
  Gos,          \* the goroutines that run jobs
  Keys,         \* partitioning keys
  KeyOf,        \* a job's PartitioningKey, or NoKey
  Recalcs,      \* the jobs that come from POST /api/logs/recalculate-cost
  Unwanted,     \* bound: the jobs that are cancelled, once on each runner
  NoKey, NoGo, NoRunner, NoJob,
  Caps,         \* the values of maxConcurrent
  MaxAttempts,  \* MaxAttempts
  Pages,        \* the batches a handler walks through
  MaxTrouble    \* bound: store calls that fail in a running process, heartbeats that
                \* lapse although the owner is at work, crashes and shutdowns

ASSUME JobsAssumption ==
  /\ Caps \subseteq Nat \ {0} /\ MaxAttempts \in Nat \ {0} /\ Pages \in Nat
  /\ MaxTrouble \in Nat /\ NoId \in Ids /\ Namings \subseteq [Runners -> Ids]
  /\ NoKey \notin Keys /\ NoGo \notin Gos /\ NoRunner \notin Runners /\ NoJob \notin JobIds
  /\ KeyOf \in [JobIds -> Keys \cup {NoKey}]
  /\ Recalcs \subseteq JobIds /\ Unwanted \subseteq JobIds

VARIABLES
  status, owner, attempts, cursor, live, \* the row: status, runner_id, attempts, metadata, heartbeat
  born, clock,    \* created_at as a rank, 0 before it is stamped, and the last rank given
  ahead,          \* history: the rows that existed when a row was inserted
  runnerID,       \* r.runnerID
  slots,          \* cap(r.sem), the same in every process
  up,             \* a runner: "up", "stopping" (baseCtx cancelled), "down"
  sem,            \* len(r.sem)
  inflight,       \* r.inflight
  jobCancels,     \* r.jobCancels: the goroutine whose context a job's cancel ends
  listed,         \* what is left of dispatchOnce's list
  pc, on, job,    \* a goroutine: where it is, its runner and its job
  ticket,         \* the attempts its claim wrote
  cur,            \* the cursor its handler holds
  dead,           \* jobCtx is cancelled
  entering,       \* Enqueue calls between the row and spawn
  cancelling,     \* Cancel calls between the row and cancelLocal
  asked,          \* recalculations that passed the in-flight check
  told,           \* history: Cancel calls that returned
  blind,          \* history: goroutines whose cancellation check failed
  lapsed,         \* history: jobs whose heartbeat lapsed
  shared,         \* history: jobs taken over from a process at work that has the same runner_id
  starts,         \* history: how often a job's handler was started
  trouble

row    == <<status, owner, attempts, cursor, live>>
runner == <<up, sem, inflight, jobCancels, listed>>
go     == <<pc, on, job, ticket, cur, dead>>
side   == <<runnerID, slots, born, clock, ahead, entering, cancelling, asked, told, lapsed>>
vars == <<row, runner, go, side, blind, shared, starts, trouble>>

Terminal == {"completed", "failed", "cancelled"}
InFlight == {"pending", "running"}

\* claim .. finalize hold a slot, recheck .. finalize are in r.jobCancels, and
\* handler .. finalize have a heartbeat; a panicking goroutine has dropped both.
Holding    == {"claim", "take", "fetch", "exhaust", "register", "recheck", "handler",
               "checkpoint", "complete", "erred", "fail", "settle", "finalize", "panicked"}
Registered == {"recheck", "handler", "checkpoint", "complete", "erred", "fail", "settle", "finalize"}
Beating    == Registered \ {"recheck"}
Claimed    == Holding \ {"claim", "take"}
Fetched    == Claimed \ {"fetch"}

Busy(r) == {w \in Gos : pc[w] # "idle" /\ on[w] = r}

\* Rows, runners and goroutines are in the states their columns and labels name.
TypeOK ==
  /\ status \in [JobIds -> {"none"} \cup InFlight \cup Terminal]
  /\ owner \in [JobIds -> Ids] /\ runnerID \in [Runners -> Ids]
  /\ attempts \in [JobIds -> Nat] /\ born \in [JobIds -> Nat] /\ clock \in Nat
  /\ cursor \in [JobIds -> 0 .. Pages]
  /\ ahead \in [JobIds -> SUBSET JobIds] /\ entering \subseteq Runners \X JobIds
  /\ live \in [JobIds -> BOOLEAN]
  /\ inflight \in [Runners -> SUBSET JobIds]
  /\ jobCancels \in [Runners -> [JobIds -> Gos \cup {NoGo}]]
  /\ listed \in [Runners -> SUBSET JobIds]
  /\ pc \in [Gos -> {"idle", "wait"} \cup Holding]
  /\ on \in [Gos -> Runners \cup {NoRunner}] /\ job \in [Gos -> JobIds \cup {NoJob}]
  /\ ticket \in [Gos -> Nat] /\ cur \in [Gos -> 0 .. Pages]
  /\ dead \in [Gos -> BOOLEAN]

Init ==
  /\ status = [j \in JobIds |-> "none"] /\ owner = [j \in JobIds |-> NoId]
  /\ attempts = [j \in JobIds |-> 0] /\ cursor = [j \in JobIds |-> 0]
  /\ live = [j \in JobIds |-> FALSE] /\ born = [j \in JobIds |-> 0] /\ clock = 0
  /\ ahead = [j \in JobIds |-> {}] /\ runnerID \in Namings /\ slots \in Caps
  /\ up = [r \in Runners |-> "up"] /\ sem = [r \in Runners |-> 0]
  /\ inflight = [r \in Runners |-> {}] /\ listed = [r \in Runners |-> {}]
  /\ jobCancels = [r \in Runners |-> [j \in JobIds |-> NoGo]]
  /\ pc = [w \in Gos |-> "idle"]
  /\ on = [w \in Gos |-> NoRunner] /\ job = [w \in Gos |-> NoJob]
  /\ ticket = [w \in Gos |-> 0] /\ cur = [w \in Gos |-> 0]
  /\ dead = [w \in Gos |-> FALSE]
  /\ entering = {} /\ cancelling = {} /\ asked = {} /\ told = {}
  /\ blind = {} /\ lapsed = {} /\ shared = {}
  /\ starts = [j \in JobIds |-> 0]
  /\ trouble = MaxTrouble

(***************************************************************************)
(* Store calls.  They use baseCtx: every call of a stopping process fails. *)
(***************************************************************************)
Answers(w) == up[on[w]] = "up" /\ UNCHANGED trouble
Errs(w) ==
  \/ up[on[w]] = "stopping" /\ UNCHANGED trouble
  \/ up[on[w]] = "up" /\ trouble > 0 /\ trouble' = trouble - 1

\* The fence of every write of a runner to a row.
Named(w) == owner[job[w]] = runnerID[on[w]]
Owned(w, s) == Named(w) /\ status[job[w]] = s
Owns(w) == Owned(w, "running")

\* Wrong variant: fenced on runner_id alone.
OwnsAnyStatus(w) == Named(w)

SetRow(j, s, c) ==
  /\ status' = [status EXCEPT ![j] = s]
  /\ cursor' = [cursor EXCEPT ![j] = c]
  /\ UNCHANGED <<owner, attempts, live>>

(***************************************************************************)
(* A goroutine's end: its deferred calls, from stopHeartbeat to            *)
(* clearInflight.                                                          *)
(***************************************************************************)
Goto(w, l) == pc' = [pc EXCEPT ![w] = l]

Unregister(w) ==
  jobCancels' = IF pc[w] \in Registered
                THEN [jobCancels EXCEPT ![on[w]][job[w]] = NoGo] ELSE jobCancels

\* The goroutines of W are gone.
Gone(W) ==
  /\ pc' = [w \in Gos |-> IF w \in W THEN "idle" ELSE pc[w]]
  /\ on' = [w \in Gos |-> IF w \in W THEN NoRunner ELSE on[w]]
  /\ job' = [w \in Gos |-> IF w \in W THEN NoJob ELSE job[w]]
  /\ ticket' = [w \in Gos |-> IF w \in W THEN 0 ELSE ticket[w]]
  /\ cur' = [w \in Gos |-> IF w \in W THEN 0 ELSE cur[w]]
  /\ dead' = [w \in Gos |-> w \notin W /\ dead[w]]
  /\ blind' = blind \ W

\* Wrong variant: the id stays in r.inflight.
LeaveInflight(w) ==
  /\ Gone({w})
  /\ sem' = [sem EXCEPT ![on[w]] = IF pc[w] \in Holding THEN @ - 1 ELSE @]
  /\ Unregister(w)
  /\ UNCHANGED <<up, inflight, listed>>

Leave(w) ==
  /\ Gone({w})
  /\ sem' = [sem EXCEPT ![on[w]] = IF pc[w] \in Holding THEN @ - 1 ELSE @]
  /\ inflight' = [inflight EXCEPT ![on[w]] = @ \ {job[w]}]
  /\ Unregister(w)
  /\ UNCHANGED <<up, listed>>

(***************************************************************************)
(* Enqueue: the recalculation endpoint first looks for a job in flight,    *)
(* then stamps and inserts the row, then spawns a goroutine that waits for *)
(* a slot.                                                                 *)
(***************************************************************************)
CheckInFlight(j) ==
  /\ j \in Recalcs \ asked /\ status[j] = "none"
  /\ \A k \in Recalcs : status[k] \notin InFlight
  /\ asked' = asked \cup {j}
  /\ UNCHANGED <<row, runner, go, runnerID, slots, born, clock, ahead, entering, cancelling, told, lapsed, blind, shared, starts, trouble>>

Older(a, b) == born[a] < born[b]

\* A goroutine of runner r for job j, begun at label l.
Begin(w, r, j, l) ==
  /\ pc[w] = "idle"
  /\ pc' = [pc EXCEPT ![w] = l]
  /\ on' = [on EXCEPT ![w] = r] /\ job' = [job EXCEPT ![w] = j]
  /\ dead' = [dead EXCEPT ![w] = (up[r] # "up")]
  /\ inflight' = [inflight EXCEPT ![r] = @ \cup {j}]
  /\ UNCHANGED <<ticket, cur, blind, up, jobCancels>>

\* CreateSidekiqJob reads the clock before its INSERT, each process its own: rows may
\* appear in another order than their stamps have.
Stamp(j) ==
  /\ status[j] = "none" /\ born[j] = 0 /\ (j \in Recalcs => j \in asked)
  /\ clock' = clock + 1 /\ born' = [born EXCEPT ![j] = clock + 1]
  /\ UNCHANGED <<row, runner, go, runnerID, slots, ahead, entering, cancelling, asked, told, lapsed, blind, shared, starts, trouble>>

Enqueue(r, j) ==
  /\ up[r] = "up" /\ status[j] = "none" /\ born[j] # 0
  /\ status' = [status EXCEPT ![j] = "pending"]
  /\ ahead' = [ahead EXCEPT ![j] = {k \in JobIds : status[k] # "none"}]
  /\ entering' = entering \cup {<<r, j>>}
  /\ UNCHANGED <<owner, attempts, cursor, live, runner, go, runnerID, slots, born, clock, cancelling, asked, told, lapsed, blind, shared, starts, trouble>>

\* spawn, unless the dispatcher was quicker.
Spawn(r, j) ==
  /\ <<r, j>> \in entering /\ entering' = entering \ {<<r, j>>}
  /\ \/ j \in inflight[r] /\ UNCHANGED <<go, blind, up, inflight, jobCancels>>
     \/ j \notin inflight[r] /\ \E w \in Gos : Begin(w, r, j, "wait")
  /\ UNCHANGED <<row, sem, listed, runnerID, slots, born, clock, ahead, cancelling, asked, told, lapsed, shared, starts, trouble>>

\* spawn's select: a slot, or the runner's end.
AcquireSlot(w) ==
  /\ pc[w] = "wait" /\ sem[on[w]] < slots
  /\ sem' = [sem EXCEPT ![on[w]] = @ + 1] /\ Goto(w, "claim")
  /\ UNCHANGED <<row, up, inflight, jobCancels, listed, on, job, ticket, cur, dead, side, blind, shared, starts, trouble>>

Abandon(w) ==
  /\ pc[w] = "wait" /\ up[on[w]] = "stopping"
  /\ Leave(w)
  /\ UNCHANGED <<row, side, shared, starts, trouble>>

(***************************************************************************)
(* dispatchOnce: list what may be claimed, then start what fits.           *)
(***************************************************************************)
Claimable(j) == status[j] = "pending" \/ (status[j] = "running" /\ ~live[j])

Scan(r) ==
  /\ up[r] = "up" /\ listed[r] = {}
  /\ listed' = [listed EXCEPT ![r] = {j \in JobIds : Claimable(j)}]
  /\ UNCHANGED <<row, up, sem, inflight, jobCancels, go, side, blind, shared, starts, trouble>>

First(r, j) == j \in listed[r] /\ \A k \in listed[r] \ {j} : Older(j, k)

\* Already in flight on this runner: the next one.
Skip(r) ==
  /\ up[r] # "down"
  /\ \E j \in JobIds : First(r, j) /\ j \in inflight[r] /\ listed' = [listed EXCEPT ![r] = @ \ {j}]
  /\ UNCHANGED <<row, up, sem, inflight, jobCancels, go, side, blind, shared, starts, trouble>>

\* No slot: the rest is left for the next tick.
Full(r) ==
  /\ up[r] # "down" /\ sem[r] = slots
  /\ \E j \in JobIds : First(r, j) /\ j \notin inflight[r]
  /\ listed' = [listed EXCEPT ![r] = {}]
  /\ UNCHANGED <<row, up, sem, inflight, jobCancels, go, side, blind, shared, starts, trouble>>

Start(r, j) ==
  /\ up[r] # "down" /\ First(r, j) /\ sem[r] < slots
  /\ listed' = [listed EXCEPT ![r] = @ \ {j}]
  /\ sem' = [sem EXCEPT ![r] = @ + 1]
  /\ \E w \in Gos : Begin(w, r, j, "claim")
  /\ UNCHANGED <<row, side, shared, starts, trouble>>

\* Wrong variant: tryMarkInflight is not consulted.
DispatchAlways(r) == \E j \in JobIds : Start(r, j)

Dispatch(r) == \E j \in JobIds : j \notin inflight[r] /\ Start(r, j)

(***************************************************************************)
(* execute: claim, read the row again, register, check, run, settle.       *)
(***************************************************************************)
SameKey(a, b) == a # b /\ KeyOf[a] = KeyOf[b] /\ KeyOf[a] # NoKey

\* G1 and G2 of ClaimPartitionedSidekiqJob.
NoLiveSibling(j)  == \A k \in JobIds : SameKey(j, k) => ~(status[k] = "running" /\ live[k])
NoOlderPending(j) == \A k \in JobIds : SameKey(j, k) /\ Older(k, j) => status[k] # "pending"

\* Wrong variants: the job may pass a running sibling, or an older pending one.
MayClaimBesideLive(j)   == Claimable(j) /\ NoOlderPending(j)
MayClaimOutOfOrder(j)   == Claimable(j) /\ NoLiveSibling(j)
MayClaim(j) == Claimable(j) /\ NoLiveSibling(j) /\ NoOlderPending(j)

\* The UPDATE of a job with a key: the other rows of the key as the statement sees them ...
LookAround(w) ==
  /\ pc[w] = "claim" /\ KeyOf[job[w]] # NoKey /\ Answers(w) /\ MayClaim(job[w])
  /\ Goto(w, "take")
  /\ UNCHANGED <<row, runner, on, job, ticket, cur, dead, side, blind, shared, starts>>

\* ... and the row itself as it is when it is locked.
Claiming(w) == pc[w] = "take" \/ (pc[w] = "claim" /\ KeyOf[job[w]] = NoKey)

\* Another process at work on w's job, with the runner_id of w's process.
Double(w) ==
  \E v \in Gos : pc[v] \in Claimed /\ job[v] = job[w] /\ on[v] # on[w] /\ runnerID[on[v]] = runnerID[on[w]]

Claim(w) ==
  LET j == job[w] IN
  /\ Claiming(w) /\ Answers(w) /\ Claimable(j)
  /\ status' = [status EXCEPT ![j] = "running"] /\ owner' = [owner EXCEPT ![j] = runnerID[on[w]]]
  /\ attempts' = [attempts EXCEPT ![j] = @ + 1] /\ live' = [live EXCEPT ![j] = TRUE]
  /\ ticket' = [ticket EXCEPT ![w] = attempts[j] + 1]
  /\ shared' = IF Double(w) THEN shared \cup {j} ELSE shared
  /\ Goto(w, "fetch")
  /\ UNCHANGED <<cursor, runner, on, job, cur, dead, side, blind, starts>>

NotClaimed(w) ==
  /\ pc[w] \in {"claim", "take"}
  /\ \/ Answers(w) /\ (IF Claiming(w) THEN ~Claimable(job[w]) ELSE ~MayClaim(job[w]))
     \/ Errs(w)
  /\ Leave(w)
  /\ UNCHANGED <<row, side, shared, starts>>

\* Wrong variant: one attempt too many.
ExhaustedLate(n) == n > MaxAttempts
Exhausted(n) == n >= MaxAttempts

Fetch(w) ==
  /\ pc[w] = "fetch" /\ Answers(w)
  /\ cur' = [cur EXCEPT ![w] = cursor[job[w]]]
  /\ Goto(w, IF Exhausted(attempts[job[w]]) THEN "exhaust" ELSE "register")
  /\ UNCHANGED <<row, runner, on, job, ticket, dead, side, blind, shared, starts>>

\* The row stays running, owned by nobody at work.
FetchFails(w) ==
  /\ pc[w] = "fetch" /\ Errs(w) /\ Leave(w)
  /\ UNCHANGED <<row, side, shared, starts>>

Register(w) ==
  /\ pc[w] = "register" /\ Goto(w, "recheck")
  /\ jobCancels' = [jobCancels EXCEPT ![on[w]][job[w]] = w]
  /\ UNCHANGED <<row, up, sem, inflight, listed, on, job, ticket, cur, dead, side, blind, shared, starts, trouble>>

\* Wrong variant: the row is not read again after the registration.
NoRecheck(w) ==
  /\ pc[w] = "recheck" /\ Goto(w, "handler") /\ UNCHANGED <<trouble, dead, blind>>
  /\ starts' = [starts EXCEPT ![job[w]] = @ + 1]
  /\ UNCHANGED <<row, runner, on, job, ticket, cur, side, shared>>

Recheck(w) ==
  /\ pc[w] = "recheck" /\ Goto(w, "handler")
  /\ \/ Answers(w) /\ dead' = [dead EXCEPT ![w] = @ \/ status[job[w]] = "cancelled"] /\ UNCHANGED blind
     \/ Errs(w) /\ blind' = blind \cup {w} /\ UNCHANGED dead
  /\ starts' = [starts EXCEPT ![job[w]] = @ + 1]
  /\ UNCHANGED <<row, runner, on, job, ticket, cur, side, shared>>

(***************************************************************************)
(* The handler: a loop of batches, each followed by a checkpoint; it       *)
(* looks at its context only between batches.                              *)
(***************************************************************************)
Batch(w) ==
  /\ pc[w] = "handler" /\ ~dead[w] /\ cur[w] < Pages
  /\ cur' = [cur EXCEPT ![w] = @ + 1] /\ Goto(w, "checkpoint")
  /\ UNCHANGED <<row, runner, on, job, ticket, dead, side, blind, shared, starts, trouble>>

SaveCursor(w) ==
  /\ cursor' = [cursor EXCEPT ![job[w]] = cur[w]]
  /\ live' = [live EXCEPT ![job[w]] = TRUE]
  /\ UNCHANGED <<status, owner, attempts>>

Checkpoint(w) ==
  /\ pc[w] = "checkpoint"
  /\ \/ Answers(w) /\ Owns(w) /\ SaveCursor(w) /\ Goto(w, "handler")
     \/ ((Answers(w) /\ ~Owns(w)) \/ Errs(w)) /\ Goto(w, "erred") /\ UNCHANGED row
  /\ UNCHANGED <<runner, on, job, ticket, cur, dead, side, blind, shared, starts>>

\* The context is dead: a last checkpoint whose outcome is ignored.
StopEarly(w) ==
  /\ pc[w] = "handler" /\ dead[w] /\ Goto(w, "erred")
  /\ \/ Answers(w) /\ Owns(w) /\ SaveCursor(w)
     \/ ((Answers(w) /\ ~Owns(w)) \/ Errs(w)) /\ UNCHANGED row
  /\ UNCHANGED <<runner, on, job, ticket, cur, dead, side, blind, shared, starts>>

\* A last, short batch ends the loop without a look at the context.
Finish(w) ==
  /\ pc[w] = "handler" /\ cur[w] = Pages
  /\ Goto(w, "complete")
  /\ UNCHANGED <<row, runner, on, job, ticket, cur, dead, side, blind, shared, starts, trouble>>

HandlerErrs(w) ==
  /\ pc[w] = "handler" /\ Goto(w, "erred")
  /\ UNCHANGED <<row, runner, on, job, ticket, cur, dead, side, blind, shared, starts, trouble>>

HandlerPanics(w) ==
  /\ pc[w] = "handler" /\ Goto(w, "panicked") /\ Unregister(w)
  /\ UNCHANGED <<row, up, sem, inflight, listed, on, job, ticket, cur, dead, side, blind, shared, starts, trouble>>

(***************************************************************************)
(* The end of execute: Complete or Fail, and when the write is refused or  *)
(* fails, a look whether the job was cancelled meanwhile.                  *)
(***************************************************************************)
\* Wrong variant: completed_at is written whatever the status is.
CompleteAnyStatus(w) ==
  /\ pc[w] = "complete" /\ Answers(w) /\ OwnsAnyStatus(w)
  /\ SetRow(job[w], "completed", cur[w]) /\ Leave(w)
  /\ UNCHANGED <<side, shared, starts>>

Complete(w) ==
  /\ pc[w] = "complete" /\ Answers(w) /\ Owns(w)
  /\ SetRow(job[w], "completed", cur[w]) /\ Leave(w)
  /\ UNCHANGED <<side, shared, starts>>

\* jobCtx.Err() != nil && isCancelled: only then is it no failure.
ErrCheck(w) ==
  /\ pc[w] = "erred"
  /\ \/ dead[w] /\ Answers(w) /\ status[job[w]] = "cancelled" /\ Goto(w, "finalize")
     \/ ~dead[w] /\ Goto(w, "fail") /\ UNCHANGED trouble
     \/ dead[w] /\ ((Answers(w) /\ status[job[w]] # "cancelled") \/ Errs(w)) /\ Goto(w, "fail")
  /\ UNCHANGED <<row, runner, on, job, ticket, cur, dead, side, blind, shared, starts>>

\* FailSidekiqJob of a handler's error, of an exhausted job and of a panic; the
\* last keeps the metadata.
Fail(w) ==
  /\ pc[w] \in {"fail", "exhaust", "panicked"} /\ Answers(w) /\ Owns(w)
  /\ SetRow(job[w], "failed", IF pc[w] = "panicked" THEN cursor[job[w]] ELSE cur[w]) /\ Leave(w)
  /\ UNCHANGED <<side, shared, starts>>

Refused(w) ==
  /\ pc[w] \in {"complete", "fail"} /\ ((Answers(w) /\ ~Owns(w)) \/ Errs(w)) /\ Goto(w, "settle")
  /\ UNCHANGED <<row, runner, on, job, ticket, cur, dead, side, blind, shared, starts>>

GivesUp(w) ==
  /\ pc[w] \in {"exhaust", "panicked"} /\ ((Answers(w) /\ ~Owns(w)) \/ Errs(w)) /\ Leave(w)
  /\ UNCHANGED <<row, side, shared, starts>>

Settle(w) ==
  /\ pc[w] = "settle"
  /\ \/ Answers(w) /\ status[job[w]] = "cancelled" /\ Goto(w, "finalize") /\ UNCHANGED <<runner, on, job, ticket, cur, dead, blind>>
     \/ ((Answers(w) /\ status[job[w]] # "cancelled") \/ Errs(w)) /\ Leave(w)
  /\ UNCHANGED <<row, side, shared, starts>>

\* Wrong variant: the last snapshot is stored by any runner.
FinalizeUnfenced(w) ==
  /\ pc[w] = "finalize" /\ Leave(w)
  /\ \/ Answers(w) /\ status[job[w]] = "cancelled" /\ SetRow(job[w], "cancelled", cur[w])
     \/ ((Answers(w) /\ status[job[w]] # "cancelled") \/ Errs(w)) /\ UNCHANGED row
  /\ UNCHANGED <<side, shared, starts>>

Finalize(w) ==
  /\ pc[w] = "finalize" /\ Leave(w)
  /\ \/ Answers(w) /\ Owned(w, "cancelled") /\ SetRow(job[w], "cancelled", cur[w])
     \/ ((Answers(w) /\ ~Owned(w, "cancelled")) \/ Errs(w)) /\ UNCHANGED row
  /\ UNCHANGED <<side, shared, starts>>

(***************************************************************************)
(* Heartbeats, the passing of time, cancellation.                          *)
(***************************************************************************)
\* A refused heartbeat ends the handler's context; one that errs is retried.
Heartbeat(w) ==
  /\ pc[w] \in Beating /\ ~dead[w] /\ up[on[w]] = "up"
  /\ IF Owns(w) THEN live' = [live EXCEPT ![job[w]] = TRUE] /\ UNCHANGED dead
                ELSE dead' = [dead EXCEPT ![w] = TRUE] /\ UNCHANGED live
  /\ UNCHANGED <<status, owner, attempts, cursor, runner, pc, on, job, ticket, cur, side, blind, shared, starts, trouble>>

AtWork(j) == \E w \in Gos : pc[w] \in Claimed /\ job[w] = j /\ Named(w)

Lapse(j) ==
  /\ status[j] = "running" /\ live[j]
  /\ IF AtWork(j) THEN trouble > 0 /\ trouble' = trouble - 1 ELSE UNCHANGED trouble
  /\ live' = [live EXCEPT ![j] = FALSE] /\ lapsed' = lapsed \cup {j}
  /\ UNCHANGED <<status, owner, attempts, cursor, runner, go, runnerID, slots, born, clock, ahead, entering, cancelling, asked, told, blind, shared, starts>>

\* CancelSidekiqJob, then cancelLocal.
Cancel(r, j) ==
  /\ up[r] = "up" /\ status[j] # "none" /\ j \in Unwanted /\ <<r, j>> \notin cancelling \cup told
  /\ status' = [status EXCEPT ![j] = IF @ \in InFlight THEN "cancelled" ELSE @]
  /\ cancelling' = cancelling \cup {<<r, j>>}
  /\ UNCHANGED <<owner, attempts, cursor, live, runner, go, runnerID, slots, born, clock, ahead, entering, asked, told, lapsed, blind, shared, starts, trouble>>

CancelLocal(r, j) ==
  /\ <<r, j>> \in cancelling
  /\ cancelling' = cancelling \ {<<r, j>>} /\ told' = told \cup {<<r, j>>}
  /\ dead' = IF jobCancels[r][j] = NoGo THEN dead ELSE [dead EXCEPT ![jobCancels[r][j]] = TRUE]
  /\ UNCHANGED <<row, runner, pc, on, job, ticket, cur, runnerID, slots, born, clock, ahead, entering, asked, lapsed, blind, shared, starts, trouble>>

(***************************************************************************)
(* The process: Shutdown cancels baseCtx and waits; a crash drops all of   *)
(* it.  A new process has the old one's runner_id and an empty Runner.     *)
(***************************************************************************)
Shutdown(r) ==
  /\ up[r] = "up" /\ trouble > 0 /\ trouble' = trouble - 1
  /\ up' = [up EXCEPT ![r] = "stopping"]
  /\ dead' = [w \in Gos |-> dead[w] \/ w \in Busy(r)]
  /\ cancelling' = {c \in cancelling : c[1] # r}
  /\ UNCHANGED <<row, sem, inflight, jobCancels, listed, pc, on, job, ticket, cur, runnerID, slots, born, clock, ahead, entering, asked, told, lapsed, blind, shared, starts>>

\* wg.Wait returns: no goroutine is left, the dispatcher's included.
Stopped(r) ==
  /\ up[r] = "stopping" /\ Busy(r) = {} /\ listed[r] = {}
  /\ up' = [up EXCEPT ![r] = "down"] /\ entering' = {e \in entering : e[1] # r}
  /\ UNCHANGED <<row, sem, inflight, jobCancels, listed, go, runnerID, slots, born, clock, ahead, cancelling, asked, told, lapsed, blind, shared, starts, trouble>>

Crash(r) ==
  /\ up[r] # "down" /\ trouble > 0 /\ trouble' = trouble - 1
  /\ up' = [up EXCEPT ![r] = "down"]
  /\ Gone(Busy(r))
  /\ sem' = [sem EXCEPT ![r] = 0] /\ inflight' = [inflight EXCEPT ![r] = {}]
  /\ jobCancels' = [jobCancels EXCEPT ![r] = [j \in JobIds |-> NoGo]]
  /\ listed' = [listed EXCEPT ![r] = {}]
  /\ cancelling' = {c \in cancelling : c[1] # r} /\ entering' = {e \in entering : e[1] # r}
  /\ UNCHANGED <<row, runnerID, slots, born, clock, ahead, asked, told, lapsed, shared, starts>>

Restart(r) ==
  /\ up[r] = "down" /\ up' = [up EXCEPT ![r] = "up"]
  /\ UNCHANGED <<row, sem, inflight, jobCancels, listed, go, side, blind, shared, starts, trouble>>

Execute(w) ==
  \/ AcquireSlot(w) \/ Abandon(w) \/ LookAround(w) \/ Claim(w) \/ NotClaimed(w) \/ Fetch(w) \/ FetchFails(w)
  \/ Register(w) \/ Recheck(w) \/ Batch(w) \/ Checkpoint(w) \/ StopEarly(w) \/ Finish(w)
  \/ HandlerErrs(w) \/ HandlerPanics(w) \/ Complete(w) \/ ErrCheck(w) \/ Fail(w)
  \/ Refused(w) \/ GivesUp(w) \/ Settle(w) \/ Finalize(w)

Dispatcher(r) == Skip(r) \/ Full(r) \/ Dispatch(r)

Next ==
  \/ \E w \in Gos : Execute(w) \/ Heartbeat(w)
  \/ \E r \in Runners : Scan(r) \/ Dispatcher(r) \/ Shutdown(r) \/ Stopped(r) \/ Crash(r) \/ Restart(r)
  \/ \E j \in JobIds : CheckInFlight(j) \/ Stamp(j) \/ Lapse(j)
  \/ \E r \in Runners, j \in JobIds : Enqueue(r, j) \/ Spawn(r, j) \/ Cancel(r, j) \/ CancelLocal(r, j)

Spec == Init /\ [][Next]_vars

\* Goroutines run and handlers return; the dispatcher ticks; time passes over a row
\* nobody renews; a stopped process is started again.  A goroutine that waits for a
\* slot gets one: senders blocked on a Go channel are served in turn.
Fairness ==
  /\ \A w \in Gos : WF_vars(Execute(w)) /\ SF_vars(AcquireSlot(w))
  /\ \A r \in Runners : WF_vars(Scan(r) /\ listed' # listed) /\ WF_vars(Dispatcher(r))
                        /\ WF_vars(Stopped(r)) /\ WF_vars(Restart(r))
  /\ \A j \in JobIds : WF_vars(~AtWork(j) /\ Lapse(j))

FairSpec == Spec /\ Fairness

(***************************************************************************)
(* Properties.                                                             *)
(***************************************************************************)
\* The fence is exact: a goroutine whose runner_id is in the row made the row's
\* latest claim.  runner_id alone would not say so (a runner claims a job again
\* after it lapsed); it does because a runner never has two goroutines for one
\* job, whatever lapses, lists and restarts come between.  It fails in one way
\* only: the job was taken over from another process, still at work, that was
\* given the same runner_id, as every process of the server is.
FenceExact ==
  /\ \A w \in Gos : pc[w] \in Claimed /\ Named(w) => ticket[w] = attempts[job[w]] \/ job[w] \in shared
  /\ shared # {} => \E r, s \in Runners : r # s /\ runnerID[r] = runnerID[s]

\* a has the older stamp, and its row was there when b's was inserted.
InOrder(a, b) == Older(a, b) /\ a \in ahead[b]

\* Jobs of one partitioning key whose rows appeared in the order of their stamps
\* start in that order, although a claim reads the other rows before it writes.
StartedInOrder ==
  \A a, b \in JobIds : SameKey(a, b) /\ InOrder(a, b) /\ attempts[b] > 0 => status[a] # "pending"

\* Two jobs of one key are running only when the heartbeat of one of them has
\* lapsed, or their rows appeared in another order than their stamps have.
OverlapOnlyAfterLapse ==
  \A a, b \in JobIds :
    SameKey(a, b) /\ status[a] = "running" /\ status[b] = "running" /\ (InOrder(a, b) \/ InOrder(b, a))
      => a \in lapsed \/ b \in lapsed

\* A job that keeps killing its runner is started less than MaxAttempts times.
PoisonBounded == \A j \in JobIds : starts[j] < MaxAttempts

\* Once Cancel has returned on the runner that runs the job, the handler's context
\* is dead, however the call fell between claim, registration and check (unless
\* the check itself could not read the row).
CancelReaches ==
  \A w \in Gos :
    pc[w] \in Beating /\ w \notin blind /\ status[job[w]] = "cancelled" /\ <<on[w], job[w]>> \in told
      => dead[w]

\* A job never leaves completed, failed or cancelled (SidekiqTerminalStatuses).
TerminalIsFinal ==
  [][\A j \in JobIds : status[j] \in Terminal => status'[j] = status[j]]_vars

\* A checkpoint is never overwritten by an older one, also after a takeover and
\* when the last snapshot of a cancelled run arrives (unless the job was taken
\* over from a process at work that has the same runner_id).
CursorNeverBack == [][\A j \in JobIds \ shared : cursor'[j] >= cursor[j]]_vars

\* Every job that was enqueued is settled, through crashes, shutdowns, failed
\* store calls and lapsed heartbeats.
EveryJobSettles == \A j \in JobIds : status[j] \in InFlight ~> status[j] \in Terminal

====
