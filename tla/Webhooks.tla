-------------------------------- MODULE Webhooks --------------------------------
(***************************************************************************)
(* Async jobs and the webhooks that announce their end: AsyncJobExecutor   *)
(* and its cleaner (framework/logstore/asyncjob.go), the Dispatcher        *)
(* (framework/webhooks/dispatcher.go), the webhook_jobs queue              *)
(* (framework/configstore/rdb.go) and the redelivery endpoint              *)
(* (handlers/webhooks.go).                                                 *)
(*                                                                         *)
(* A job has one delivery, with the same id through every attempt and      *)
(* redelivery.  Times are ticks of one clock; the nodes share it.          *)
(***************************************************************************)
EXTENDS Naturals, FiniteSets

CONSTANTS
  Nodes,          \* processes, each with an executor and a Dispatcher
  RunnerId,       \* a node's runnerID; on a single node it is empty
  JobIds,         \* async jobs
  Workers,        \* goroutines of the dispatchers
  Events,         \* the ends the endpoint subscribes to
  Nil,
  Cap,            \* maxConcurrentDeliveries
  MaxRetries,     \* tuning.maxRetries
  LeaseTime,      \* max(2 * attemptTimeout, 30 s)
  Backoff,        \* retryBackoff
  MaxNow,         \* bound: the clock
  MaxFaults,      \* bound: store calls that fail
  MaxStops,       \* bound: crashes
  MaxEdits,       \* bound: changes of the endpoint
  MaxRedeliveries \* bound: redeliveries

ASSUME WebhooksAssumption ==
  /\ Cap \in Nat \ {0} /\ MaxRetries \in Nat /\ LeaseTime \in Nat \ {0} /\ Backoff \in Nat
  /\ MaxNow \in Nat /\ MaxFaults \in Nat /\ MaxStops \in Nat /\ MaxEdits \in Nat
  /\ MaxRedeliveries \in Nat
  /\ Events \subseteq {"completed", "failed"}
  /\ Nil \notin Nodes /\ Nil \notin JobIds /\ \A n \in Nodes : RunnerId[n] # Nil

VARIABLES
  status,     \* the async job's row: "none", pending .. failed, "gone" when reaped or expired
  ex,         \* its executor: the label it is at
  home,       \* the node that runs it
  end,        \* the end the executor has come to, "" before
  tries,      \* inserts of the queue row tried so far
  epRow, ep,  \* the endpoint's row, and each node's copy of it: "on", "off", "gone"
  editing,    \* the edit a node's handler has written and not yet reloaded, "" for none
  queued, count, next, by, until, \* the queue row: exists, attempt_count, next_attempt_at, the claim
  pc, on, job, snap, seen, lease, at, out, touch, \* a delivery goroutine
  slots,      \* perEndpoint, of each node
  streak,     \* the endpoint's consecutive_failures, 1 for any number above 0: nothing reads it
  history,    \* a job's delivery records since it was queued last: its outcomes
  now,
  claims,     \* history: claims won on a job's row
  ticket,     \* history: the claim a goroutine has won
  late,       \* history: jobs claimed with an attempt count that was stale
  told,       \* history: the statuses a job's receiver was told
  faults, stops, edits, redeliveries

async  == <<status, ex, home, end, tries>>
row    == <<queued, count, next, by, until, claims>>
go     == <<pc, on, job, snap, seen, lease, at, out, touch, ticket>>
budget == <<faults, stops, edits, redeliveries>>
endpoint == <<epRow, ep, editing>>
vars == <<async, endpoint, row, go, slots, streak, history, now, late, told, budget>>

Ends == {"completed", "failed"}
Statuses == {"none", "pending", "processing", "gone"} \cup Ends
Outcomes == {"delivered", "retryable", "permanent", "exhausted"}
Settled == Outcomes \ {"retryable"}
Claimed == {"read", "send", "record", "queue", "counters"}
enqueueAttempts == 3

\* The owners a claim can bear.
Ids == {RunnerId[n] : n \in Nodes} \cup {Nil}

\* Rows, executors and goroutines are in the states their columns and labels name.
TypeOK ==
  /\ status \in [JobIds -> Statuses]
  /\ ex \in [JobIds -> {"none", "mark", "run", "finish", "enqueue", "done"}]
  /\ end \in [JobIds -> Ends \cup {""}]
  /\ queued \in [JobIds -> BOOLEAN] /\ count \in [JobIds -> Nat]
  /\ by \in [JobIds -> Ids] /\ until \in [JobIds -> Nat]
  /\ pc \in [Workers -> {"idle", "listed", "claim"} \cup Claimed]
  /\ on \in [Workers -> Nodes \cup {Nil}] /\ job \in [Workers -> JobIds \cup {Nil}]
  /\ snap \in [Workers -> Nat] /\ lease \in [Workers -> Nat]
  /\ out \in [Workers -> Outcomes \cup {""}]
  /\ history \in [JobIds -> SUBSET Outcomes] /\ now \in Nat
  /\ claims \in [JobIds -> Nat] /\ ticket \in [Workers -> Nat]
  /\ told \in [JobIds -> SUBSET Statuses]

Init ==
  /\ status = [j \in JobIds |-> "none"] /\ ex = [j \in JobIds |-> "none"]
  /\ home = [j \in JobIds |-> Nil] /\ end = [j \in JobIds |-> ""] /\ tries = [j \in JobIds |-> 0]
  /\ epRow = "on" /\ ep = [n \in Nodes |-> "on"] /\ editing = [n \in Nodes |-> ""]
  /\ queued = [j \in JobIds |-> FALSE] /\ count = [j \in JobIds |-> 0]
  /\ next = [j \in JobIds |-> 0] /\ by = [j \in JobIds |-> Nil] /\ until = [j \in JobIds |-> 0]
  /\ pc = [w \in Workers |-> "idle"] /\ on = [w \in Workers |-> Nil] /\ job = [w \in Workers |-> Nil]
  /\ snap = [w \in Workers |-> 0] /\ seen = [w \in Workers |-> "on"]
  /\ lease = [w \in Workers |-> 0] /\ at = [w \in Workers |-> 0]
  /\ out = [w \in Workers |-> ""] /\ touch = [w \in Workers |-> FALSE]
  /\ slots = [n \in Nodes |-> 0] /\ streak = 0
  /\ history = [j \in JobIds |-> {}] /\ now = 0
  /\ claims = [j \in JobIds |-> 0] /\ ticket = [w \in Workers |-> 0] /\ late = {}
  /\ told = [j \in JobIds |-> {}]
  /\ faults = MaxFaults /\ stops = MaxStops /\ edits = MaxEdits /\ redeliveries = MaxRedeliveries

\* A store call that fails.
Faulty == faults > 0 /\ faults' = faults - 1
rest == <<stops, edits, redeliveries>>

(***************************************************************************)
(* The executor: submit, mark processing, run, write the end, announce it. *)
(***************************************************************************)
Goto(j, l) == ex' = [ex EXCEPT ![j] = l]
quiet == <<endpoint, go, slots, streak, now, late, told>>

\* SubmitJob with a webhook refuses an endpoint that is missing or disabled.
SubmitJob(n, j) ==
  /\ ex[j] = "none" /\ ep[n] = "on"
  /\ status' = [status EXCEPT ![j] = "pending"] /\ home' = [home EXCEPT ![j] = n] /\ Goto(j, "mark")
  /\ UNCHANGED <<end, tries, row, history, quiet, budget>>

\* A failed update is logged and the operation is run all the same.
MarkProcessing(j) ==
  /\ ex[j] = "mark" /\ Goto(j, "run")
  /\ \/ status' = [status EXCEPT ![j] = IF @ = "gone" THEN @ ELSE "processing"] /\ UNCHANGED faults
     \/ Faulty /\ UNCHANGED status
  /\ UNCHANGED <<home, end, tries, row, history, quiet, rest>>

\* A panic and a result that cannot be encoded are failures too.
Operation(j) ==
  /\ ex[j] = "run" /\ Goto(j, "finish")
  /\ \E e \in Ends : end' = [end EXCEPT ![j] = e]
  /\ UNCHANGED <<status, home, tries, row, history, quiet, budget>>

\* Wrong variant: the webhook is announced although the end was not written.
FinishAnyway(j) ==
  /\ ex[j] = "finish" /\ Goto(j, "enqueue")
  /\ \/ status' = [status EXCEPT ![j] = IF @ = "gone" THEN @ ELSE end[j]] /\ UNCHANGED faults
     \/ Faulty /\ UNCHANGED status
  /\ UNCHANGED <<home, end, tries, row, history, quiet, rest>>

\* An update of a row that was reaped changes nothing and is no error.
Finish(j) ==
  /\ ex[j] = "finish"
  /\ \/ /\ status' = [status EXCEPT ![j] = IF @ = "gone" THEN @ ELSE end[j]]
        /\ Goto(j, "enqueue") /\ UNCHANGED faults
     \/ Faulty /\ Goto(j, "done") /\ UNCHANGED status
  /\ UNCHANGED <<home, end, tries, row, history, quiet, rest>>

\* CreateWebhookJob: an unattempted, unclaimed row that is due at once.
Insert(j) ==
  /\ queued' = [queued EXCEPT ![j] = TRUE] /\ count' = [count EXCEPT ![j] = 0]
  /\ next' = [next EXCEPT ![j] = now] /\ by' = [by EXCEPT ![j] = Nil]
  /\ until' = [until EXCEPT ![j] = 0] /\ history' = [history EXCEPT ![j] = {}]
  /\ UNCHANGED claims

\* EnqueueJobEvent: nothing for an endpoint that does not want it.
Unwanted(j) ==
  /\ ex[j] = "enqueue" /\ tries[j] = 0 /\ (ep[home[j]] # "on" \/ end[j] \notin Events)
  /\ Goto(j, "done")
  /\ UNCHANGED <<status, home, end, tries, row, history, quiet, budget>>

\* An insert; the row may be there although its answer was lost, and then the
\* next insert finds it.
EnqueueJobEvent(j) ==
  /\ ex[j] = "enqueue" /\ (tries[j] = 0 => ep[home[j]] = "on" /\ end[j] \in Events)
  /\ \/ /\ IF queued[j] THEN UNCHANGED <<row, history>> ELSE Insert(j)
        /\ Goto(j, "done") /\ UNCHANGED <<tries, faults>>
     \/ /\ Faulty /\ tries' = [tries EXCEPT ![j] = @ + 1]
        /\ Goto(j, IF tries[j] + 1 = enqueueAttempts THEN "done" ELSE "enqueue")
        /\ IF queued[j] THEN UNCHANGED <<row, history>> ELSE Insert(j) \/ UNCHANGED <<row, history>>
  /\ UNCHANGED <<status, home, end, quiet, rest>>

\* The result's TTL lapses; the cleaner takes what is stuck in processing.
Reap(j) ==
  /\ status[j] \in Ends \cup {"processing"}
  /\ status' = [status EXCEPT ![j] = "gone"]
  /\ UNCHANGED <<ex, home, end, tries, row, history, quiet, budget>>

\* redeliverWebhook: the same id again, unless it is still in the queue.
Redeliver(j) ==
  /\ history[j] # {} /\ (\E n \in Nodes : ep[n] = "on") /\ ~queued[j]
  /\ redeliveries > 0 /\ redeliveries' = redeliveries - 1
  /\ Insert(j)
  /\ UNCHANGED <<async, quiet, faults, stops, edits>>

(***************************************************************************)
(* The dispatcher: list what is due, reserve a slot, claim, attempt.       *)
(***************************************************************************)
Due(j) == queued[j] /\ next[j] <= now /\ until[j] < now + (IF by[j] = Nil THEN 1 ELSE 0)

Step(w, l) == pc' = [pc EXCEPT ![w] = l]
calm == <<async, endpoint, now, told, rest>>

\* dispatchOnce for one job: the goroutine keeps the row as it was listed.
Offer(n, w, j) ==
  /\ pc[w] = "idle" /\ Due(j) /\ slots[n] < Cap
  /\ slots' = [slots EXCEPT ![n] = @ + 1] /\ Step(w, "listed")
  /\ on' = [on EXCEPT ![w] = n] /\ job' = [job EXCEPT ![w] = j]
  /\ snap' = [snap EXCEPT ![w] = count[j]]
  /\ UNCHANGED <<seen, lease, at, out, touch, ticket, row, streak, history, late, faults, calm>>

\* processDue begins: it looks the endpoint up and computes its lease.
Resolve(w) ==
  /\ pc[w] = "listed" /\ Step(w, "claim")
  /\ seen' = [seen EXCEPT ![w] = ep[on[w]]] /\ lease' = [lease EXCEPT ![w] = now + LeaseTime]
  /\ UNCHANGED <<on, job, snap, at, out, touch, ticket, slots, row, streak, history, late, faults, calm>>

\* The goroutines of W are gone.
Gone(W) ==
  /\ pc' = [w \in Workers |-> IF w \in W THEN "idle" ELSE pc[w]]
  /\ on' = [w \in Workers |-> IF w \in W THEN Nil ELSE on[w]]
  /\ job' = [w \in Workers |-> IF w \in W THEN Nil ELSE job[w]]
  /\ snap' = [w \in Workers |-> IF w \in W THEN 0 ELSE snap[w]]
  /\ seen' = [w \in Workers |-> IF w \in W THEN "on" ELSE seen[w]]
  /\ lease' = [w \in Workers |-> IF w \in W THEN 0 ELSE lease[w]]
  /\ at' = [w \in Workers |-> IF w \in W THEN 0 ELSE at[w]]
  /\ out' = [w \in Workers |-> IF w \in W THEN "" ELSE out[w]]
  /\ touch' = [w \in Workers |-> w \notin W /\ touch[w]]
  /\ ticket' = [w \in Workers |-> IF w \in W THEN 0 ELSE ticket[w]]

\* Wrong variant: a slot that was lost in the race is not given back.
LeaveHolding(w) == Gone({w}) /\ slots' = [slots EXCEPT ![on[w]] = IF pc[w] = "claim" THEN @ ELSE @ - 1]

\* processDue returns: its slot is free.
Leave(w) == Gone({w}) /\ slots' = [slots EXCEPT ![on[w]] = @ - 1]

TakeRow(w) ==
  LET j == job[w] IN
  /\ by' = [by EXCEPT ![j] = RunnerId[on[w]]] /\ until' = [until EXCEPT ![j] = lease[w]]
  /\ claims' = [claims EXCEPT ![j] = @ + 1]
  /\ UNCHANGED <<queued, count, next>>

\* ClaimWebhookJob won; the attempt begins.
Claim(w) ==
  /\ pc[w] = "claim" /\ Due(job[w]) /\ lease[w] > now
  /\ TakeRow(w) /\ ticket' = [ticket EXCEPT ![w] = claims[job[w]] + 1]
  /\ at' = [at EXCEPT ![w] = now] /\ Step(w, "read")
  /\ late' = IF snap[w] # count[job[w]] THEN late \cup {job[w]} ELSE late
  /\ UNCHANGED <<on, job, snap, seen, lease, out, touch, slots, streak, history, faults, calm>>

\* Lost, refused or failed, the last perhaps after the row was claimed.
NotClaimed(w) ==
  /\ pc[w] = "claim" /\ Leave(w)
  /\ \/ ~(Due(job[w]) /\ lease[w] > now) /\ UNCHANGED <<row, faults>>
     \/ Faulty /\ UNCHANGED row
     \/ Due(job[w]) /\ lease[w] > now /\ Faulty /\ TakeRow(w)
  /\ UNCHANGED <<streak, history, late, calm>>

\* The attempt's end, for finalize to persist.
Conclude(w, o, t) ==
  /\ Step(w, "record") /\ out' = [out EXCEPT ![w] = o] /\ touch' = [touch EXCEPT ![w] = t]
  /\ UNCHANGED <<on, job, snap, seen, lease, at, ticket, slots>>

\* attempt: without an endpoint there is nothing to send, nor when the stored result
\* cannot be rendered.  When the job cannot be read the row stays claimed until the
\* lease expires.
Read(w) ==
  /\ pc[w] = "read"
  /\ \/ Faulty /\ Leave(w)
     \/ (seen[w] = "on" => status[job[w]] # "gone") /\ Conclude(w, "permanent", FALSE) /\ UNCHANGED faults
     \/ /\ seen[w] = "on"
        /\ Step(w, "send") /\ UNCHANGED <<on, job, snap, seen, lease, at, out, touch, ticket, slots, faults>>
  /\ UNCHANGED <<row, streak, history, late, calm>>

\* Wrong variant: one retry too many.
OutcomeLate(n, o) == IF o = "retryable" /\ n > MaxRetries + 1 THEN "exhausted" ELSE o
Outcome(n, o) == IF o = "retryable" /\ n > MaxRetries THEN "exhausted" ELSE o

\* The body names the job's status, or the queued event's once the job is gone.
Body(j) == IF status[j] = "gone" THEN end[j] ELSE status[j]

Deliver(w) ==
  /\ pc[w] = "send"
  /\ told' = [told EXCEPT ![job[w]] = @ \cup {Body(job[w])}]
  /\ \E o \in {"delivered", "retryable", "permanent"} : Conclude(w, Outcome(snap[w] + 1, o), TRUE)
  /\ UNCHANGED <<row, streak, history, late, async, endpoint, now, rest, faults>>

\* Wrong variant: the attempt goes on although it could not be recorded.
RecordOrNot(w) ==
  /\ pc[w] = "record" /\ Step(w, "queue")
  /\ \/ history' = [history EXCEPT ![job[w]] = @ \cup {out[w]}] /\ UNCHANGED faults
     \/ Faulty /\ UNCHANGED history
  /\ UNCHANGED <<on, job, snap, seen, lease, at, out, touch, ticket, slots, row, streak, late, calm>>

\* finalize: history first; if that fails the row stays claimed.
Record(w) ==
  /\ pc[w] = "record"
  /\ \/ /\ history' = [history EXCEPT ![job[w]] = @ \cup {out[w]}] /\ Step(w, "queue")
        /\ UNCHANGED <<on, job, snap, seen, lease, at, out, touch, ticket, slots, faults>>
     \/ Faulty /\ Leave(w) /\ (UNCHANGED history \/ history' = [history EXCEPT ![job[w]] = @ \cup {out[w]}])
  /\ UNCHANGED <<row, streak, late, calm>>

\* The fence of RescheduleWebhookJob and DeleteWebhookJob.
\* Wrong variant: the runner's id alone.
HoldsById(w) == queued[job[w]] /\ by[job[w]] = RunnerId[on[w]]
Holds(w) == queued[job[w]] /\ by[job[w]] = RunnerId[on[w]] /\ until[job[w]] = lease[w]

Reschedule(j, n) ==
  /\ count' = [count EXCEPT ![j] = @ + 1] /\ next' = [next EXCEPT ![j] = n]
  /\ by' = [by EXCEPT ![j] = Nil] /\ until' = [until EXCEPT ![j] = 0]
  /\ UNCHANGED <<queued, claims>>

\* The row goes; nothing of it is left.
Retire(j) ==
  /\ queued' = [queued EXCEPT ![j] = FALSE] /\ count' = [count EXCEPT ![j] = 0]
  /\ next' = [next EXCEPT ![j] = 0] /\ by' = [by EXCEPT ![j] = Nil] /\ until' = [until EXCEPT ![j] = 0]
  /\ UNCHANGED claims

\* Then the queue row, whatever comes of it.
Requeue(w) ==
  LET j == job[w] IN
  /\ pc[w] = "queue"
  /\ IF touch[w] THEN Step(w, "counters") /\ UNCHANGED <<on, job, snap, seen, lease, at, out, touch, ticket, slots>>
     ELSE Leave(w)
  /\ \/ Holds(w) /\ out[w] = "retryable" /\ Reschedule(j, at[w] + Backoff) /\ UNCHANGED faults
     \/ Holds(w) /\ out[w] # "retryable" /\ Retire(j) /\ UNCHANGED faults
     \/ ~Holds(w) /\ UNCHANGED <<row, faults>>
     \/ Faulty /\ UNCHANGED row
  /\ UNCHANGED <<streak, history, late, calm>>

\* Then the endpoint's counters, if it is still there.
Count(w) ==
  /\ pc[w] = "counters" /\ Leave(w)
  /\ \/ /\ epRow # "gone" /\ streak' = (IF out[w] = "delivered" THEN 0 ELSE 1) /\ UNCHANGED faults
     \/ epRow = "gone" /\ UNCHANGED <<streak, faults>>
     \/ Faulty /\ UNCHANGED streak
  /\ UNCHANGED <<row, history, late, calm>>

(***************************************************************************)
(* The clock, the endpoint and crashes.  A node comes back at once: its    *)
(* dispatcher starts with empty hands.                                     *)
(***************************************************************************)
Tick ==
  /\ now < MaxNow /\ now' = now + 1
  /\ UNCHANGED <<async, endpoint, row, go, slots, streak, history, late, told, budget>>

\* updateWebhookEndpoint, deleteWebhookEndpoint: the row is written.  An update that
\* changes the URL resets the streak.  After a write whose answer was lost the
\* handler gives up.  Bound: a node serves one edit at a time.
EditEndpoint(n) ==
  /\ edits > 0 /\ edits' = edits - 1 /\ epRow # "gone" /\ editing[n] = ""
  /\ \/ epRow' \in {"on", "off", "gone"} \ {epRow} /\ UNCHANGED streak
     \/ epRow' \in {"on", "off"} /\ streak' = 0
  /\ \/ editing' = [editing EXCEPT ![n] = IF epRow' = "gone" THEN "delete" ELSE "update"] /\ UNCHANGED faults
     \/ Faulty /\ UNCHANGED editing
  /\ UNCHANGED <<async, ep, row, go, slots, history, now, late, told, stops, redeliveries>>

\* Then the node's own copy follows: dropped after a delete, read again after an
\* update, and left as it was when the row cannot be read.  The other nodes keep theirs.
ReloadEndpoint(n) ==
  /\ editing[n] # "" /\ editing' = [editing EXCEPT ![n] = ""]
  /\ \/ editing[n] = "delete" /\ ep' = [ep EXCEPT ![n] = "gone"] /\ UNCHANGED faults
     \/ editing[n] = "update" /\ ep' = [ep EXCEPT ![n] = IF epRow = "gone" THEN @ ELSE epRow] /\ UNCHANGED faults
     \/ editing[n] = "update" /\ Faulty /\ UNCHANGED ep
  /\ UNCHANGED <<async, epRow, row, go, slots, streak, history, now, late, told, rest>>

\* The node comes back with the endpoint as its row has it.
Crash(n) ==
  /\ stops > 0 /\ stops' = stops - 1
  /\ Gone({w \in Workers : on[w] = n}) /\ slots' = [slots EXCEPT ![n] = 0]
  /\ ex' = [j \in JobIds |-> IF home[j] = n /\ ex[j] # "none" THEN "done" ELSE ex[j]]
  /\ ep' = [ep EXCEPT ![n] = epRow] /\ editing' = [editing EXCEPT ![n] = ""]
  /\ UNCHANGED <<status, home, end, tries, epRow, row, streak, history, now, late, told, faults, edits, redeliveries>>

Execute(j) ==
  MarkProcessing(j) \/ Operation(j) \/ Finish(j) \/ Unwanted(j) \/ EnqueueJobEvent(j) \/ Reap(j) \/ Redeliver(j)

Work(w) == Resolve(w) \/ Claim(w) \/ NotClaimed(w) \/ Read(w) \/ Deliver(w) \/ Record(w) \/ Requeue(w) \/ Count(w)

Next ==
  \/ \E j \in JobIds : Execute(j) \/ \E n \in Nodes : SubmitJob(n, j) \/ \E w \in Workers : Offer(n, w, j)
  \/ \E w \in Workers : Work(w)
  \/ \E n \in Nodes : Crash(n) \/ EditEndpoint(n) \/ ReloadEndpoint(n)
  \/ Tick

Spec == Init /\ [][Next]_vars

(***************************************************************************)
(* Properties.                                                             *)
(***************************************************************************)
\* The lease is an exact fence: whoever the row's claim lets through made the
\* row's latest claim, although all claims of a single node bear the same id.
FenceExact == \A w \in Workers : pc[w] \in Claimed \ {"counters"} /\ Holds(w) => ticket[w] = claims[job[w]]

\* A delivery that left the queue is accounted for: it has a record that says
\* how it ended, through crashes and failed writes.
RetiredIsRecorded ==
  \A j \in JobIds : claims[j] > 0 /\ ~queued[j] => history[j] \cap Settled # {}

\* The receiver is told what a poll of the job shows, and of one end only.
ToldTheTruth ==
  \A j \in JobIds :
    /\ told[j] \subseteq {end[j]}
    /\ told[j] # {} /\ status[j] # "gone" => told[j] = {status[j]}

\* A delivery is retried MaxRetries times at most, unless a goroutine claimed it
\* with a row listed before somebody else's attempt.
RetriesBounded == \A j \in JobIds \ late : count[j] <= MaxRetries

\* Slots are taken by goroutines at work and by nobody else.
SlotsExact == \A n \in Nodes : slots[n] = Cardinality({w \in Workers : on[w] = n})

====
