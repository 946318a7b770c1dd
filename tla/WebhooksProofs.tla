------------------------------ MODULE WebhooksProofs ------------------------------
(***************************************************************************)
(* Proofs about Webhooks, for any nodes, runner ids, jobs, goroutines and  *)
(* times.                                                                  *)
(***************************************************************************)
EXTENDS Webhooks, TLAPS, FiniteSetTheorems

\* An edit of the endpoint, and its reload, touch nothing of jobs, rows and goroutines.
LEMMA EndpointAlone ==
  ASSUME NEW n \in Nodes, EditEndpoint(n) \/ ReloadEndpoint(n)
  PROVE  UNCHANGED <<async, row, go, slots, history, now, late, told>>
  BY DEF EditEndpoint, ReloadEndpoint

\* What an insert of the executor leaves alone, and where it goes next.
LEMMA EnqueueKeeps ==
  ASSUME NEW j \in JobIds, EnqueueJobEvent(j)
  PROVE  /\ UNCHANGED <<status, home, end, go, slots, streak, now, late, told>>
         /\ ex[j] = "enqueue"
         /\ \E l \in {"done", "enqueue"} : ex' = [ex EXCEPT ![j] = l]
  BY DEF EnqueueJobEvent, Goto, quiet

LEMMA IdsFact == Nil \in Ids /\ \A n \in Nodes : RunnerId[n] \in Ids
BY DEF Ids

\* A goroutine at work has a node and a job; one that has ended its attempt has
\* an outcome.
Placed ==
  \A w \in Workers :
    /\ pc[w] # "idle" => on[w] \in Nodes /\ job[w] \in JobIds
    /\ pc[w] \in {"record", "queue", "counters"} => out[w] \in Outcomes

\* A delivery exists only for a job whose end was written.
Ended(j) == end[j] \in Ends /\ status[j] \in {end[j], "gone"} /\ ex[j] \in {"enqueue", "done"}
Attended(j) == \E w \in Workers : pc[w] # "idle" /\ job[w] = j

Announced ==
  \A j \in JobIds :
    /\ ex[j] = "enqueue" \/ queued[j] \/ history[j] # {} \/ told[j] # {} \/ Attended(j) => Ended(j)
    /\ ex[j] = "finish" => end[j] \in Ends
    /\ told[j] \subseteq {end[j]}

LEMMA Sums == \A m \in Nat : m + 1 \in Nat /\ m + LeaseTime \in Nat
BY WebhooksAssumption

LEMMA TypesStep == TypeOK /\ Placed /\ Announced /\ [Next]_vars => TypeOK'
<1> SUFFICES ASSUME TypeOK, Placed, Announced, [Next]_vars PROVE TypeOK'
  OBVIOUS
<1> USE WebhooksAssumption, IdsFact DEF TypeOK, Placed, Ends, Statuses, Outcomes, Claimed
<1>1. ASSUME NEW j \in JobIds, Execute(j) PROVE TypeOK'
  <2>1. CASE MarkProcessing(j)
    <3>1. CASE UNCHANGED status
      BY <2>1, <3>1 DEF MarkProcessing, Goto, async, row, go, budget, rest, quiet, calm
    <3>2. CASE status' = [status EXCEPT ![j] = IF @ = "gone" THEN @ ELSE "processing"]
      BY <2>1, <3>2 DEF MarkProcessing, Goto, async, row, go, budget, rest, quiet, calm
    <3> QED BY <2>1, <3>1, <3>2 DEF MarkProcessing
  <2>2. CASE Operation(j)
    <3>1. PICK e \in Ends : end' = [end EXCEPT ![j] = e] BY <2>2 DEF Operation
    <3> QED BY <2>2, <3>1 DEF Operation, Goto, async, row, go, budget, rest, quiet, calm
  <2>3. CASE Finish(j)
    <3>1. CASE Faulty /\ Goto(j, "done") /\ UNCHANGED status
      BY <2>3, <3>1 DEF Finish, Goto, async, row, go, budget, rest, quiet, calm
    <3>2. CASE status' = [status EXCEPT ![j] = IF @ = "gone" THEN @ ELSE end[j]] /\ Goto(j, "enqueue")
      <4>1. end[j] \in Ends BY <2>3 DEF Finish, Announced
      <4> QED BY <2>3, <3>2, <4>1 DEF Finish, Goto, async, row, go, budget, rest, quiet, calm
    <3> QED BY <2>3, <3>1, <3>2 DEF Finish
  <2>4. CASE Unwanted(j) BY <2>4 DEF Unwanted, Goto, async, row, go, budget, rest, quiet, calm
  <2>5. CASE EnqueueJobEvent(j)
    <3>1. UNCHANGED <<status, home, end, go, slots, streak, now, late, told>> BY <2>5, EnqueueKeeps
    <3>2. PICK l \in {"done", "enqueue"} : ex' = [ex EXCEPT ![j] = l] BY <2>5, EnqueueKeeps
    <3>3. ex' \in [JobIds -> {"none", "mark", "run", "finish", "enqueue", "done"}] BY <3>2
    <3>4. CASE ~queued[j] /\ Insert(j)
      BY <3>1, <3>3, <3>4 DEF Insert, go
    <3>5. CASE UNCHANGED <<row, history>>
      BY <3>1, <3>3, <3>5 DEF row, go
    <3> QED BY <2>5, <3>4, <3>5 DEF EnqueueJobEvent
  <2>6. CASE Reap(j) BY <2>6 DEF Reap, async, row, go, budget, rest, quiet, calm
  <2>7. CASE Redeliver(j) BY <2>7 DEF Redeliver, Insert, async, row, go, budget, rest, quiet, calm
  <2> QED BY <1>1, <2>1, <2>2, <2>3, <2>4, <2>5, <2>6, <2>7 DEF Execute
<1>2. ASSUME NEW w \in Workers, Work(w) PROVE TypeOK'
  <2>1. CASE Resolve(w)
    <3>1. now + LeaseTime \in Nat BY Sums
    <3> QED BY <2>1, <3>1 DEF Resolve, Step, async, row, go, budget, rest, quiet, calm
  <2>2. CASE Claim(w)
    <3>1. job[w] \in JobIds /\ on[w] \in Nodes BY <2>2 DEF Claim
    <3>2. claims[job[w]] + 1 \in Nat BY <3>1, Sums
    <3> QED BY <2>2, <3>1, <3>2 DEF Claim, TakeRow, Step, async, row, go, budget, rest, quiet, calm
  <2>3. CASE NotClaimed(w)
    <3>1. job[w] \in JobIds /\ on[w] \in Nodes BY <2>3 DEF NotClaimed
    <3>2. claims[job[w]] + 1 \in Nat BY <3>1, Sums
    <3>3. CASE UNCHANGED row BY <2>3, <3>1, <3>3 DEF NotClaimed, Leave, Gone, async, row, go, budget, rest, quiet, calm
    <3>4. CASE TakeRow(w) BY <2>3, <3>1, <3>2, <3>4 DEF NotClaimed, TakeRow, Leave, Gone, async, row, go, budget, rest, quiet, calm
    <3> QED BY <2>3, <3>3, <3>4 DEF NotClaimed
  <2>4. CASE Read(w)
    <3>1. CASE Leave(w)
      BY <2>4, <3>1 DEF Read, Leave, Gone, async, row, go, budget, rest, quiet, calm
    <3>2. CASE Conclude(w, "permanent", FALSE)
      BY <2>4, <3>2 DEF Read, Conclude, Step, async, row, go, budget, rest, quiet, calm
    <3>3. CASE Step(w, "send") /\ UNCHANGED <<on, job, snap, seen, lease, at, out, touch, ticket, slots, faults>>
      BY <2>4, <3>3 DEF Read, Step, async, row, go, budget, rest, quiet, calm
    <3> QED BY <2>4, <3>1, <3>2, <3>3 DEF Read
  <2>5. CASE Deliver(w)
    <3>1. PICK o \in {"delivered", "retryable", "permanent"} : Conclude(w, Outcome(snap[w] + 1, o), TRUE) BY <2>5 DEF Deliver
    <3>2. Outcome(snap[w] + 1, o) \in Outcomes BY DEF Outcome
    <3>3. job[w] \in JobIds BY <2>5 DEF Deliver
    <3>4. Body(job[w]) \in Statuses
      <4>1. Ended(job[w]) BY <2>5, <3>3 DEF Deliver, Announced, Attended
      <4> QED BY <3>3, <4>1 DEF Body, Ended
    <3>5. told' \in [JobIds -> SUBSET Statuses] BY <2>5, <3>3, <3>4 DEF Deliver
    <3> QED BY <2>5, <3>1, <3>2, <3>3, <3>5 DEF Deliver, Conclude, Step, async, row, go, budget, rest, quiet, calm
  <2>6. CASE Record(w)
    <3>1. CASE history' = [history EXCEPT ![job[w]] = @ \cup {out[w]}] /\ Step(w, "queue") /\ UNCHANGED <<on, job, snap, seen, lease, at, out, touch, ticket, slots, faults>>
      BY <2>6, <3>1 DEF Record, Step, async, row, go, budget, rest, quiet, calm
    <3>2. CASE Leave(w) /\ UNCHANGED history
      BY <2>6, <3>2 DEF Record, Leave, Gone, async, row, go, budget, rest, quiet, calm
    <3>3. CASE Leave(w) /\ history' = [history EXCEPT ![job[w]] = @ \cup {out[w]}]
      BY <2>6, <3>3 DEF Record, Leave, Gone, async, row, go, budget, rest, quiet, calm
    <3> QED BY <2>6, <3>1, <3>2, <3>3 DEF Record
  <2>7. CASE Requeue(w)
    <3>1. job[w] \in JobIds /\ on[w] \in Nodes BY <2>7 DEF Requeue
    <3>2. count[job[w]] + 1 \in Nat BY <3>1, Sums
    <3>3. /\ queued' \in [JobIds -> BOOLEAN] /\ count' \in [JobIds -> Nat]
          /\ by' \in [JobIds -> Ids] /\ until' \in [JobIds -> Nat] /\ claims' \in [JobIds -> Nat]
      <4>1. CASE Reschedule(job[w], at[w] + Backoff) BY <3>2, <4>1 DEF Reschedule
      <4>2. CASE Retire(job[w]) BY <4>2 DEF Retire
      <4>3. CASE UNCHANGED row BY <4>3 DEF row
      <4> QED BY <2>7, <4>1, <4>2, <4>3 DEF Requeue
    <3>4. /\ pc' \in [Workers -> {"idle", "listed", "claim"} \cup Claimed]
          /\ on' \in [Workers -> Nodes \cup {Nil}] /\ job' \in [Workers -> JobIds \cup {Nil}]
          /\ snap' \in [Workers -> Nat] /\ lease' \in [Workers -> Nat]
          /\ out' \in [Workers -> Outcomes \cup {""}] /\ ticket' \in [Workers -> Nat]
      <4>1. CASE Step(w, "counters") /\ UNCHANGED <<on, job, snap, seen, lease, at, out, touch, ticket, slots>>
        BY <4>1 DEF Step
      <4>2. CASE Leave(w) BY <4>2 DEF Leave, Gone
      <4> QED BY <2>7, <4>1, <4>2 DEF Requeue
    <3>5. UNCHANGED <<status, ex, end, history, now, told>> BY <2>7 DEF Requeue, calm, async
    <3> QED BY <3>3, <3>4, <3>5
  <2>8. CASE Count(w) BY <2>8 DEF Count, Leave, Gone, async, row, go, budget, rest, quiet, calm
  <2> QED BY <1>2, <2>1, <2>2, <2>3, <2>4, <2>5, <2>6, <2>7, <2>8 DEF Work
<1>3. ASSUME NEW n \in Nodes, NEW j \in JobIds, SubmitJob(n, j) PROVE TypeOK'
  BY <1>3 DEF SubmitJob, Goto, async, row, go, budget, rest, quiet, calm
<1>4. ASSUME NEW n \in Nodes, NEW w \in Workers, NEW j \in JobIds, Offer(n, w, j) PROVE TypeOK'
  BY <1>4 DEF Offer, Step, Due, async, row, go, budget, rest, quiet, calm
<1>5. ASSUME NEW n \in Nodes, Crash(n) PROVE TypeOK'
  BY <1>5 DEF Crash, Gone, async, row, go, budget, rest, quiet, calm
<1>6. ASSUME Tick PROVE TypeOK'
  <2>1. now' \in Nat BY <1>6, Sums DEF Tick
  <2> QED BY <1>6, <2>1 DEF Tick, async, row, go, budget, rest, quiet, calm
<1>7. ASSUME NEW n \in Nodes, EditEndpoint(n) \/ ReloadEndpoint(n) PROVE TypeOK'
  <2>1. UNCHANGED <<async, row, go, slots, history, now, late, told>> BY <1>7, EndpointAlone
  <2> QED BY <2>1 DEF async, row, go
<1>8. CASE UNCHANGED vars BY <1>8 DEF vars, async, row, go, budget, rest, quiet, calm
<1> QED BY <1>1, <1>2, <1>3, <1>4, <1>5, <1>6, <1>7, <1>8 DEF Next

LEMMA PlacedStep == TypeOK /\ Placed /\ [Next]_vars => Placed'
<1> SUFFICES ASSUME TypeOK, Placed, [Next]_vars PROVE Placed'
  OBVIOUS
<1> USE WebhooksAssumption DEF TypeOK, Placed, Ends, Statuses, Outcomes, Claimed
<1>1. ASSUME NEW j \in JobIds, Execute(j) PROVE Placed'
  <2>1. CASE MarkProcessing(j)
    <3>1. CASE UNCHANGED status
      BY <2>1, <3>1 DEF MarkProcessing, Goto, async, row, go, budget, rest, quiet, calm
    <3>2. CASE status' = [status EXCEPT ![j] = IF @ = "gone" THEN @ ELSE "processing"]
      BY <2>1, <3>2 DEF MarkProcessing, Goto, async, row, go, budget, rest, quiet, calm
    <3> QED BY <2>1, <3>1, <3>2 DEF MarkProcessing
  <2>2. CASE Operation(j) BY <2>2 DEF Operation, Goto, async, row, go, budget, rest, quiet, calm
  <2>3. CASE Finish(j)
    <3>1. CASE Faulty /\ Goto(j, "done") /\ UNCHANGED status
      BY <2>3, <3>1 DEF Finish, Goto, async, row, go, budget, rest, quiet, calm
    <3>2. CASE status' = [status EXCEPT ![j] = IF @ = "gone" THEN @ ELSE end[j]] /\ Goto(j, "enqueue")
      BY <2>3, <3>2 DEF Finish, Goto, async, row, go, budget, rest, quiet, calm
    <3> QED BY <2>3, <3>1, <3>2 DEF Finish
  <2>4. CASE Unwanted(j) BY <2>4 DEF Unwanted, Goto, async, row, go, budget, rest, quiet, calm
  <2>5. CASE EnqueueJobEvent(j)
    <3>1. CASE ~queued[j] /\ Insert(j)
      BY <2>5, <3>1 DEF EnqueueJobEvent, Insert, Goto, async, row, go, budget, rest, quiet, calm
    <3>2. CASE UNCHANGED <<row, history>>
      BY <2>5, <3>2 DEF EnqueueJobEvent, Goto, async, row, go, budget, rest, quiet, calm
    <3> QED BY <2>5, <3>1, <3>2 DEF EnqueueJobEvent
  <2>6. CASE Reap(j) BY <2>6 DEF Reap, async, row, go, budget, rest, quiet, calm
  <2>7. CASE Redeliver(j) BY <2>7 DEF Redeliver, Insert, async, row, go, budget, rest, quiet, calm
  <2> QED BY <1>1, <2>1, <2>2, <2>3, <2>4, <2>5, <2>6, <2>7 DEF Execute
<1>2. ASSUME NEW w \in Workers, Work(w) PROVE Placed'
  <2>1. CASE Resolve(w) BY <2>1, ZenonT(60) DEF Resolve, Step, async, row, go, budget, rest, quiet, calm
  <2>2. CASE Claim(w) BY <2>2, ZenonT(60) DEF Claim, TakeRow, Step, Due, async, row, go, budget, rest, quiet, calm
  <2>3. CASE NotClaimed(w)
    <3>1. CASE UNCHANGED row
      BY <2>3, <3>1 DEF NotClaimed, Leave, Gone, async, row, go, budget, rest, quiet, calm
    <3>2. CASE Due(job[w]) /\ lease[w] > now /\ TakeRow(w)
      BY <2>3, <3>2 DEF NotClaimed, TakeRow, Leave, Gone, Due, async, row, go, budget, rest, quiet, calm
    <3> QED BY <2>3, <3>1, <3>2 DEF NotClaimed
  <2>4. CASE Read(w)
    <3>1. CASE Leave(w)
      BY <2>4, <3>1 DEF Read, Leave, Gone, async, row, go, budget, rest, quiet, calm
    <3>2. CASE Conclude(w, "permanent", FALSE)
      BY <2>4, <3>2, ZenonT(60) DEF Read, Conclude, Step, async, row, go, budget, rest, quiet, calm
    <3>3. CASE Step(w, "send") /\ UNCHANGED <<on, job, snap, seen, lease, at, out, touch, ticket, slots, faults>>
      BY <2>4, <3>3, ZenonT(60) DEF Read, Step, async, row, go, budget, rest, quiet, calm
    <3> QED BY <2>4, <3>1, <3>2, <3>3 DEF Read
  <2>5. CASE Deliver(w)
    <3>1. PICK o \in {"delivered", "retryable", "permanent"} : Conclude(w, Outcome(snap[w] + 1, o), TRUE) BY <2>5 DEF Deliver
    <3>2. Outcome(snap[w] + 1, o) \in Outcomes BY DEF Outcome
    <3> QED BY <2>5, <3>1, <3>2, ZenonT(60) DEF Deliver, Conclude, Step, async, row, go, budget, rest, quiet, calm
  <2>6. CASE Record(w)
    <3>1. CASE history' = [history EXCEPT ![job[w]] = @ \cup {out[w]}] /\ Step(w, "queue") /\ UNCHANGED <<on, job, snap, seen, lease, at, out, touch, ticket, slots, faults>>
      BY <2>6, <3>1, ZenonT(60) DEF Record, Step, async, row, go, budget, rest, quiet, calm
    <3>2. CASE Leave(w) /\ UNCHANGED history
      BY <2>6, <3>2 DEF Record, Leave, Gone, async, row, go, budget, rest, quiet, calm
    <3>3. CASE Leave(w) /\ history' = [history EXCEPT ![job[w]] = @ \cup {out[w]}]
      BY <2>6, <3>3 DEF Record, Leave, Gone, async, row, go, budget, rest, quiet, calm
    <3> QED BY <2>6, <3>1, <3>2, <3>3 DEF Record
  <2>7. CASE Requeue(w)
    <3>1. pc[w] = "queue" BY <2>7 DEF Requeue
    <3>2. CASE Step(w, "counters") /\ UNCHANGED <<on, job, snap, seen, lease, at, out, touch, ticket, slots>> BY <3>1, <3>2, ZenonT(60) DEF Step
    <3>3. CASE Leave(w) BY <3>1, <3>3 DEF Leave, Gone
    <3> QED BY <2>7, <3>2, <3>3 DEF Requeue
  <2>8. CASE Count(w) BY <2>8 DEF Count, Leave, Gone, async, row, go, budget, rest, quiet, calm
  <2> QED BY <1>2, <2>1, <2>2, <2>3, <2>4, <2>5, <2>6, <2>7, <2>8 DEF Work
<1>3. ASSUME NEW n \in Nodes, NEW j \in JobIds, SubmitJob(n, j) PROVE Placed'
  BY <1>3 DEF SubmitJob, Goto, async, row, go, budget, rest, quiet, calm
<1>4. ASSUME NEW n \in Nodes, NEW w \in Workers, NEW j \in JobIds, Offer(n, w, j) PROVE Placed'
  BY <1>4, ZenonT(60) DEF Offer, Step, Due, async, row, go, budget, rest, quiet, calm
<1>5. ASSUME NEW n \in Nodes, Crash(n) PROVE Placed'
  BY <1>5 DEF Crash, Gone, async, row, go, budget, rest, quiet, calm
<1>6. ASSUME Tick PROVE Placed'
  BY <1>6 DEF Tick, async, row, go, budget, rest, quiet, calm
<1>7. ASSUME NEW n \in Nodes, EditEndpoint(n) \/ ReloadEndpoint(n) PROVE Placed'
  BY <1>7, EndpointAlone DEF async, row, go
<1>8. CASE UNCHANGED vars BY <1>8 DEF vars, async, row, go, budget, rest, quiet, calm
<1> QED BY <1>1, <1>2, <1>3, <1>4, <1>5, <1>6, <1>7, <1>8 DEF Next

(***************************************************************************)
(* What a step does to the claims: nothing but end some, insert a row, win *)
(* one, or let go of the row.                                              *)
(***************************************************************************)
\* The labels at which a goroutine may still write to the row it claimed.
Writing == Claimed \ {"counters"}

Same(w) == /\ pc[w] \in Writing /\ job'[w] = job[w] /\ on'[w] = on[w] /\ ticket'[w] = ticket[w] /\ lease'[w] = lease[w]
           /\ snap'[w] = snap[w]
Keep(W) == \A w \in W : pc'[w] \in Writing => Same(w)

Idles == Keep(Workers) /\ UNCHANGED <<queued, count, by, until, claims>> /\ now' \in {now, now + 1}
Inserts(j) == Keep(Workers) /\ ~queued[j] /\ Insert(j) /\ now' = now
Wins(w) ==
  /\ pc[w] = "claim" /\ Due(job[w]) /\ lease[w] > now /\ TakeRow(w) /\ now' = now
  /\ Keep(Workers \ {w})
  /\ pc'[w] \in Writing =>
       /\ job'[w] = job[w] /\ on'[w] = on[w] /\ lease'[w] = lease[w] /\ snap'[w] = snap[w]
       /\ ticket'[w] = claims[job[w]] + 1
       /\ snap[w] # count[job[w]] => job[w] \in late'
LetsGo(w) ==
  /\ pc[w] = "queue" /\ Holds(w) /\ pc'[w] \notin Writing /\ Keep(Workers) /\ now' = now
  /\ (out[w] = "retryable" /\ Reschedule(job[w], at[w] + Backoff)) \/ (out[w] # "retryable" /\ Retire(job[w]))

Kind ==
  \/ Idles
  \/ \E j \in JobIds : Inserts(j)
  \/ \E w \in Workers : Wins(w) \/ LetsGo(w)

LEMMA StepKinds == TypeOK /\ Placed /\ [Next]_vars => Kind
<1> SUFFICES ASSUME TypeOK, Placed, [Next]_vars PROVE Kind
  OBVIOUS
<1> USE WebhooksAssumption DEF TypeOK, Placed, Writing, Claimed
<1>1. ASSUME NEW j \in JobIds, Execute(j) PROVE Kind
  <2>1. CASE MarkProcessing(j)
    <3>1. Idles BY <2>1 DEF MarkProcessing, Idles, Keep, Same, async, row, go, budget, rest, quiet, calm
    <3> QED BY <3>1 DEF Kind
  <2>2. CASE Operation(j)
    <3>1. Idles BY <2>2 DEF Operation, Idles, Keep, Same, async, row, go, budget, rest, quiet, calm
    <3> QED BY <3>1 DEF Kind
  <2>3. CASE Finish(j)
    <3>1. Idles BY <2>3 DEF Finish, Idles, Keep, Same, async, row, go, budget, rest, quiet, calm
    <3> QED BY <3>1 DEF Kind
  <2>4. CASE Unwanted(j)
    <3>1. Idles BY <2>4 DEF Unwanted, Idles, Keep, Same, async, row, go, budget, rest, quiet, calm
    <3> QED BY <3>1 DEF Kind
  <2>5. CASE EnqueueJobEvent(j)
    <3>1. CASE ~queued[j] /\ Insert(j)
      <4>1. Inserts(j) BY <2>5, <3>1 DEF EnqueueJobEvent, Inserts, Keep, Same, async, row, go, budget, rest, quiet, calm
      <4> QED BY <4>1 DEF Kind
    <3>2. CASE UNCHANGED <<row, history>>
      <4>1. Idles BY <2>5, <3>2 DEF EnqueueJobEvent, Idles, Keep, Same, async, row, go, budget, rest, quiet, calm
      <4> QED BY <4>1 DEF Kind
    <3> QED BY <2>5, <3>1, <3>2 DEF EnqueueJobEvent
  <2>6. CASE Reap(j)
    <3>1. Idles BY <2>6 DEF Reap, Idles, Keep, Same, async, row, go, budget, rest, quiet, calm
    <3> QED BY <3>1 DEF Kind
  <2>7. CASE Redeliver(j)
    <3>1. Inserts(j) BY <2>7 DEF Redeliver, Inserts, Keep, Same, async, row, go, budget, rest, quiet, calm
    <3> QED BY <3>1 DEF Kind
  <2> QED BY <1>1, <2>1, <2>2, <2>3, <2>4, <2>5, <2>6, <2>7 DEF Execute
<1>2. ASSUME NEW w \in Workers, Work(w) PROVE Kind
  <2>1. CASE Resolve(w)
    <3>1. Keep(Workers) BY <2>1 DEF Resolve, Step, Keep, Same, async, row, go, budget, rest, quiet, calm
    <3>2. Idles BY <2>1, <3>1 DEF Resolve, Idles, async, row, go, budget, rest, quiet, calm
    <3> QED BY <3>2 DEF Kind
  <2>2. CASE Claim(w)
    <3>1. Keep(Workers \ {w}) BY <2>2 DEF Claim, Step, Keep, Same, async, row, go, budget, rest, quiet, calm
    <3>2. job'[w] = job[w] /\ on'[w] = on[w] /\ lease'[w] = lease[w] /\ snap'[w] = snap[w] /\ ticket'[w] = claims[job[w]] + 1
      BY <2>2 DEF Claim
    <3>3. snap[w] # count[job[w]] => job[w] \in late' BY <2>2 DEF Claim
    <3>4. Wins(w) BY <2>2, <3>1, <3>2, <3>3 DEF Claim, Wins, async, row, go, budget, rest, quiet, calm
    <3> QED BY <3>4 DEF Kind
  <2>3. CASE NotClaimed(w)
    <3>1. Keep(Workers) /\ pc'[w] \notin Writing BY <2>3 DEF NotClaimed, Leave, Gone, Keep, Same
    <3>2. CASE UNCHANGED row
      <4>1. Idles BY <2>3, <3>1, <3>2 DEF NotClaimed, Idles, async, row, go, budget, rest, quiet, calm
      <4> QED BY <4>1 DEF Kind
    <3>3. CASE Due(job[w]) /\ lease[w] > now /\ TakeRow(w)
      <4>1. Wins(w) BY <2>3, <3>1, <3>3 DEF NotClaimed, Wins, Keep, async, row, go, budget, rest, quiet, calm
      <4> QED BY <4>1 DEF Kind
    <3> QED BY <2>3, <3>2, <3>3 DEF NotClaimed
  <2>4. CASE Read(w)
    <3>1. Keep(Workers)
      <4>1. CASE Leave(w)
        BY <2>4, <4>1 DEF Read, Leave, Gone, Keep, Same
      <4>2. CASE Conclude(w, "permanent", FALSE)
        BY <2>4, <4>2 DEF Read, Conclude, Step, Keep, Same
      <4>3. CASE Step(w, "send") /\ UNCHANGED <<on, job, snap, seen, lease, at, out, touch, ticket, slots, faults>>
        BY <2>4, <4>3 DEF Read, Step, Keep, Same
      <4> QED BY <2>4, <4>1, <4>2, <4>3 DEF Read
    <3>2. Idles BY <2>4, <3>1 DEF Read, Idles, async, row, go, budget, rest, quiet, calm
    <3> QED BY <3>2 DEF Kind
  <2>5. CASE Deliver(w)
    <3>1. PICK o \in {"delivered", "retryable", "permanent"} : Conclude(w, Outcome(snap[w] + 1, o), TRUE) BY <2>5 DEF Deliver
    <3>2. Keep(Workers) BY <2>5, <3>1 DEF Deliver, Conclude, Step, Keep, Same
    <3>3. Idles BY <2>5, <3>2 DEF Deliver, Idles, async, row, go, budget, rest, quiet, calm
    <3> QED BY <3>3 DEF Kind
  <2>6. CASE Record(w)
    <3>1. Keep(Workers)
      <4>1. CASE history' = [history EXCEPT ![job[w]] = @ \cup {out[w]}] /\ Step(w, "queue") /\ UNCHANGED <<on, job, snap, seen, lease, at, out, touch, ticket, slots, faults>>
        BY <2>6, <4>1 DEF Record, Step, Keep, Same
      <4>2. CASE Leave(w) /\ UNCHANGED history
        BY <2>6, <4>2 DEF Record, Leave, Gone, Keep, Same
      <4>3. CASE Leave(w) /\ history' = [history EXCEPT ![job[w]] = @ \cup {out[w]}]
        BY <2>6, <4>3 DEF Record, Leave, Gone, Keep, Same
      <4> QED BY <2>6, <4>1, <4>2, <4>3 DEF Record
    <3>2. Idles BY <2>6, <3>1 DEF Record, Idles, async, row, go, budget, rest, quiet, calm
    <3> QED BY <3>2 DEF Kind
  <2>7. CASE Requeue(w)
    <3>1. Keep(Workers) /\ pc'[w] \notin Writing
      <4>1. CASE Step(w, "counters") /\ UNCHANGED <<on, job, snap, seen, lease, at, out, touch, ticket, slots>>
        BY <2>7, <4>1 DEF Step, Keep, Same
      <4>2. CASE Leave(w) BY <2>7, <4>2 DEF Leave, Gone, Keep, Same
      <4> QED BY <2>7, <4>1, <4>2 DEF Requeue
    <3>2. now' = now BY <2>7 DEF Requeue, calm
    <3>3. CASE UNCHANGED row
      <4>1. Idles BY <3>1, <3>2, <3>3 DEF Idles, row
      <4> QED BY <4>1 DEF Kind
    <3>4. CASE Holds(w) /\ out[w] = "retryable" /\ Reschedule(job[w], at[w] + Backoff)
      <4>1. LetsGo(w) BY <2>7, <3>1, <3>2, <3>4 DEF Requeue, LetsGo
      <4> QED BY <4>1 DEF Kind
    <3>5. CASE Holds(w) /\ out[w] # "retryable" /\ Retire(job[w])
      <4>1. LetsGo(w) BY <2>7, <3>1, <3>2, <3>5 DEF Requeue, LetsGo
      <4> QED BY <4>1 DEF Kind
    <3> QED BY <2>7, <3>3, <3>4, <3>5 DEF Requeue
  <2>8. CASE Count(w)
    <3>1. Keep(Workers) BY <2>8 DEF Count, Leave, Gone, Keep, Same
    <3>2. Idles BY <2>8, <3>1 DEF Count, Idles, async, row, go, budget, rest, quiet, calm
    <3> QED BY <3>2 DEF Kind
  <2> QED BY <1>2, <2>1, <2>2, <2>3, <2>4, <2>5, <2>6, <2>7, <2>8 DEF Work
<1>3. ASSUME NEW n \in Nodes, NEW j \in JobIds, SubmitJob(n, j) PROVE Kind
  <2>1. Keep(Workers) BY <1>3 DEF SubmitJob, Keep, Same, async, row, go, budget, rest, quiet, calm
  <2>2. Idles BY <1>3, <2>1 DEF SubmitJob, Idles, async, row, go, budget, rest, quiet, calm
  <2> QED BY <2>2 DEF Kind
<1>4. ASSUME NEW n \in Nodes, NEW w \in Workers, NEW j \in JobIds, Offer(n, w, j) PROVE Kind
  <2>1. Keep(Workers) BY <1>4 DEF Offer, Step, Keep, Same, async, row, go, budget, rest, quiet, calm
  <2>2. Idles BY <1>4, <2>1 DEF Offer, Idles, async, row, go, budget, rest, quiet, calm
  <2> QED BY <2>2 DEF Kind
<1>5. ASSUME NEW n \in Nodes, Crash(n) PROVE Kind
  <2>1. Keep(Workers) BY <1>5 DEF Crash, Gone, Keep, Same, async, row, go, budget, rest, quiet, calm
  <2>2. Idles BY <1>5, <2>1 DEF Crash, Idles, async, row, go, budget, rest, quiet, calm
  <2> QED BY <2>2 DEF Kind
<1>6. ASSUME Tick PROVE Kind
  <2>1. Keep(Workers) BY <1>6 DEF Tick, Keep, Same, async, row, go, budget, rest, quiet, calm
  <2>2. Idles BY <1>6, <2>1 DEF Tick, Idles, async, row, go, budget, rest, quiet, calm
  <2> QED BY <2>2 DEF Kind
<1>7. ASSUME NEW n \in Nodes, EditEndpoint(n) \/ ReloadEndpoint(n) PROVE Kind
  <2>1. Keep(Workers) BY <1>7, EndpointAlone DEF Keep, Same, async, row, go, budget, rest, quiet, calm
  <2>2. Idles BY <1>7, <2>1, EndpointAlone DEF Idles, async, row, go, budget, rest, quiet, calm
  <2> QED BY <2>2 DEF Kind
<1>8. CASE UNCHANGED vars
  <2>1. Keep(Workers) BY <1>8 DEF vars, Keep, Same, async, row, go, budget, rest, quiet, calm
  <2>2. Idles BY <1>8, <2>1 DEF vars, Idles, async, row, go, budget, rest, quiet, calm
  <2> QED BY <2>2 DEF Kind
<1> QED BY <1>1, <1>2, <1>3, <1>4, <1>5, <1>6, <1>7, <1>8 DEF Next

\* The row's latest claim is in the row as long as its goroutine may write.
Latest ==
  \A w \in Workers : pc[w] \in Writing =>
    /\ ticket[w] > 0 /\ ticket[w] <= claims[job[w]]
    /\ ticket[w] = claims[job[w]] => queued[job[w]] /\ by[job[w]] = RunnerId[on[w]] /\ until[job[w]] = lease[w]

\* Every other writer's lease is over, and is not the row's.
Outdated ==
  \A w \in Workers : pc[w] \in Writing /\ ticket[w] < claims[job[w]] =>
    lease[w] < now /\ (by[job[w]] # Nil => lease[w] < until[job[w]])

\* Claims are told apart by their number.
Distinct ==
  \A v, w \in Workers :
    pc[v] \in Writing /\ pc[w] \in Writing /\ job[v] = job[w] /\ ticket[v] = ticket[w] => v = w

Claims == Latest /\ Outdated /\ Distinct

\* Only the latest claim gets past the fence.
LEMMA HoldsLatest ==
  ASSUME TypeOK, Placed, Claims, NEW w \in Workers, pc[w] \in Writing, Holds(w)
  PROVE  ticket[w] = claims[job[w]]
<1>1. job[w] \in JobIds /\ on[w] \in Nodes BY DEF Placed, Writing, Claimed
<1>2. by[job[w]] # Nil BY <1>1, WebhooksAssumption DEF Holds
<1>3. lease[w] \in Nat /\ until[job[w]] \in Nat /\ ticket[w] \in Nat /\ claims[job[w]] \in Nat BY <1>1 DEF TypeOK
<1>4. CASE ticket[w] < claims[job[w]] BY <1>2, <1>3, <1>4 DEF Claims, Outdated, Holds
<1>5. ticket[w] <= claims[job[w]] BY DEF Claims, Latest
<1> QED BY <1>3, <1>4, <1>5

\* A row that is due is nobody's: the lease of its latest claim is over.
LEMMA DueIsFree ==
  ASSUME TypeOK, Placed, Claims, NEW w \in Workers, pc[w] \in Writing, Due(job[w])
  PROVE  lease[w] < now
<1>1. job[w] \in JobIds /\ on[w] \in Nodes BY DEF Placed, Writing, Claimed
<1>2. lease[w] \in Nat /\ now \in Nat /\ until[job[w]] \in Nat /\ ticket[w] \in Nat /\ claims[job[w]] \in Nat BY <1>1 DEF TypeOK
<1>3. CASE ticket[w] < claims[job[w]] BY <1>3 DEF Claims, Outdated
<1>4. CASE ticket[w] = claims[job[w]]
  <2>1. by[job[w]] # Nil /\ until[job[w]] = lease[w] BY <1>1, <1>4, WebhooksAssumption DEF Claims, Latest
  <2> QED BY <1>2, <2>1 DEF Due
<1>5. ticket[w] <= claims[job[w]] BY DEF Claims, Latest
<1> QED BY <1>2, <1>3, <1>4, <1>5

LEMMA LatestStep == TypeOK /\ TypeOK' /\ Placed /\ Claims /\ [Next]_vars => Latest'
<1> SUFFICES ASSUME TypeOK, TypeOK', Placed, Claims, Kind, NEW u \in Workers, pc'[u] \in Writing PROVE ticket'[u] > 0 /\ ticket'[u] <= claims'[job'[u]] /\ (ticket'[u] = claims'[job'[u]] => queued'[job'[u]] /\ by'[job'[u]] = RunnerId[on'[u]] /\ until'[job'[u]] = lease'[u])
  BY StepKinds DEF Latest
<1>0. ASSUME Same(u) PROVE job[u] \in JobIds /\ on[u] \in Nodes /\ lease[u] \in Nat /\ now \in Nat /\ until[job[u]] \in Nat /\ ticket[u] \in Nat /\ claims[job[u]] \in Nat
  <2>1. job[u] \in JobIds /\ on[u] \in Nodes BY <1>0 DEF Same, Placed, Writing, Claimed
  <2> QED BY <2>1 DEF TypeOK
<1>1. CASE Idles
  <2>1. Same(u) BY <1>1 DEF Idles, Keep
  <2> QED BY <1>0, <1>1, <2>1 DEF Idles, Same, Claims, Latest, Outdated
<1>2. ASSUME NEW j \in JobIds, Inserts(j) PROVE ticket'[u] > 0 /\ ticket'[u] <= claims'[job'[u]] /\ (ticket'[u] = claims'[job'[u]] => queued'[job'[u]] /\ by'[job'[u]] = RunnerId[on'[u]] /\ until'[job'[u]] = lease'[u])
  <2>1. Same(u) BY <1>2 DEF Inserts, Keep
  <2>2. CASE job[u] = j BY <1>0, <1>2, <2>1, <2>2 DEF Inserts, Insert, Same, Claims, Latest, Outdated, TypeOK
  <2>3. queued[job[u]] => queued'[job[u]] BY <1>0, <1>2, <2>1 DEF Inserts, Insert, TypeOK
  <2>4. CASE job[u] # j
    <3>1. by' = [by EXCEPT ![j] = Nil] /\ until' = [until EXCEPT ![j] = 0] /\ claims' = claims /\ now' = now
      BY <1>2 DEF Inserts, Insert
    <3>2. by \in [JobIds -> Ids] /\ until \in [JobIds -> Nat] BY DEF TypeOK
    <3>3. by'[job[u]] = by[job[u]] /\ until'[job[u]] = until[job[u]] BY <1>0, <2>1, <2>4, <3>1, <3>2
    <3> QED BY <1>0, <2>1, <2>3, <3>1, <3>3 DEF Same, Claims, Latest, Outdated
  <2> QED BY <2>2, <2>4
<1>3. ASSUME NEW w \in Workers, Wins(w) PROVE ticket'[u] > 0 /\ ticket'[u] <= claims'[job'[u]] /\ (ticket'[u] = claims'[job'[u]] => queued'[job'[u]] /\ by'[job'[u]] = RunnerId[on'[u]] /\ until'[job'[u]] = lease'[u])
  <2>1. job[w] \in JobIds /\ on[w] \in Nodes BY <1>3 DEF Wins, Placed
  <2>2. claims'[job[w]] = claims[job[w]] + 1 /\ claims[job[w]] \in Nat /\ until'[job[w]] = lease[w] /\ by'[job[w]] = RunnerId[on[w]] /\ queued[job[w]]
    BY <1>3, <2>1, ZenonT(60) DEF Wins, TakeRow, TypeOK, Due
  <2>3. \A j \in JobIds : j # job[w] => claims'[j] = claims[j] /\ until'[j] = until[j] /\ by'[j] = by[j]
    <3>1. by' = [by EXCEPT ![job[w]] = RunnerId[on[w]]] /\ until' = [until EXCEPT ![job[w]] = lease[w]]
          /\ claims' = [claims EXCEPT ![job[w]] = @ + 1]
      BY <1>3 DEF Wins, TakeRow
    <3>2. by \in [JobIds -> Ids] /\ until \in [JobIds -> Nat] /\ claims \in [JobIds -> Nat] BY DEF TypeOK
    <3> QED BY <3>1, <3>2
  <2>4. queued' = queued /\ now' = now /\ lease[w] > now /\ lease[w] \in Nat BY <1>3 DEF Wins, TakeRow, TypeOK
  <2>5. CASE u = w BY <1>3, <2>1, <2>2, <2>4, <2>5 DEF Wins
  <2>6. CASE u # w /\ job[u] = job[w]
    <3>1. Same(u) BY <1>3, <2>6 DEF Wins, Keep
    <3>2. lease[u] < now BY <1>3, <2>6, <3>1, DueIsFree DEF Wins, Same
    <3>3. ticket[u] > 0 /\ ticket[u] <= claims[job[u]] BY <3>1 DEF Same, Claims, Latest
    <3> QED BY <1>0, <2>2, <2>4, <2>6, <3>1, <3>2, <3>3 DEF Same
  <2>7. CASE u # w /\ job[u] # job[w]
    <3>1. Same(u) BY <1>3, <2>7 DEF Wins, Keep
    <3> QED BY <1>0, <2>3, <2>4, <2>7, <3>1 DEF Same, Claims, Latest, Outdated
  <2> QED BY <2>5, <2>6, <2>7
<1>4. ASSUME NEW w \in Workers, LetsGo(w) PROVE ticket'[u] > 0 /\ ticket'[u] <= claims'[job'[u]] /\ (ticket'[u] = claims'[job'[u]] => queued'[job'[u]] /\ by'[job'[u]] = RunnerId[on'[u]] /\ until'[job'[u]] = lease'[u])
  <2>1. Same(u) /\ u # w BY <1>4 DEF LetsGo, Keep
  <2>2. ticket[w] = claims[job[w]] /\ pc[w] \in Writing BY <1>4, HoldsLatest DEF LetsGo, Writing, Claimed
  <2>3. job[w] \in JobIds BY <1>4 DEF LetsGo, Placed
  <2>4. claims' = claims /\ now' = now BY <1>4 DEF LetsGo, Reschedule, Retire
  <2>5. \A j \in JobIds : j # job[w] => until'[j] = until[j] /\ by'[j] = by[j] /\ (queued[j] => queued'[j])
    <3>1. \A j \in JobIds : j # job[w] => until'[j] = until[j] /\ by'[j] = by[j]
      BY <1>4, ZenonT(60) DEF LetsGo, Reschedule, Retire, TypeOK
    <3>2. queued' = queued \/ queued' = [queued EXCEPT ![job[w]] = FALSE] BY <1>4 DEF LetsGo, Reschedule, Retire
    <3>3. \A j \in JobIds : j # job[w] => (queued[j] => queued'[j]) BY <3>2 DEF TypeOK
    <3> QED BY <3>1, <3>3
  <2>6. by'[job[w]] = Nil
    <3>1. by' = [by EXCEPT ![job[w]] = Nil] BY <1>4 DEF LetsGo, Reschedule, Retire
    <3>2. by \in [JobIds -> Ids] BY DEF TypeOK
    <3> QED BY <2>3, <3>1, <3>2
  <2>7. CASE job[u] = job[w]
    <3>1. ticket[u] # claims[job[u]] BY <2>1, <2>2, <2>7 DEF Same, Claims, Distinct
    <3>2. ticket[u] > 0 /\ ticket[u] <= claims[job[u]] BY <2>1 DEF Same, Claims, Latest
    <3> QED BY <1>0, <2>1, <2>4, <2>6, <2>7, <3>1, <3>2 DEF Same, Claims, Outdated
  <2>8. CASE job[u] # job[w] BY <1>0, <2>1, <2>4, <2>5, <2>8 DEF Same, Claims, Latest, Outdated
  <2> QED BY <2>7, <2>8
<1> QED BY <1>1, <1>2, <1>3, <1>4 DEF Kind

LEMMA OutdatedStep == TypeOK /\ TypeOK' /\ Placed /\ Claims /\ [Next]_vars => Outdated'
<1> SUFFICES ASSUME TypeOK, TypeOK', Placed, Claims, Kind, NEW u \in Workers, pc'[u] \in Writing, ticket'[u] < claims'[job'[u]] PROVE lease'[u] < now' /\ (by'[job'[u]] # Nil => lease'[u] < until'[job'[u]])
  BY StepKinds DEF Outdated
<1>0. ASSUME Same(u) PROVE job[u] \in JobIds /\ on[u] \in Nodes /\ lease[u] \in Nat /\ now \in Nat /\ until[job[u]] \in Nat /\ ticket[u] \in Nat /\ claims[job[u]] \in Nat
  <2>1. job[u] \in JobIds /\ on[u] \in Nodes BY <1>0 DEF Same, Placed, Writing, Claimed
  <2> QED BY <2>1 DEF TypeOK
<1>1. CASE Idles
  <2>1. Same(u) BY <1>1 DEF Idles, Keep
  <2> QED BY <1>0, <1>1, <2>1 DEF Idles, Same, Claims, Latest, Outdated
<1>2. ASSUME NEW j \in JobIds, Inserts(j) PROVE lease'[u] < now' /\ (by'[job'[u]] # Nil => lease'[u] < until'[job'[u]])
  <2>1. Same(u) BY <1>2 DEF Inserts, Keep
  <2>2. CASE job[u] = j BY <1>0, <1>2, <2>1, <2>2 DEF Inserts, Insert, Same, Claims, Latest, Outdated, TypeOK
  <2>3. queued[job[u]] => queued'[job[u]] BY <1>0, <1>2, <2>1 DEF Inserts, Insert, TypeOK
  <2>4. CASE job[u] # j
    <3>1. by' = [by EXCEPT ![j] = Nil] /\ until' = [until EXCEPT ![j] = 0] /\ claims' = claims /\ now' = now
      BY <1>2 DEF Inserts, Insert
    <3>2. by \in [JobIds -> Ids] /\ until \in [JobIds -> Nat] BY DEF TypeOK
    <3>3. by'[job[u]] = by[job[u]] /\ until'[job[u]] = until[job[u]] BY <1>0, <2>1, <2>4, <3>1, <3>2
    <3> QED BY <1>0, <2>1, <2>3, <3>1, <3>3 DEF Same, Claims, Latest, Outdated
  <2> QED BY <2>2, <2>4
<1>3. ASSUME NEW w \in Workers, Wins(w) PROVE lease'[u] < now' /\ (by'[job'[u]] # Nil => lease'[u] < until'[job'[u]])
  <2>1. job[w] \in JobIds /\ on[w] \in Nodes BY <1>3 DEF Wins, Placed
  <2>2. claims'[job[w]] = claims[job[w]] + 1 /\ claims[job[w]] \in Nat /\ until'[job[w]] = lease[w] /\ by'[job[w]] = RunnerId[on[w]] /\ queued[job[w]]
    BY <1>3, <2>1, ZenonT(60) DEF Wins, TakeRow, TypeOK, Due
  <2>3. \A j \in JobIds : j # job[w] => claims'[j] = claims[j] /\ until'[j] = until[j] /\ by'[j] = by[j]
    <3>1. by' = [by EXCEPT ![job[w]] = RunnerId[on[w]]] /\ until' = [until EXCEPT ![job[w]] = lease[w]]
          /\ claims' = [claims EXCEPT ![job[w]] = @ + 1]
      BY <1>3 DEF Wins, TakeRow
    <3>2. by \in [JobIds -> Ids] /\ until \in [JobIds -> Nat] /\ claims \in [JobIds -> Nat] BY DEF TypeOK
    <3> QED BY <3>1, <3>2
  <2>4. queued' = queued /\ now' = now /\ lease[w] > now /\ lease[w] \in Nat BY <1>3 DEF Wins, TakeRow, TypeOK
  <2>5. CASE u = w BY <1>3, <2>1, <2>2, <2>4, <2>5 DEF Wins
  <2>6. CASE u # w /\ job[u] = job[w]
    <3>1. Same(u) BY <1>3, <2>6 DEF Wins, Keep
    <3>2. lease[u] < now BY <1>3, <2>6, <3>1, DueIsFree DEF Wins, Same
    <3>3. ticket[u] > 0 /\ ticket[u] <= claims[job[u]] BY <3>1 DEF Same, Claims, Latest
    <3> QED BY <1>0, <2>2, <2>4, <2>6, <3>1, <3>2, <3>3 DEF Same
  <2>7. CASE u # w /\ job[u] # job[w]
    <3>1. Same(u) BY <1>3, <2>7 DEF Wins, Keep
    <3> QED BY <1>0, <2>3, <2>4, <2>7, <3>1 DEF Same, Claims, Latest, Outdated
  <2> QED BY <2>5, <2>6, <2>7
<1>4. ASSUME NEW w \in Workers, LetsGo(w) PROVE lease'[u] < now' /\ (by'[job'[u]] # Nil => lease'[u] < until'[job'[u]])
  <2>1. Same(u) /\ u # w BY <1>4 DEF LetsGo, Keep
  <2>2. ticket[w] = claims[job[w]] /\ pc[w] \in Writing BY <1>4, HoldsLatest DEF LetsGo, Writing, Claimed
  <2>3. job[w] \in JobIds BY <1>4 DEF LetsGo, Placed
  <2>4. claims' = claims /\ now' = now BY <1>4 DEF LetsGo, Reschedule, Retire
  <2>5. \A j \in JobIds : j # job[w] => until'[j] = until[j] /\ by'[j] = by[j] /\ (queued[j] => queued'[j])
    <3>1. \A j \in JobIds : j # job[w] => until'[j] = until[j] /\ by'[j] = by[j]
      BY <1>4, ZenonT(60) DEF LetsGo, Reschedule, Retire, TypeOK
    <3>2. queued' = queued \/ queued' = [queued EXCEPT ![job[w]] = FALSE] BY <1>4 DEF LetsGo, Reschedule, Retire
    <3>3. \A j \in JobIds : j # job[w] => (queued[j] => queued'[j]) BY <3>2 DEF TypeOK
    <3> QED BY <3>1, <3>3
  <2>6. by'[job[w]] = Nil
    <3>1. by' = [by EXCEPT ![job[w]] = Nil] BY <1>4 DEF LetsGo, Reschedule, Retire
    <3>2. by \in [JobIds -> Ids] BY DEF TypeOK
    <3> QED BY <2>3, <3>1, <3>2
  <2>7. CASE job[u] = job[w]
    <3>1. ticket[u] # claims[job[u]] BY <2>1, <2>2, <2>7 DEF Same, Claims, Distinct
    <3>2. ticket[u] > 0 /\ ticket[u] <= claims[job[u]] BY <2>1 DEF Same, Claims, Latest
    <3> QED BY <1>0, <2>1, <2>4, <2>6, <2>7, <3>1, <3>2 DEF Same, Claims, Outdated
  <2>8. CASE job[u] # job[w] BY <1>0, <2>1, <2>4, <2>5, <2>8 DEF Same, Claims, Latest, Outdated
  <2> QED BY <2>7, <2>8
<1> QED BY <1>1, <1>2, <1>3, <1>4 DEF Kind

LEMMA DistinctStep == TypeOK /\ Placed /\ Claims /\ [Next]_vars => Distinct'
<1> SUFFICES ASSUME TypeOK, Placed, Claims, Kind, NEW u \in Workers, NEW v \in Workers, pc'[u] \in Writing, pc'[v] \in Writing,
                    job'[u] = job'[v], ticket'[u] = ticket'[v]
             PROVE  u = v
  BY StepKinds DEF Distinct
<1>1. CASE Same(u) /\ Same(v) BY <1>1 DEF Same, Claims, Distinct
<1>2. ASSUME NEW w \in Workers, Wins(w) PROVE u = v
  <2>1. \A x \in Workers : Same(x) => ticket[x] <= claims[job[x]] /\ ticket[x] \in Nat
    BY DEF Same, Claims, Latest, TypeOK
  <2>2. job[w] \in JobIds /\ claims[job[w]] \in Nat BY <1>2 DEF Wins, Placed, TypeOK
  <2>3. CASE u # w /\ v # w BY <1>1, <1>2, <2>3 DEF Wins, Keep
  <2>4. CASE u = w /\ v # w
    <3>1. Same(v) /\ ticket'[u] = claims[job[u]] + 1 /\ job'[u] = job[u] BY <1>2, <2>4 DEF Wins, Keep
    <3> QED BY <2>1, <2>2, <2>4, <3>1 DEF Same
  <2>5. CASE u # w /\ v = w
    <3>1. Same(u) /\ ticket'[v] = claims[job[v]] + 1 /\ job'[v] = job[v] BY <1>2, <2>5 DEF Wins, Keep
    <3> QED BY <2>1, <2>2, <2>5, <3>1 DEF Same
  <2> QED BY <2>3, <2>4, <2>5
<1> QED BY <1>1, <1>2 DEF Kind, Idles, Inserts, LetsGo, Keep

LEMMA ClaimsStep == TypeOK /\ TypeOK' /\ Placed /\ Claims /\ [Next]_vars => Claims'
BY LatestStep, OutdatedStep, DistinctStep DEF Claims

(***************************************************************************)
(* Where things come from: one fact about every step for each.             *)
(***************************************************************************)
EndsStay == \A i \in JobIds : Ended(i) => end'[i] = end[i] /\ status'[i] \in {end[i], "gone"} /\ ex'[i] \in {"enqueue", "done"}
EndsFrom == \A i \in JobIds :
  /\ ex'[i] = "finish" => (ex[i] = "finish" /\ end'[i] = end[i]) \/ end'[i] \in Ends
  /\ ex'[i] = "enqueue" => ex[i] = "enqueue" \/ (ex[i] = "finish" /\ end'[i] = end[i] /\ status'[i] \in {end[i], "gone"})
QueuedFrom == \A i \in JobIds : queued'[i] => queued[i] \/ ex[i] = "enqueue" \/ history[i] # {}
HistoryFrom == \A i \in JobIds : history'[i] # {} => history[i] # {} \/ Attended(i)
HistoryGrows == \A i \in JobIds : history[i] \subseteq history'[i] \/ (~queued[i] /\ queued'[i])
ToldFrom == \A i \in JobIds : told'[i] = told[i] \/ (Attended(i) /\ told'[i] = told[i] \cup {Body(i)})
WorkFrom == \A u \in Workers : pc'[u] # "idle" => (pc[u] # "idle" /\ job'[u] = job[u]) \/ (job'[u] \in JobIds /\ queued[job'[u]])
RecordFrom == \A u \in Workers : pc'[u] = "queue" => (pc[u] = "queue" /\ out'[u] = out[u] /\ job'[u] = job[u]) \/ out'[u] \in history'[job'[u]]

LEMMA EndsStayStep == TypeOK /\ Placed /\ [Next]_vars => EndsStay
<1> SUFFICES ASSUME TypeOK, Placed, [Next]_vars PROVE EndsStay
  OBVIOUS
<1> USE WebhooksAssumption DEF TypeOK, Placed, EndsStay, Ended, Ends
<1>1. ASSUME NEW j \in JobIds, Execute(j) PROVE EndsStay
  <2>1. CASE MarkProcessing(j)
    <3>1. CASE UNCHANGED status
      BY <2>1, <3>1 DEF MarkProcessing, Goto, async, row, go, budget, rest, quiet, calm
    <3>2. CASE status' = [status EXCEPT ![j] = IF @ = "gone" THEN @ ELSE "processing"]
      BY <2>1, <3>2 DEF MarkProcessing, Goto, async, row, go, budget, rest, quiet, calm
    <3> QED BY <2>1, <3>1, <3>2 DEF MarkProcessing
  <2>2. CASE Operation(j) BY <2>2 DEF Operation, Goto, async, row, go, budget, rest, quiet, calm
  <2>3. CASE Finish(j)
    <3>1. CASE Faulty /\ Goto(j, "done") /\ UNCHANGED status
      BY <2>3, <3>1 DEF Finish, Goto, async, row, go, budget, rest, quiet, calm
    <3>2. CASE status' = [status EXCEPT ![j] = IF @ = "gone" THEN @ ELSE end[j]] /\ Goto(j, "enqueue")
      BY <2>3, <3>2 DEF Finish, Goto, async, row, go, budget, rest, quiet, calm
    <3> QED BY <2>3, <3>1, <3>2 DEF Finish
  <2>4. CASE Unwanted(j) BY <2>4 DEF Unwanted, Goto, async, row, go, budget, rest, quiet, calm
  <2>5. CASE EnqueueJobEvent(j)
    <3>1. CASE ~queued[j] /\ Insert(j)
      BY <2>5, <3>1, EnqueueKeeps, ZenonT(60) DEF Insert, row, go
    <3>2. CASE UNCHANGED <<row, history>>
      BY <2>5, <3>2, EnqueueKeeps DEF row, go
    <3> QED BY <2>5, <3>1, <3>2 DEF EnqueueJobEvent
  <2>6. CASE Reap(j) BY <2>6 DEF Reap, async, row, go, budget, rest, quiet, calm
  <2>7. CASE Redeliver(j) BY <2>7 DEF Redeliver, Insert, async, row, go, budget, rest, quiet, calm
  <2> QED BY <1>1, <2>1, <2>2, <2>3, <2>4, <2>5, <2>6, <2>7 DEF Execute
<1>2. ASSUME NEW w \in Workers, Work(w) PROVE EndsStay
  <2>1. CASE Resolve(w) BY <2>1 DEF Resolve, Step, async, row, go, budget, rest, quiet, calm
  <2>2. CASE Claim(w) BY <2>2 DEF Claim, TakeRow, Step, Due, async, row, go, budget, rest, quiet, calm
  <2>3. CASE NotClaimed(w)
    <3>1. CASE UNCHANGED row
      BY <2>3, <3>1 DEF NotClaimed, Leave, Gone, async, row, go, budget, rest, quiet, calm
    <3>2. CASE Due(job[w]) /\ lease[w] > now /\ TakeRow(w)
      BY <2>3, <3>2 DEF NotClaimed, TakeRow, Leave, Gone, Due, async, row, go, budget, rest, quiet, calm
    <3> QED BY <2>3, <3>1, <3>2 DEF NotClaimed
  <2>4. CASE Read(w)
    <3>1. CASE Leave(w)
      BY <2>4, <3>1 DEF Read, Leave, Gone, async, row, go, budget, rest, quiet, calm
    <3>2. CASE Conclude(w, "permanent", FALSE)
      BY <2>4, <3>2 DEF Read, Conclude, Step, async, row, go, budget, rest, quiet, calm
    <3>3. CASE Step(w, "send") /\ UNCHANGED <<on, job, snap, seen, lease, at, out, touch, ticket, slots, faults>>
      BY <2>4, <3>3 DEF Read, Step, async, row, go, budget, rest, quiet, calm
    <3> QED BY <2>4, <3>1, <3>2, <3>3 DEF Read
  <2>5. CASE Deliver(w) BY <2>5 DEF Deliver, Conclude, Step, Outcome, Body, async, row, go, budget, rest, quiet, calm
  <2>6. CASE Record(w)
    <3>1. CASE history' = [history EXCEPT ![job[w]] = @ \cup {out[w]}] /\ Step(w, "queue") /\ UNCHANGED <<on, job, snap, seen, lease, at, out, touch, ticket, slots, faults>>
      BY <2>6, <3>1 DEF Record, Step, async, row, go, budget, rest, quiet, calm
    <3>2. CASE Leave(w) /\ UNCHANGED history
      BY <2>6, <3>2 DEF Record, Leave, Gone, async, row, go, budget, rest, quiet, calm
    <3>3. CASE Leave(w) /\ history' = [history EXCEPT ![job[w]] = @ \cup {out[w]}]
      BY <2>6, <3>3 DEF Record, Leave, Gone, async, row, go, budget, rest, quiet, calm
    <3> QED BY <2>6, <3>1, <3>2, <3>3 DEF Record
  <2>7. CASE Requeue(w)
    <3>1. CASE (Step(w, "counters") /\ UNCHANGED <<on, job, snap, seen, lease, at, out, touch, ticket, slots>>) /\ Holds(w) /\ out[w] = "retryable" /\ Reschedule(job[w], at[w] + Backoff)
      BY <2>7, <3>1 DEF Requeue, Step, Holds, Reschedule, async, row, go, budget, rest, quiet, calm
    <3>2. CASE (Step(w, "counters") /\ UNCHANGED <<on, job, snap, seen, lease, at, out, touch, ticket, slots>>) /\ Holds(w) /\ out[w] # "retryable" /\ Retire(job[w])
      BY <2>7, <3>2 DEF Requeue, Step, Holds, Retire, async, row, go, budget, rest, quiet, calm
    <3>3. CASE (Step(w, "counters") /\ UNCHANGED <<on, job, snap, seen, lease, at, out, touch, ticket, slots>>) /\ UNCHANGED row
      BY <2>7, <3>3 DEF Requeue, Step, async, row, go, budget, rest, quiet, calm
    <3>4. CASE Leave(w) /\ Holds(w) /\ out[w] = "retryable" /\ Reschedule(job[w], at[w] + Backoff)
      BY <2>7, <3>4 DEF Requeue, Leave, Gone, Holds, Reschedule, async, row, go, budget, rest, quiet, calm
    <3>5. CASE Leave(w) /\ Holds(w) /\ out[w] # "retryable" /\ Retire(job[w])
      BY <2>7, <3>5 DEF Requeue, Leave, Gone, Holds, Retire, async, row, go, budget, rest, quiet, calm
    <3>6. CASE Leave(w) /\ UNCHANGED row
      BY <2>7, <3>6 DEF Requeue, Leave, Gone, async, row, go, budget, rest, quiet, calm
    <3> QED BY <2>7, <3>1, <3>2, <3>3, <3>4, <3>5, <3>6 DEF Requeue
  <2>8. CASE Count(w) BY <2>8 DEF Count, Leave, Gone, async, row, go, budget, rest, quiet, calm
  <2> QED BY <1>2, <2>1, <2>2, <2>3, <2>4, <2>5, <2>6, <2>7, <2>8 DEF Work
<1>3. ASSUME NEW n \in Nodes, NEW j \in JobIds, SubmitJob(n, j) PROVE EndsStay
  BY <1>3 DEF SubmitJob, Goto, async, row, go, budget, rest, quiet, calm
<1>4. ASSUME NEW n \in Nodes, NEW w \in Workers, NEW j \in JobIds, Offer(n, w, j) PROVE EndsStay
  BY <1>4 DEF Offer, Step, Due, async, row, go, budget, rest, quiet, calm
<1>5. ASSUME NEW n \in Nodes, Crash(n) PROVE EndsStay
  BY <1>5 DEF Crash, Gone, async, row, go, budget, rest, quiet, calm
<1>6. ASSUME Tick PROVE EndsStay
  BY <1>6 DEF Tick, async, row, go, budget, rest, quiet, calm
<1>7. ASSUME NEW n \in Nodes, EditEndpoint(n) \/ ReloadEndpoint(n) PROVE EndsStay
  BY <1>7, EndpointAlone DEF async, row, go
<1>8. CASE UNCHANGED vars BY <1>8 DEF vars, async, row, go, budget, rest, quiet, calm
<1> QED BY <1>1, <1>2, <1>3, <1>4, <1>5, <1>6, <1>7, <1>8 DEF Next

LEMMA EndsFromStep == TypeOK /\ Placed /\ [Next]_vars => EndsFrom
<1> SUFFICES ASSUME TypeOK, Placed, [Next]_vars PROVE EndsFrom
  OBVIOUS
<1> USE WebhooksAssumption DEF TypeOK, Placed, EndsFrom, Ends
<1>1. ASSUME NEW j \in JobIds, Execute(j) PROVE EndsFrom
  <2>1. CASE MarkProcessing(j)
    <3>1. CASE UNCHANGED status
      BY <2>1, <3>1 DEF MarkProcessing, Goto, async, row, go, budget, rest, quiet, calm
    <3>2. CASE status' = [status EXCEPT ![j] = IF @ = "gone" THEN @ ELSE "processing"]
      BY <2>1, <3>2 DEF MarkProcessing, Goto, async, row, go, budget, rest, quiet, calm
    <3> QED BY <2>1, <3>1, <3>2 DEF MarkProcessing
  <2>2. CASE Operation(j) BY <2>2 DEF Operation, Goto, async, row, go, budget, rest, quiet, calm
  <2>3. CASE Finish(j)
    <3>1. CASE Faulty /\ Goto(j, "done") /\ UNCHANGED status
      BY <2>3, <3>1 DEF Finish, Goto, async, row, go, budget, rest, quiet, calm
    <3>2. CASE status' = [status EXCEPT ![j] = IF @ = "gone" THEN @ ELSE end[j]] /\ Goto(j, "enqueue")
      BY <2>3, <3>2 DEF Finish, Goto, async, row, go, budget, rest, quiet, calm
    <3> QED BY <2>3, <3>1, <3>2 DEF Finish
  <2>4. CASE Unwanted(j) BY <2>4 DEF Unwanted, Goto, async, row, go, budget, rest, quiet, calm
  <2>5. CASE EnqueueJobEvent(j)
    <3>1. CASE ~queued[j] /\ Insert(j)
      BY <2>5, <3>1, ZenonT(60) DEF EnqueueJobEvent, Insert, Goto, async, row, go, budget, rest, quiet, calm
    <3>2. CASE UNCHANGED <<row, history>>
      BY <2>5, <3>2, ZenonT(60) DEF EnqueueJobEvent, Goto, async, row, go, budget, rest, quiet, calm
    <3> QED BY <2>5, <3>1, <3>2 DEF EnqueueJobEvent
  <2>6. CASE Reap(j) BY <2>6 DEF Reap, async, row, go, budget, rest, quiet, calm
  <2>7. CASE Redeliver(j) BY <2>7 DEF Redeliver, Insert, async, row, go, budget, rest, quiet, calm
  <2> QED BY <1>1, <2>1, <2>2, <2>3, <2>4, <2>5, <2>6, <2>7 DEF Execute
<1>2. ASSUME NEW w \in Workers, Work(w) PROVE EndsFrom
  <2>1. CASE Resolve(w) BY <2>1 DEF Resolve, Step, async, row, go, budget, rest, quiet, calm
  <2>2. CASE Claim(w) BY <2>2 DEF Claim, TakeRow, Step, Due, async, row, go, budget, rest, quiet, calm
  <2>3. CASE NotClaimed(w)
    <3>1. CASE UNCHANGED row
      BY <2>3, <3>1 DEF NotClaimed, Leave, Gone, async, row, go, budget, rest, quiet, calm
    <3>2. CASE Due(job[w]) /\ lease[w] > now /\ TakeRow(w)
      BY <2>3, <3>2 DEF NotClaimed, TakeRow, Leave, Gone, Due, async, row, go, budget, rest, quiet, calm
    <3> QED BY <2>3, <3>1, <3>2 DEF NotClaimed
  <2>4. CASE Read(w)
    <3>1. CASE Leave(w)
      BY <2>4, <3>1 DEF Read, Leave, Gone, async, row, go, budget, rest, quiet, calm
    <3>2. CASE Conclude(w, "permanent", FALSE)
      BY <2>4, <3>2 DEF Read, Conclude, Step, async, row, go, budget, rest, quiet, calm
    <3>3. CASE Step(w, "send") /\ UNCHANGED <<on, job, snap, seen, lease, at, out, touch, ticket, slots, faults>>
      BY <2>4, <3>3 DEF Read, Step, async, row, go, budget, rest, quiet, calm
    <3> QED BY <2>4, <3>1, <3>2, <3>3 DEF Read
  <2>5. CASE Deliver(w) BY <2>5 DEF Deliver, Conclude, Step, Outcome, Body, async, row, go, budget, rest, quiet, calm
  <2>6. CASE Record(w)
    <3>1. CASE history' = [history EXCEPT ![job[w]] = @ \cup {out[w]}] /\ Step(w, "queue") /\ UNCHANGED <<on, job, snap, seen, lease, at, out, touch, ticket, slots, faults>>
      BY <2>6, <3>1 DEF Record, Step, async, row, go, budget, rest, quiet, calm
    <3>2. CASE Leave(w) /\ UNCHANGED history
      BY <2>6, <3>2 DEF Record, Leave, Gone, async, row, go, budget, rest, quiet, calm
    <3>3. CASE Leave(w) /\ history' = [history EXCEPT ![job[w]] = @ \cup {out[w]}]
      BY <2>6, <3>3 DEF Record, Leave, Gone, async, row, go, budget, rest, quiet, calm
    <3> QED BY <2>6, <3>1, <3>2, <3>3 DEF Record
  <2>7. CASE Requeue(w)
    <3>1. CASE (Step(w, "counters") /\ UNCHANGED <<on, job, snap, seen, lease, at, out, touch, ticket, slots>>) /\ Holds(w) /\ out[w] = "retryable" /\ Reschedule(job[w], at[w] + Backoff)
      BY <2>7, <3>1 DEF Requeue, Step, Holds, Reschedule, async, row, go, budget, rest, quiet, calm
    <3>2. CASE (Step(w, "counters") /\ UNCHANGED <<on, job, snap, seen, lease, at, out, touch, ticket, slots>>) /\ Holds(w) /\ out[w] # "retryable" /\ Retire(job[w])
      BY <2>7, <3>2 DEF Requeue, Step, Holds, Retire, async, row, go, budget, rest, quiet, calm
    <3>3. CASE (Step(w, "counters") /\ UNCHANGED <<on, job, snap, seen, lease, at, out, touch, ticket, slots>>) /\ UNCHANGED row
      BY <2>7, <3>3 DEF Requeue, Step, async, row, go, budget, rest, quiet, calm
    <3>4. CASE Leave(w) /\ Holds(w) /\ out[w] = "retryable" /\ Reschedule(job[w], at[w] + Backoff)
      BY <2>7, <3>4 DEF Requeue, Leave, Gone, Holds, Reschedule, async, row, go, budget, rest, quiet, calm
    <3>5. CASE Leave(w) /\ Holds(w) /\ out[w] # "retryable" /\ Retire(job[w])
      BY <2>7, <3>5 DEF Requeue, Leave, Gone, Holds, Retire, async, row, go, budget, rest, quiet, calm
    <3>6. CASE Leave(w) /\ UNCHANGED row
      BY <2>7, <3>6 DEF Requeue, Leave, Gone, async, row, go, budget, rest, quiet, calm
    <3> QED BY <2>7, <3>1, <3>2, <3>3, <3>4, <3>5, <3>6 DEF Requeue
  <2>8. CASE Count(w) BY <2>8 DEF Count, Leave, Gone, async, row, go, budget, rest, quiet, calm
  <2> QED BY <1>2, <2>1, <2>2, <2>3, <2>4, <2>5, <2>6, <2>7, <2>8 DEF Work
<1>3. ASSUME NEW n \in Nodes, NEW j \in JobIds, SubmitJob(n, j) PROVE EndsFrom
  BY <1>3 DEF SubmitJob, Goto, async, row, go, budget, rest, quiet, calm
<1>4. ASSUME NEW n \in Nodes, NEW w \in Workers, NEW j \in JobIds, Offer(n, w, j) PROVE EndsFrom
  BY <1>4 DEF Offer, Step, Due, async, row, go, budget, rest, quiet, calm
<1>5. ASSUME NEW n \in Nodes, Crash(n) PROVE EndsFrom
  BY <1>5 DEF Crash, Gone, async, row, go, budget, rest, quiet, calm
<1>6. ASSUME Tick PROVE EndsFrom
  BY <1>6 DEF Tick, async, row, go, budget, rest, quiet, calm
<1>7. ASSUME NEW n \in Nodes, EditEndpoint(n) \/ ReloadEndpoint(n) PROVE EndsFrom
  BY <1>7, EndpointAlone DEF async, row, go
<1>8. CASE UNCHANGED vars BY <1>8 DEF vars, async, row, go, budget, rest, quiet, calm
<1> QED BY <1>1, <1>2, <1>3, <1>4, <1>5, <1>6, <1>7, <1>8 DEF Next

LEMMA QueuedFromStep == TypeOK /\ Placed /\ [Next]_vars => QueuedFrom
<1> SUFFICES ASSUME TypeOK, Placed, [Next]_vars PROVE QueuedFrom
  OBVIOUS
<1> USE WebhooksAssumption DEF TypeOK, Placed, QueuedFrom
<1>1. ASSUME NEW j \in JobIds, Execute(j) PROVE QueuedFrom
  <2>1. CASE MarkProcessing(j)
    <3>1. CASE UNCHANGED status
      BY <2>1, <3>1 DEF MarkProcessing, Goto, async, row, go, budget, rest, quiet, calm
    <3>2. CASE status' = [status EXCEPT ![j] = IF @ = "gone" THEN @ ELSE "processing"]
      BY <2>1, <3>2 DEF MarkProcessing, Goto, async, row, go, budget, rest, quiet, calm
    <3> QED BY <2>1, <3>1, <3>2 DEF MarkProcessing
  <2>2. CASE Operation(j) BY <2>2 DEF Operation, Goto, async, row, go, budget, rest, quiet, calm
  <2>3. CASE Finish(j)
    <3>1. CASE Faulty /\ Goto(j, "done") /\ UNCHANGED status
      BY <2>3, <3>1 DEF Finish, Goto, async, row, go, budget, rest, quiet, calm
    <3>2. CASE status' = [status EXCEPT ![j] = IF @ = "gone" THEN @ ELSE end[j]] /\ Goto(j, "enqueue")
      BY <2>3, <3>2 DEF Finish, Goto, async, row, go, budget, rest, quiet, calm
    <3> QED BY <2>3, <3>1, <3>2 DEF Finish
  <2>4. CASE Unwanted(j) BY <2>4 DEF Unwanted, Goto, async, row, go, budget, rest, quiet, calm
  <2>5. CASE EnqueueJobEvent(j)
    <3>1. CASE ~queued[j] /\ Insert(j)
      BY <2>5, <3>1 DEF EnqueueJobEvent, Insert, Goto, async, row, go, budget, rest, quiet, calm
    <3>2. CASE UNCHANGED <<row, history>>
      BY <2>5, <3>2 DEF EnqueueJobEvent, Goto, async, row, go, budget, rest, quiet, calm
    <3> QED BY <2>5, <3>1, <3>2 DEF EnqueueJobEvent
  <2>6. CASE Reap(j) BY <2>6 DEF Reap, async, row, go, budget, rest, quiet, calm
  <2>7. CASE Redeliver(j) BY <2>7 DEF Redeliver, Insert, async, row, go, budget, rest, quiet, calm
  <2> QED BY <1>1, <2>1, <2>2, <2>3, <2>4, <2>5, <2>6, <2>7 DEF Execute
<1>2. ASSUME NEW w \in Workers, Work(w) PROVE QueuedFrom
  <2>1. CASE Resolve(w) BY <2>1 DEF Resolve, Step, async, row, go, budget, rest, quiet, calm
  <2>2. CASE Claim(w) BY <2>2 DEF Claim, TakeRow, Step, Due, async, row, go, budget, rest, quiet, calm
  <2>3. CASE NotClaimed(w)
    <3>1. CASE UNCHANGED row
      BY <2>3, <3>1 DEF NotClaimed, Leave, Gone, async, row, go, budget, rest, quiet, calm
    <3>2. CASE Due(job[w]) /\ lease[w] > now /\ TakeRow(w)
      BY <2>3, <3>2 DEF NotClaimed, TakeRow, Leave, Gone, Due, async, row, go, budget, rest, quiet, calm
    <3> QED BY <2>3, <3>1, <3>2 DEF NotClaimed
  <2>4. CASE Read(w)
    <3>1. CASE Leave(w)
      BY <2>4, <3>1 DEF Read, Leave, Gone, async, row, go, budget, rest, quiet, calm
    <3>2. CASE Conclude(w, "permanent", FALSE)
      BY <2>4, <3>2 DEF Read, Conclude, Step, async, row, go, budget, rest, quiet, calm
    <3>3. CASE Step(w, "send") /\ UNCHANGED <<on, job, snap, seen, lease, at, out, touch, ticket, slots, faults>>
      BY <2>4, <3>3 DEF Read, Step, async, row, go, budget, rest, quiet, calm
    <3> QED BY <2>4, <3>1, <3>2, <3>3 DEF Read
  <2>5. CASE Deliver(w) BY <2>5 DEF Deliver, Conclude, Step, Outcome, Body, async, row, go, budget, rest, quiet, calm
  <2>6. CASE Record(w)
    <3>1. CASE history' = [history EXCEPT ![job[w]] = @ \cup {out[w]}] /\ Step(w, "queue") /\ UNCHANGED <<on, job, snap, seen, lease, at, out, touch, ticket, slots, faults>>
      BY <2>6, <3>1 DEF Record, Step, async, row, go, budget, rest, quiet, calm
    <3>2. CASE Leave(w) /\ UNCHANGED history
      BY <2>6, <3>2 DEF Record, Leave, Gone, async, row, go, budget, rest, quiet, calm
    <3>3. CASE Leave(w) /\ history' = [history EXCEPT ![job[w]] = @ \cup {out[w]}]
      BY <2>6, <3>3 DEF Record, Leave, Gone, async, row, go, budget, rest, quiet, calm
    <3> QED BY <2>6, <3>1, <3>2, <3>3 DEF Record
  <2>7. CASE Requeue(w)
    <3>1. CASE (Step(w, "counters") /\ UNCHANGED <<on, job, snap, seen, lease, at, out, touch, ticket, slots>>) /\ Holds(w) /\ out[w] = "retryable" /\ Reschedule(job[w], at[w] + Backoff)
      BY <2>7, <3>1 DEF Requeue, Step, Holds, Reschedule, async, row, go, budget, rest, quiet, calm
    <3>2. CASE (Step(w, "counters") /\ UNCHANGED <<on, job, snap, seen, lease, at, out, touch, ticket, slots>>) /\ Holds(w) /\ out[w] # "retryable" /\ Retire(job[w])
      BY <2>7, <3>2 DEF Requeue, Step, Holds, Retire, async, row, go, budget, rest, quiet, calm
    <3>3. CASE (Step(w, "counters") /\ UNCHANGED <<on, job, snap, seen, lease, at, out, touch, ticket, slots>>) /\ UNCHANGED row
      BY <2>7, <3>3 DEF Requeue, Step, async, row, go, budget, rest, quiet, calm
    <3>4. CASE Leave(w) /\ Holds(w) /\ out[w] = "retryable" /\ Reschedule(job[w], at[w] + Backoff)
      BY <2>7, <3>4 DEF Requeue, Leave, Gone, Holds, Reschedule, async, row, go, budget, rest, quiet, calm
    <3>5. CASE Leave(w) /\ Holds(w) /\ out[w] # "retryable" /\ Retire(job[w])
      BY <2>7, <3>5 DEF Requeue, Leave, Gone, Holds, Retire, async, row, go, budget, rest, quiet, calm
    <3>6. CASE Leave(w) /\ UNCHANGED row
      BY <2>7, <3>6 DEF Requeue, Leave, Gone, async, row, go, budget, rest, quiet, calm
    <3> QED BY <2>7, <3>1, <3>2, <3>3, <3>4, <3>5, <3>6 DEF Requeue
  <2>8. CASE Count(w) BY <2>8 DEF Count, Leave, Gone, async, row, go, budget, rest, quiet, calm
  <2> QED BY <1>2, <2>1, <2>2, <2>3, <2>4, <2>5, <2>6, <2>7, <2>8 DEF Work
<1>3. ASSUME NEW n \in Nodes, NEW j \in JobIds, SubmitJob(n, j) PROVE QueuedFrom
  BY <1>3 DEF SubmitJob, Goto, async, row, go, budget, rest, quiet, calm
<1>4. ASSUME NEW n \in Nodes, NEW w \in Workers, NEW j \in JobIds, Offer(n, w, j) PROVE QueuedFrom
  BY <1>4 DEF Offer, Step, Due, async, row, go, budget, rest, quiet, calm
<1>5. ASSUME NEW n \in Nodes, Crash(n) PROVE QueuedFrom
  BY <1>5 DEF Crash, Gone, async, row, go, budget, rest, quiet, calm
<1>6. ASSUME Tick PROVE QueuedFrom
  BY <1>6 DEF Tick, async, row, go, budget, rest, quiet, calm
<1>7. ASSUME NEW n \in Nodes, EditEndpoint(n) \/ ReloadEndpoint(n) PROVE QueuedFrom
  BY <1>7, EndpointAlone DEF async, row, go
<1>8. CASE UNCHANGED vars BY <1>8 DEF vars, async, row, go, budget, rest, quiet, calm
<1> QED BY <1>1, <1>2, <1>3, <1>4, <1>5, <1>6, <1>7, <1>8 DEF Next

LEMMA HistoryFromStep == TypeOK /\ Placed /\ [Next]_vars => HistoryFrom
<1> SUFFICES ASSUME TypeOK, Placed, [Next]_vars PROVE HistoryFrom
  OBVIOUS
<1> USE WebhooksAssumption DEF TypeOK, Placed, HistoryFrom, Attended
<1>1. ASSUME NEW j \in JobIds, Execute(j) PROVE HistoryFrom
  <2>1. CASE MarkProcessing(j)
    <3>1. CASE UNCHANGED status
      BY <2>1, <3>1 DEF MarkProcessing, Goto, async, row, go, budget, rest, quiet, calm
    <3>2. CASE status' = [status EXCEPT ![j] = IF @ = "gone" THEN @ ELSE "processing"]
      BY <2>1, <3>2 DEF MarkProcessing, Goto, async, row, go, budget, rest, quiet, calm
    <3> QED BY <2>1, <3>1, <3>2 DEF MarkProcessing
  <2>2. CASE Operation(j) BY <2>2 DEF Operation, Goto, async, row, go, budget, rest, quiet, calm
  <2>3. CASE Finish(j)
    <3>1. CASE Faulty /\ Goto(j, "done") /\ UNCHANGED status
      BY <2>3, <3>1 DEF Finish, Goto, async, row, go, budget, rest, quiet, calm
    <3>2. CASE status' = [status EXCEPT ![j] = IF @ = "gone" THEN @ ELSE end[j]] /\ Goto(j, "enqueue")
      BY <2>3, <3>2 DEF Finish, Goto, async, row, go, budget, rest, quiet, calm
    <3> QED BY <2>3, <3>1, <3>2 DEF Finish
  <2>4. CASE Unwanted(j) BY <2>4 DEF Unwanted, Goto, async, row, go, budget, rest, quiet, calm
  <2>5. CASE EnqueueJobEvent(j)
    <3>1. CASE ~queued[j] /\ Insert(j)
      BY <2>5, <3>1 DEF EnqueueJobEvent, Insert, Goto, async, row, go, budget, rest, quiet, calm
    <3>2. CASE UNCHANGED <<row, history>>
      BY <2>5, <3>2 DEF EnqueueJobEvent, Goto, async, row, go, budget, rest, quiet, calm
    <3> QED BY <2>5, <3>1, <3>2 DEF EnqueueJobEvent
  <2>6. CASE Reap(j) BY <2>6 DEF Reap, async, row, go, budget, rest, quiet, calm
  <2>7. CASE Redeliver(j) BY <2>7 DEF Redeliver, Insert, async, row, go, budget, rest, quiet, calm
  <2> QED BY <1>1, <2>1, <2>2, <2>3, <2>4, <2>5, <2>6, <2>7 DEF Execute
<1>2. ASSUME NEW w \in Workers, Work(w) PROVE HistoryFrom
  <2>1. CASE Resolve(w) BY <2>1 DEF Resolve, Step, async, row, go, budget, rest, quiet, calm
  <2>2. CASE Claim(w) BY <2>2 DEF Claim, TakeRow, Step, Due, async, row, go, budget, rest, quiet, calm
  <2>3. CASE NotClaimed(w)
    <3>1. CASE UNCHANGED row
      BY <2>3, <3>1 DEF NotClaimed, Leave, Gone, async, row, go, budget, rest, quiet, calm
    <3>2. CASE Due(job[w]) /\ lease[w] > now /\ TakeRow(w)
      BY <2>3, <3>2 DEF NotClaimed, TakeRow, Leave, Gone, Due, async, row, go, budget, rest, quiet, calm
    <3> QED BY <2>3, <3>1, <3>2 DEF NotClaimed
  <2>4. CASE Read(w)
    <3>1. CASE Leave(w)
      BY <2>4, <3>1 DEF Read, Leave, Gone, async, row, go, budget, rest, quiet, calm
    <3>2. CASE Conclude(w, "permanent", FALSE)
      BY <2>4, <3>2 DEF Read, Conclude, Step, async, row, go, budget, rest, quiet, calm
    <3>3. CASE Step(w, "send") /\ UNCHANGED <<on, job, snap, seen, lease, at, out, touch, ticket, slots, faults>>
      BY <2>4, <3>3 DEF Read, Step, async, row, go, budget, rest, quiet, calm
    <3> QED BY <2>4, <3>1, <3>2, <3>3 DEF Read
  <2>5. CASE Deliver(w) BY <2>5 DEF Deliver, Conclude, Step, Outcome, Body, async, row, go, budget, rest, quiet, calm
  <2>6. CASE Record(w)
    <3>1. CASE history' = [history EXCEPT ![job[w]] = @ \cup {out[w]}] /\ Step(w, "queue") /\ UNCHANGED <<on, job, snap, seen, lease, at, out, touch, ticket, slots, faults>>
      BY <2>6, <3>1 DEF Record, Step, async, row, go, budget, rest, quiet, calm
    <3>2. CASE Leave(w) /\ UNCHANGED history
      BY <2>6, <3>2 DEF Record, Leave, Gone, async, row, go, budget, rest, quiet, calm
    <3>3. CASE Leave(w) /\ history' = [history EXCEPT ![job[w]] = @ \cup {out[w]}]
      BY <2>6, <3>3 DEF Record, Leave, Gone, async, row, go, budget, rest, quiet, calm
    <3> QED BY <2>6, <3>1, <3>2, <3>3 DEF Record
  <2>7. CASE Requeue(w)
    <3>1. CASE (Step(w, "counters") /\ UNCHANGED <<on, job, snap, seen, lease, at, out, touch, ticket, slots>>) /\ Holds(w) /\ out[w] = "retryable" /\ Reschedule(job[w], at[w] + Backoff)
      BY <2>7, <3>1 DEF Requeue, Step, Holds, Reschedule, async, row, go, budget, rest, quiet, calm
    <3>2. CASE (Step(w, "counters") /\ UNCHANGED <<on, job, snap, seen, lease, at, out, touch, ticket, slots>>) /\ Holds(w) /\ out[w] # "retryable" /\ Retire(job[w])
      BY <2>7, <3>2 DEF Requeue, Step, Holds, Retire, async, row, go, budget, rest, quiet, calm
    <3>3. CASE (Step(w, "counters") /\ UNCHANGED <<on, job, snap, seen, lease, at, out, touch, ticket, slots>>) /\ UNCHANGED row
      BY <2>7, <3>3 DEF Requeue, Step, async, row, go, budget, rest, quiet, calm
    <3>4. CASE Leave(w) /\ Holds(w) /\ out[w] = "retryable" /\ Reschedule(job[w], at[w] + Backoff)
      BY <2>7, <3>4 DEF Requeue, Leave, Gone, Holds, Reschedule, async, row, go, budget, rest, quiet, calm
    <3>5. CASE Leave(w) /\ Holds(w) /\ out[w] # "retryable" /\ Retire(job[w])
      BY <2>7, <3>5 DEF Requeue, Leave, Gone, Holds, Retire, async, row, go, budget, rest, quiet, calm
    <3>6. CASE Leave(w) /\ UNCHANGED row
      BY <2>7, <3>6 DEF Requeue, Leave, Gone, async, row, go, budget, rest, quiet, calm
    <3> QED BY <2>7, <3>1, <3>2, <3>3, <3>4, <3>5, <3>6 DEF Requeue
  <2>8. CASE Count(w) BY <2>8 DEF Count, Leave, Gone, async, row, go, budget, rest, quiet, calm
  <2> QED BY <1>2, <2>1, <2>2, <2>3, <2>4, <2>5, <2>6, <2>7, <2>8 DEF Work
<1>3. ASSUME NEW n \in Nodes, NEW j \in JobIds, SubmitJob(n, j) PROVE HistoryFrom
  BY <1>3 DEF SubmitJob, Goto, async, row, go, budget, rest, quiet, calm
<1>4. ASSUME NEW n \in Nodes, NEW w \in Workers, NEW j \in JobIds, Offer(n, w, j) PROVE HistoryFrom
  BY <1>4 DEF Offer, Step, Due, async, row, go, budget, rest, quiet, calm
<1>5. ASSUME NEW n \in Nodes, Crash(n) PROVE HistoryFrom
  BY <1>5 DEF Crash, Gone, async, row, go, budget, rest, quiet, calm
<1>6. ASSUME Tick PROVE HistoryFrom
  BY <1>6 DEF Tick, async, row, go, budget, rest, quiet, calm
<1>7. ASSUME NEW n \in Nodes, EditEndpoint(n) \/ ReloadEndpoint(n) PROVE HistoryFrom
  BY <1>7, EndpointAlone DEF async, row, go
<1>8. CASE UNCHANGED vars BY <1>8 DEF vars, async, row, go, budget, rest, quiet, calm
<1> QED BY <1>1, <1>2, <1>3, <1>4, <1>5, <1>6, <1>7, <1>8 DEF Next

LEMMA HistoryGrowsStep == TypeOK /\ Placed /\ [Next]_vars => HistoryGrows
<1> SUFFICES ASSUME TypeOK, Placed, [Next]_vars PROVE HistoryGrows
  OBVIOUS
<1> USE WebhooksAssumption DEF TypeOK, Placed, HistoryGrows
<1>1. ASSUME NEW j \in JobIds, Execute(j) PROVE HistoryGrows
  <2>1. CASE MarkProcessing(j)
    <3>1. CASE UNCHANGED status
      BY <2>1, <3>1 DEF MarkProcessing, Goto, async, row, go, budget, rest, quiet, calm
    <3>2. CASE status' = [status EXCEPT ![j] = IF @ = "gone" THEN @ ELSE "processing"]
      BY <2>1, <3>2 DEF MarkProcessing, Goto, async, row, go, budget, rest, quiet, calm
    <3> QED BY <2>1, <3>1, <3>2 DEF MarkProcessing
  <2>2. CASE Operation(j) BY <2>2 DEF Operation, Goto, async, row, go, budget, rest, quiet, calm
  <2>3. CASE Finish(j)
    <3>1. CASE Faulty /\ Goto(j, "done") /\ UNCHANGED status
      BY <2>3, <3>1 DEF Finish, Goto, async, row, go, budget, rest, quiet, calm
    <3>2. CASE status' = [status EXCEPT ![j] = IF @ = "gone" THEN @ ELSE end[j]] /\ Goto(j, "enqueue")
      BY <2>3, <3>2 DEF Finish, Goto, async, row, go, budget, rest, quiet, calm
    <3> QED BY <2>3, <3>1, <3>2 DEF Finish
  <2>4. CASE Unwanted(j) BY <2>4 DEF Unwanted, Goto, async, row, go, budget, rest, quiet, calm
  <2>5. CASE EnqueueJobEvent(j)
    <3>1. CASE ~queued[j] /\ Insert(j)
      BY <2>5, <3>1 DEF EnqueueJobEvent, Insert, Goto, async, row, go, budget, rest, quiet, calm
    <3>2. CASE UNCHANGED <<row, history>>
      BY <2>5, <3>2 DEF EnqueueJobEvent, Goto, async, row, go, budget, rest, quiet, calm
    <3> QED BY <2>5, <3>1, <3>2 DEF EnqueueJobEvent
  <2>6. CASE Reap(j) BY <2>6 DEF Reap, async, row, go, budget, rest, quiet, calm
  <2>7. CASE Redeliver(j) BY <2>7 DEF Redeliver, Insert, async, row, go, budget, rest, quiet, calm
  <2> QED BY <1>1, <2>1, <2>2, <2>3, <2>4, <2>5, <2>6, <2>7 DEF Execute
<1>2. ASSUME NEW w \in Workers, Work(w) PROVE HistoryGrows
  <2>1. CASE Resolve(w) BY <2>1 DEF Resolve, Step, async, row, go, budget, rest, quiet, calm
  <2>2. CASE Claim(w) BY <2>2 DEF Claim, TakeRow, Step, Due, async, row, go, budget, rest, quiet, calm
  <2>3. CASE NotClaimed(w)
    <3>1. CASE UNCHANGED row
      BY <2>3, <3>1 DEF NotClaimed, Leave, Gone, async, row, go, budget, rest, quiet, calm
    <3>2. CASE Due(job[w]) /\ lease[w] > now /\ TakeRow(w)
      BY <2>3, <3>2 DEF NotClaimed, TakeRow, Leave, Gone, Due, async, row, go, budget, rest, quiet, calm
    <3> QED BY <2>3, <3>1, <3>2 DEF NotClaimed
  <2>4. CASE Read(w)
    <3>1. CASE Leave(w)
      BY <2>4, <3>1 DEF Read, Leave, Gone, async, row, go, budget, rest, quiet, calm
    <3>2. CASE Conclude(w, "permanent", FALSE)
      BY <2>4, <3>2 DEF Read, Conclude, Step, async, row, go, budget, rest, quiet, calm
    <3>3. CASE Step(w, "send") /\ UNCHANGED <<on, job, snap, seen, lease, at, out, touch, ticket, slots, faults>>
      BY <2>4, <3>3 DEF Read, Step, async, row, go, budget, rest, quiet, calm
    <3> QED BY <2>4, <3>1, <3>2, <3>3 DEF Read
  <2>5. CASE Deliver(w) BY <2>5 DEF Deliver, Conclude, Step, Outcome, Body, async, row, go, budget, rest, quiet, calm
  <2>6. CASE Record(w)
    <3>1. CASE history' = [history EXCEPT ![job[w]] = @ \cup {out[w]}] /\ Step(w, "queue") /\ UNCHANGED <<on, job, snap, seen, lease, at, out, touch, ticket, slots, faults>>
      BY <2>6, <3>1 DEF Record, Step, async, row, go, budget, rest, quiet, calm
    <3>2. CASE Leave(w) /\ UNCHANGED history
      BY <2>6, <3>2 DEF Record, Leave, Gone, async, row, go, budget, rest, quiet, calm
    <3>3. CASE Leave(w) /\ history' = [history EXCEPT ![job[w]] = @ \cup {out[w]}]
      BY <2>6, <3>3 DEF Record, Leave, Gone, async, row, go, budget, rest, quiet, calm
    <3> QED BY <2>6, <3>1, <3>2, <3>3 DEF Record
  <2>7. CASE Requeue(w)
    <3>1. CASE (Step(w, "counters") /\ UNCHANGED <<on, job, snap, seen, lease, at, out, touch, ticket, slots>>) /\ Holds(w) /\ out[w] = "retryable" /\ Reschedule(job[w], at[w] + Backoff)
      BY <2>7, <3>1 DEF Requeue, Step, Holds, Reschedule, async, row, go, budget, rest, quiet, calm
    <3>2. CASE (Step(w, "counters") /\ UNCHANGED <<on, job, snap, seen, lease, at, out, touch, ticket, slots>>) /\ Holds(w) /\ out[w] # "retryable" /\ Retire(job[w])
      BY <2>7, <3>2 DEF Requeue, Step, Holds, Retire, async, row, go, budget, rest, quiet, calm
    <3>3. CASE (Step(w, "counters") /\ UNCHANGED <<on, job, snap, seen, lease, at, out, touch, ticket, slots>>) /\ UNCHANGED row
      BY <2>7, <3>3 DEF Requeue, Step, async, row, go, budget, rest, quiet, calm
    <3>4. CASE Leave(w) /\ Holds(w) /\ out[w] = "retryable" /\ Reschedule(job[w], at[w] + Backoff)
      BY <2>7, <3>4 DEF Requeue, Leave, Gone, Holds, Reschedule, async, row, go, budget, rest, quiet, calm
    <3>5. CASE Leave(w) /\ Holds(w) /\ out[w] # "retryable" /\ Retire(job[w])
      BY <2>7, <3>5 DEF Requeue, Leave, Gone, Holds, Retire, async, row, go, budget, rest, quiet, calm
    <3>6. CASE Leave(w) /\ UNCHANGED row
      BY <2>7, <3>6 DEF Requeue, Leave, Gone, async, row, go, budget, rest, quiet, calm
    <3> QED BY <2>7, <3>1, <3>2, <3>3, <3>4, <3>5, <3>6 DEF Requeue
  <2>8. CASE Count(w) BY <2>8 DEF Count, Leave, Gone, async, row, go, budget, rest, quiet, calm
  <2> QED BY <1>2, <2>1, <2>2, <2>3, <2>4, <2>5, <2>6, <2>7, <2>8 DEF Work
<1>3. ASSUME NEW n \in Nodes, NEW j \in JobIds, SubmitJob(n, j) PROVE HistoryGrows
  BY <1>3 DEF SubmitJob, Goto, async, row, go, budget, rest, quiet, calm
<1>4. ASSUME NEW n \in Nodes, NEW w \in Workers, NEW j \in JobIds, Offer(n, w, j) PROVE HistoryGrows
  BY <1>4 DEF Offer, Step, Due, async, row, go, budget, rest, quiet, calm
<1>5. ASSUME NEW n \in Nodes, Crash(n) PROVE HistoryGrows
  BY <1>5 DEF Crash, Gone, async, row, go, budget, rest, quiet, calm
<1>6. ASSUME Tick PROVE HistoryGrows
  BY <1>6 DEF Tick, async, row, go, budget, rest, quiet, calm
<1>7. ASSUME NEW n \in Nodes, EditEndpoint(n) \/ ReloadEndpoint(n) PROVE HistoryGrows
  BY <1>7, EndpointAlone DEF async, row, go
<1>8. CASE UNCHANGED vars BY <1>8 DEF vars, async, row, go, budget, rest, quiet, calm
<1> QED BY <1>1, <1>2, <1>3, <1>4, <1>5, <1>6, <1>7, <1>8 DEF Next

LEMMA ToldFromStep == TypeOK /\ Placed /\ [Next]_vars => ToldFrom
<1> SUFFICES ASSUME TypeOK, Placed, [Next]_vars PROVE ToldFrom
  OBVIOUS
<1> USE WebhooksAssumption DEF TypeOK, Placed, ToldFrom, Attended
<1>1. ASSUME NEW j \in JobIds, Execute(j) PROVE ToldFrom
  <2>1. CASE MarkProcessing(j)
    <3>1. CASE UNCHANGED status
      BY <2>1, <3>1 DEF MarkProcessing, Goto, async, row, go, budget, rest, quiet, calm
    <3>2. CASE status' = [status EXCEPT ![j] = IF @ = "gone" THEN @ ELSE "processing"]
      BY <2>1, <3>2 DEF MarkProcessing, Goto, async, row, go, budget, rest, quiet, calm
    <3> QED BY <2>1, <3>1, <3>2 DEF MarkProcessing
  <2>2. CASE Operation(j) BY <2>2 DEF Operation, Goto, async, row, go, budget, rest, quiet, calm
  <2>3. CASE Finish(j)
    <3>1. CASE Faulty /\ Goto(j, "done") /\ UNCHANGED status
      BY <2>3, <3>1 DEF Finish, Goto, async, row, go, budget, rest, quiet, calm
    <3>2. CASE status' = [status EXCEPT ![j] = IF @ = "gone" THEN @ ELSE end[j]] /\ Goto(j, "enqueue")
      BY <2>3, <3>2 DEF Finish, Goto, async, row, go, budget, rest, quiet, calm
    <3> QED BY <2>3, <3>1, <3>2 DEF Finish
  <2>4. CASE Unwanted(j) BY <2>4 DEF Unwanted, Goto, async, row, go, budget, rest, quiet, calm
  <2>5. CASE EnqueueJobEvent(j)
    <3>1. CASE ~queued[j] /\ Insert(j)
      BY <2>5, <3>1 DEF EnqueueJobEvent, Insert, Goto, async, row, go, budget, rest, quiet, calm
    <3>2. CASE UNCHANGED <<row, history>>
      BY <2>5, <3>2 DEF EnqueueJobEvent, Goto, async, row, go, budget, rest, quiet, calm
    <3> QED BY <2>5, <3>1, <3>2 DEF EnqueueJobEvent
  <2>6. CASE Reap(j) BY <2>6 DEF Reap, async, row, go, budget, rest, quiet, calm
  <2>7. CASE Redeliver(j) BY <2>7 DEF Redeliver, Insert, async, row, go, budget, rest, quiet, calm
  <2> QED BY <1>1, <2>1, <2>2, <2>3, <2>4, <2>5, <2>6, <2>7 DEF Execute
<1>2. ASSUME NEW w \in Workers, Work(w) PROVE ToldFrom
  <2>1. CASE Resolve(w) BY <2>1 DEF Resolve, Step, async, row, go, budget, rest, quiet, calm
  <2>2. CASE Claim(w) BY <2>2 DEF Claim, TakeRow, Step, Due, async, row, go, budget, rest, quiet, calm
  <2>3. CASE NotClaimed(w)
    <3>1. CASE UNCHANGED row
      BY <2>3, <3>1 DEF NotClaimed, Leave, Gone, async, row, go, budget, rest, quiet, calm
    <3>2. CASE Due(job[w]) /\ lease[w] > now /\ TakeRow(w)
      BY <2>3, <3>2 DEF NotClaimed, TakeRow, Leave, Gone, Due, async, row, go, budget, rest, quiet, calm
    <3> QED BY <2>3, <3>1, <3>2 DEF NotClaimed
  <2>4. CASE Read(w)
    <3>1. CASE Leave(w)
      BY <2>4, <3>1 DEF Read, Leave, Gone, async, row, go, budget, rest, quiet, calm
    <3>2. CASE Conclude(w, "permanent", FALSE)
      BY <2>4, <3>2 DEF Read, Conclude, Step, async, row, go, budget, rest, quiet, calm
    <3>3. CASE Step(w, "send") /\ UNCHANGED <<on, job, snap, seen, lease, at, out, touch, ticket, slots, faults>>
      BY <2>4, <3>3 DEF Read, Step, async, row, go, budget, rest, quiet, calm
    <3> QED BY <2>4, <3>1, <3>2, <3>3 DEF Read
  <2>5. CASE Deliver(w) BY <2>5, ZenonT(60) DEF Deliver, Conclude, Step, Outcome, Body, async, row, go, budget, rest, quiet, calm
  <2>6. CASE Record(w)
    <3>1. CASE history' = [history EXCEPT ![job[w]] = @ \cup {out[w]}] /\ Step(w, "queue") /\ UNCHANGED <<on, job, snap, seen, lease, at, out, touch, ticket, slots, faults>>
      BY <2>6, <3>1 DEF Record, Step, async, row, go, budget, rest, quiet, calm
    <3>2. CASE Leave(w) /\ UNCHANGED history
      BY <2>6, <3>2 DEF Record, Leave, Gone, async, row, go, budget, rest, quiet, calm
    <3>3. CASE Leave(w) /\ history' = [history EXCEPT ![job[w]] = @ \cup {out[w]}]
      BY <2>6, <3>3 DEF Record, Leave, Gone, async, row, go, budget, rest, quiet, calm
    <3> QED BY <2>6, <3>1, <3>2, <3>3 DEF Record
  <2>7. CASE Requeue(w)
    <3>1. CASE (Step(w, "counters") /\ UNCHANGED <<on, job, snap, seen, lease, at, out, touch, ticket, slots>>) /\ Holds(w) /\ out[w] = "retryable" /\ Reschedule(job[w], at[w] + Backoff)
      BY <2>7, <3>1 DEF Requeue, Step, Holds, Reschedule, async, row, go, budget, rest, quiet, calm
    <3>2. CASE (Step(w, "counters") /\ UNCHANGED <<on, job, snap, seen, lease, at, out, touch, ticket, slots>>) /\ Holds(w) /\ out[w] # "retryable" /\ Retire(job[w])
      BY <2>7, <3>2 DEF Requeue, Step, Holds, Retire, async, row, go, budget, rest, quiet, calm
    <3>3. CASE (Step(w, "counters") /\ UNCHANGED <<on, job, snap, seen, lease, at, out, touch, ticket, slots>>) /\ UNCHANGED row
      BY <2>7, <3>3 DEF Requeue, Step, async, row, go, budget, rest, quiet, calm
    <3>4. CASE Leave(w) /\ Holds(w) /\ out[w] = "retryable" /\ Reschedule(job[w], at[w] + Backoff)
      BY <2>7, <3>4 DEF Requeue, Leave, Gone, Holds, Reschedule, async, row, go, budget, rest, quiet, calm
    <3>5. CASE Leave(w) /\ Holds(w) /\ out[w] # "retryable" /\ Retire(job[w])
      BY <2>7, <3>5 DEF Requeue, Leave, Gone, Holds, Retire, async, row, go, budget, rest, quiet, calm
    <3>6. CASE Leave(w) /\ UNCHANGED row
      BY <2>7, <3>6 DEF Requeue, Leave, Gone, async, row, go, budget, rest, quiet, calm
    <3> QED BY <2>7, <3>1, <3>2, <3>3, <3>4, <3>5, <3>6 DEF Requeue
  <2>8. CASE Count(w) BY <2>8 DEF Count, Leave, Gone, async, row, go, budget, rest, quiet, calm
  <2> QED BY <1>2, <2>1, <2>2, <2>3, <2>4, <2>5, <2>6, <2>7, <2>8 DEF Work
<1>3. ASSUME NEW n \in Nodes, NEW j \in JobIds, SubmitJob(n, j) PROVE ToldFrom
  BY <1>3 DEF SubmitJob, Goto, async, row, go, budget, rest, quiet, calm
<1>4. ASSUME NEW n \in Nodes, NEW w \in Workers, NEW j \in JobIds, Offer(n, w, j) PROVE ToldFrom
  BY <1>4 DEF Offer, Step, Due, async, row, go, budget, rest, quiet, calm
<1>5. ASSUME NEW n \in Nodes, Crash(n) PROVE ToldFrom
  BY <1>5 DEF Crash, Gone, async, row, go, budget, rest, quiet, calm
<1>6. ASSUME Tick PROVE ToldFrom
  BY <1>6 DEF Tick, async, row, go, budget, rest, quiet, calm
<1>7. ASSUME NEW n \in Nodes, EditEndpoint(n) \/ ReloadEndpoint(n) PROVE ToldFrom
  BY <1>7, EndpointAlone DEF async, row, go
<1>8. CASE UNCHANGED vars BY <1>8 DEF vars, async, row, go, budget, rest, quiet, calm
<1> QED BY <1>1, <1>2, <1>3, <1>4, <1>5, <1>6, <1>7, <1>8 DEF Next

LEMMA WorkFromStep == TypeOK /\ Placed /\ [Next]_vars => WorkFrom
<1> SUFFICES ASSUME TypeOK, Placed, [Next]_vars PROVE WorkFrom
  OBVIOUS
<1> USE WebhooksAssumption DEF TypeOK, Placed, WorkFrom
<1>1. ASSUME NEW j \in JobIds, Execute(j) PROVE WorkFrom
  <2>1. CASE MarkProcessing(j)
    <3>1. CASE UNCHANGED status
      BY <2>1, <3>1 DEF MarkProcessing, Goto, async, row, go, budget, rest, quiet, calm
    <3>2. CASE status' = [status EXCEPT ![j] = IF @ = "gone" THEN @ ELSE "processing"]
      BY <2>1, <3>2 DEF MarkProcessing, Goto, async, row, go, budget, rest, quiet, calm
    <3> QED BY <2>1, <3>1, <3>2 DEF MarkProcessing
  <2>2. CASE Operation(j) BY <2>2 DEF Operation, Goto, async, row, go, budget, rest, quiet, calm
  <2>3. CASE Finish(j)
    <3>1. CASE Faulty /\ Goto(j, "done") /\ UNCHANGED status
      BY <2>3, <3>1 DEF Finish, Goto, async, row, go, budget, rest, quiet, calm
    <3>2. CASE status' = [status EXCEPT ![j] = IF @ = "gone" THEN @ ELSE end[j]] /\ Goto(j, "enqueue")
      BY <2>3, <3>2 DEF Finish, Goto, async, row, go, budget, rest, quiet, calm
    <3> QED BY <2>3, <3>1, <3>2 DEF Finish
  <2>4. CASE Unwanted(j) BY <2>4 DEF Unwanted, Goto, async, row, go, budget, rest, quiet, calm
  <2>5. CASE EnqueueJobEvent(j)
    <3>1. CASE ~queued[j] /\ Insert(j)
      BY <2>5, <3>1 DEF EnqueueJobEvent, Insert, Goto, async, row, go, budget, rest, quiet, calm
    <3>2. CASE UNCHANGED <<row, history>>
      BY <2>5, <3>2 DEF EnqueueJobEvent, Goto, async, row, go, budget, rest, quiet, calm
    <3> QED BY <2>5, <3>1, <3>2 DEF EnqueueJobEvent
  <2>6. CASE Reap(j) BY <2>6 DEF Reap, async, row, go, budget, rest, quiet, calm
  <2>7. CASE Redeliver(j) BY <2>7 DEF Redeliver, Insert, async, row, go, budget, rest, quiet, calm
  <2> QED BY <1>1, <2>1, <2>2, <2>3, <2>4, <2>5, <2>6, <2>7 DEF Execute
<1>2. ASSUME NEW w \in Workers, Work(w) PROVE WorkFrom
  <2>1. CASE Resolve(w) BY <2>1 DEF Resolve, Step, async, row, go, budget, rest, quiet, calm
  <2>2. CASE Claim(w) BY <2>2 DEF Claim, TakeRow, Step, Due, async, row, go, budget, rest, quiet, calm
  <2>3. CASE NotClaimed(w)
    <3>1. CASE UNCHANGED row
      BY <2>3, <3>1 DEF NotClaimed, Leave, Gone, async, row, go, budget, rest, quiet, calm
    <3>2. CASE Due(job[w]) /\ lease[w] > now /\ TakeRow(w)
      BY <2>3, <3>2 DEF NotClaimed, TakeRow, Leave, Gone, Due, async, row, go, budget, rest, quiet, calm
    <3> QED BY <2>3, <3>1, <3>2 DEF NotClaimed
  <2>4. CASE Read(w)
    <3>1. CASE Leave(w)
      BY <2>4, <3>1 DEF Read, Leave, Gone, async, row, go, budget, rest, quiet, calm
    <3>2. CASE Conclude(w, "permanent", FALSE)
      BY <2>4, <3>2 DEF Read, Conclude, Step, async, row, go, budget, rest, quiet, calm
    <3>3. CASE Step(w, "send") /\ UNCHANGED <<on, job, snap, seen, lease, at, out, touch, ticket, slots, faults>>
      BY <2>4, <3>3 DEF Read, Step, async, row, go, budget, rest, quiet, calm
    <3> QED BY <2>4, <3>1, <3>2, <3>3 DEF Read
  <2>5. CASE Deliver(w) BY <2>5 DEF Deliver, Conclude, Step, Outcome, Body, async, row, go, budget, rest, quiet, calm
  <2>6. CASE Record(w)
    <3>1. CASE history' = [history EXCEPT ![job[w]] = @ \cup {out[w]}] /\ Step(w, "queue") /\ UNCHANGED <<on, job, snap, seen, lease, at, out, touch, ticket, slots, faults>>
      BY <2>6, <3>1 DEF Record, Step, async, row, go, budget, rest, quiet, calm
    <3>2. CASE Leave(w) /\ UNCHANGED history
      BY <2>6, <3>2 DEF Record, Leave, Gone, async, row, go, budget, rest, quiet, calm
    <3>3. CASE Leave(w) /\ history' = [history EXCEPT ![job[w]] = @ \cup {out[w]}]
      BY <2>6, <3>3 DEF Record, Leave, Gone, async, row, go, budget, rest, quiet, calm
    <3> QED BY <2>6, <3>1, <3>2, <3>3 DEF Record
  <2>7. CASE Requeue(w)
    <3>1. CASE (Step(w, "counters") /\ UNCHANGED <<on, job, snap, seen, lease, at, out, touch, ticket, slots>>) /\ Holds(w) /\ out[w] = "retryable" /\ Reschedule(job[w], at[w] + Backoff)
      BY <2>7, <3>1 DEF Requeue, Step, Holds, Reschedule, async, row, go, budget, rest, quiet, calm
    <3>2. CASE (Step(w, "counters") /\ UNCHANGED <<on, job, snap, seen, lease, at, out, touch, ticket, slots>>) /\ Holds(w) /\ out[w] # "retryable" /\ Retire(job[w])
      BY <2>7, <3>2 DEF Requeue, Step, Holds, Retire, async, row, go, budget, rest, quiet, calm
    <3>3. CASE (Step(w, "counters") /\ UNCHANGED <<on, job, snap, seen, lease, at, out, touch, ticket, slots>>) /\ UNCHANGED row
      BY <2>7, <3>3 DEF Requeue, Step, async, row, go, budget, rest, quiet, calm
    <3>4. CASE Leave(w) /\ Holds(w) /\ out[w] = "retryable" /\ Reschedule(job[w], at[w] + Backoff)
      BY <2>7, <3>4 DEF Requeue, Leave, Gone, Holds, Reschedule, async, row, go, budget, rest, quiet, calm
    <3>5. CASE Leave(w) /\ Holds(w) /\ out[w] # "retryable" /\ Retire(job[w])
      BY <2>7, <3>5 DEF Requeue, Leave, Gone, Holds, Retire, async, row, go, budget, rest, quiet, calm
    <3>6. CASE Leave(w) /\ UNCHANGED row
      BY <2>7, <3>6 DEF Requeue, Leave, Gone, async, row, go, budget, rest, quiet, calm
    <3> QED BY <2>7, <3>1, <3>2, <3>3, <3>4, <3>5, <3>6 DEF Requeue
  <2>8. CASE Count(w) BY <2>8 DEF Count, Leave, Gone, async, row, go, budget, rest, quiet, calm
  <2> QED BY <1>2, <2>1, <2>2, <2>3, <2>4, <2>5, <2>6, <2>7, <2>8 DEF Work
<1>3. ASSUME NEW n \in Nodes, NEW j \in JobIds, SubmitJob(n, j) PROVE WorkFrom
  BY <1>3 DEF SubmitJob, Goto, async, row, go, budget, rest, quiet, calm
<1>4. ASSUME NEW n \in Nodes, NEW w \in Workers, NEW j \in JobIds, Offer(n, w, j) PROVE WorkFrom
  BY <1>4 DEF Offer, Step, Due, async, row, go, budget, rest, quiet, calm
<1>5. ASSUME NEW n \in Nodes, Crash(n) PROVE WorkFrom
  BY <1>5 DEF Crash, Gone, async, row, go, budget, rest, quiet, calm
<1>6. ASSUME Tick PROVE WorkFrom
  BY <1>6 DEF Tick, async, row, go, budget, rest, quiet, calm
<1>7. ASSUME NEW n \in Nodes, EditEndpoint(n) \/ ReloadEndpoint(n) PROVE WorkFrom
  BY <1>7, EndpointAlone DEF async, row, go
<1>8. CASE UNCHANGED vars BY <1>8 DEF vars, async, row, go, budget, rest, quiet, calm
<1> QED BY <1>1, <1>2, <1>3, <1>4, <1>5, <1>6, <1>7, <1>8 DEF Next

LEMMA RecordFromStep == TypeOK /\ Placed /\ [Next]_vars => RecordFrom
<1> SUFFICES ASSUME TypeOK, Placed, [Next]_vars PROVE RecordFrom
  OBVIOUS
<1> USE WebhooksAssumption DEF TypeOK, Placed, RecordFrom
<1>1. ASSUME NEW j \in JobIds, Execute(j) PROVE RecordFrom
  <2>1. CASE MarkProcessing(j)
    <3>1. CASE UNCHANGED status
      BY <2>1, <3>1 DEF MarkProcessing, Goto, async, row, go, budget, rest, quiet, calm
    <3>2. CASE status' = [status EXCEPT ![j] = IF @ = "gone" THEN @ ELSE "processing"]
      BY <2>1, <3>2 DEF MarkProcessing, Goto, async, row, go, budget, rest, quiet, calm
    <3> QED BY <2>1, <3>1, <3>2 DEF MarkProcessing
  <2>2. CASE Operation(j) BY <2>2 DEF Operation, Goto, async, row, go, budget, rest, quiet, calm
  <2>3. CASE Finish(j)
    <3>1. CASE Faulty /\ Goto(j, "done") /\ UNCHANGED status
      BY <2>3, <3>1 DEF Finish, Goto, async, row, go, budget, rest, quiet, calm
    <3>2. CASE status' = [status EXCEPT ![j] = IF @ = "gone" THEN @ ELSE end[j]] /\ Goto(j, "enqueue")
      BY <2>3, <3>2 DEF Finish, Goto, async, row, go, budget, rest, quiet, calm
    <3> QED BY <2>3, <3>1, <3>2 DEF Finish
  <2>4. CASE Unwanted(j) BY <2>4 DEF Unwanted, Goto, async, row, go, budget, rest, quiet, calm
  <2>5. CASE EnqueueJobEvent(j)
    <3>1. CASE ~queued[j] /\ Insert(j)
      BY <2>5, <3>1 DEF EnqueueJobEvent, Insert, Goto, async, row, go, budget, rest, quiet, calm
    <3>2. CASE UNCHANGED <<row, history>>
      BY <2>5, <3>2 DEF EnqueueJobEvent, Goto, async, row, go, budget, rest, quiet, calm
    <3> QED BY <2>5, <3>1, <3>2 DEF EnqueueJobEvent
  <2>6. CASE Reap(j) BY <2>6 DEF Reap, async, row, go, budget, rest, quiet, calm
  <2>7. CASE Redeliver(j) BY <2>7 DEF Redeliver, Insert, async, row, go, budget, rest, quiet, calm
  <2> QED BY <1>1, <2>1, <2>2, <2>3, <2>4, <2>5, <2>6, <2>7 DEF Execute
<1>2. ASSUME NEW w \in Workers, Work(w) PROVE RecordFrom
  <2>1. CASE Resolve(w) BY <2>1 DEF Resolve, Step, async, row, go, budget, rest, quiet, calm
  <2>2. CASE Claim(w) BY <2>2 DEF Claim, TakeRow, Step, Due, async, row, go, budget, rest, quiet, calm
  <2>3. CASE NotClaimed(w)
    <3>1. CASE UNCHANGED row
      BY <2>3, <3>1 DEF NotClaimed, Leave, Gone, async, row, go, budget, rest, quiet, calm
    <3>2. CASE Due(job[w]) /\ lease[w] > now /\ TakeRow(w)
      BY <2>3, <3>2 DEF NotClaimed, TakeRow, Leave, Gone, Due, async, row, go, budget, rest, quiet, calm
    <3> QED BY <2>3, <3>1, <3>2 DEF NotClaimed
  <2>4. CASE Read(w)
    <3>1. CASE Leave(w)
      BY <2>4, <3>1 DEF Read, Leave, Gone, async, row, go, budget, rest, quiet, calm
    <3>2. CASE Conclude(w, "permanent", FALSE)
      BY <2>4, <3>2 DEF Read, Conclude, Step, async, row, go, budget, rest, quiet, calm
    <3>3. CASE Step(w, "send") /\ UNCHANGED <<on, job, snap, seen, lease, at, out, touch, ticket, slots, faults>>
      BY <2>4, <3>3 DEF Read, Step, async, row, go, budget, rest, quiet, calm
    <3> QED BY <2>4, <3>1, <3>2, <3>3 DEF Read
  <2>5. CASE Deliver(w) BY <2>5, ZenonT(60) DEF Deliver, Conclude, Step, Outcome, Body, async, row, go, budget, rest, quiet, calm
  <2>6. CASE Record(w)
    <3>1. CASE history' = [history EXCEPT ![job[w]] = @ \cup {out[w]}] /\ Step(w, "queue") /\ UNCHANGED <<on, job, snap, seen, lease, at, out, touch, ticket, slots, faults>>
      BY <2>6, <3>1 DEF Record, Step, async, row, go, budget, rest, quiet, calm
    <3>2. CASE Leave(w) /\ UNCHANGED history
      BY <2>6, <3>2 DEF Record, Leave, Gone, async, row, go, budget, rest, quiet, calm
    <3>3. CASE Leave(w) /\ history' = [history EXCEPT ![job[w]] = @ \cup {out[w]}]
      BY <2>6, <3>3 DEF Record, Leave, Gone, async, row, go, budget, rest, quiet, calm
    <3> QED BY <2>6, <3>1, <3>2, <3>3 DEF Record
  <2>7. CASE Requeue(w)
    <3>1. CASE (Step(w, "counters") /\ UNCHANGED <<on, job, snap, seen, lease, at, out, touch, ticket, slots>>) /\ Holds(w) /\ out[w] = "retryable" /\ Reschedule(job[w], at[w] + Backoff)
      BY <2>7, <3>1 DEF Requeue, Step, Holds, Reschedule, async, row, go, budget, rest, quiet, calm
    <3>2. CASE (Step(w, "counters") /\ UNCHANGED <<on, job, snap, seen, lease, at, out, touch, ticket, slots>>) /\ Holds(w) /\ out[w] # "retryable" /\ Retire(job[w])
      BY <2>7, <3>2 DEF Requeue, Step, Holds, Retire, async, row, go, budget, rest, quiet, calm
    <3>3. CASE (Step(w, "counters") /\ UNCHANGED <<on, job, snap, seen, lease, at, out, touch, ticket, slots>>) /\ UNCHANGED row
      BY <2>7, <3>3 DEF Requeue, Step, async, row, go, budget, rest, quiet, calm
    <3>4. CASE Leave(w) /\ Holds(w) /\ out[w] = "retryable" /\ Reschedule(job[w], at[w] + Backoff)
      BY <2>7, <3>4 DEF Requeue, Leave, Gone, Holds, Reschedule, async, row, go, budget, rest, quiet, calm
    <3>5. CASE Leave(w) /\ Holds(w) /\ out[w] # "retryable" /\ Retire(job[w])
      BY <2>7, <3>5 DEF Requeue, Leave, Gone, Holds, Retire, async, row, go, budget, rest, quiet, calm
    <3>6. CASE Leave(w) /\ UNCHANGED row
      BY <2>7, <3>6 DEF Requeue, Leave, Gone, async, row, go, budget, rest, quiet, calm
    <3> QED BY <2>7, <3>1, <3>2, <3>3, <3>4, <3>5, <3>6 DEF Requeue
  <2>8. CASE Count(w) BY <2>8 DEF Count, Leave, Gone, async, row, go, budget, rest, quiet, calm
  <2> QED BY <1>2, <2>1, <2>2, <2>3, <2>4, <2>5, <2>6, <2>7, <2>8 DEF Work
<1>3. ASSUME NEW n \in Nodes, NEW j \in JobIds, SubmitJob(n, j) PROVE RecordFrom
  BY <1>3 DEF SubmitJob, Goto, async, row, go, budget, rest, quiet, calm
<1>4. ASSUME NEW n \in Nodes, NEW w \in Workers, NEW j \in JobIds, Offer(n, w, j) PROVE RecordFrom
  BY <1>4 DEF Offer, Step, Due, async, row, go, budget, rest, quiet, calm
<1>5. ASSUME NEW n \in Nodes, Crash(n) PROVE RecordFrom
  BY <1>5 DEF Crash, Gone, async, row, go, budget, rest, quiet, calm
<1>6. ASSUME Tick PROVE RecordFrom
  BY <1>6 DEF Tick, async, row, go, budget, rest, quiet, calm
<1>7. ASSUME NEW n \in Nodes, EditEndpoint(n) \/ ReloadEndpoint(n) PROVE RecordFrom
  BY <1>7, EndpointAlone DEF async, row, go
<1>8. CASE UNCHANGED vars BY <1>8 DEF vars, async, row, go, budget, rest, quiet, calm
<1> QED BY <1>1, <1>2, <1>3, <1>4, <1>5, <1>6, <1>7, <1>8 DEF Next

LEMMA Room == \A m \in Nat : ~(m + 1 > MaxRetries) => m < MaxRetries
BY WebhooksAssumption

LateGrows == late \subseteq late'
RetryFrom == \A u \in Workers :
  pc'[u] \in {"record", "queue"} /\ out'[u] = "retryable" =>
    (pc[u] \in {"record", "queue"} /\ out[u] = "retryable" /\ snap'[u] = snap[u]) \/ snap'[u] < MaxRetries

LEMMA LateGrowsStep == TypeOK /\ Placed /\ [Next]_vars => LateGrows
<1> SUFFICES ASSUME TypeOK, Placed, [Next]_vars PROVE LateGrows
  OBVIOUS
<1> USE WebhooksAssumption DEF LateGrows
<1>1. ASSUME NEW j \in JobIds, Execute(j) PROVE LateGrows
  <2>1. CASE MarkProcessing(j)
    <3>1. CASE UNCHANGED status
      BY <2>1, <3>1 DEF MarkProcessing, Goto, async, row, go, budget, rest, quiet, calm
    <3>2. CASE status' = [status EXCEPT ![j] = IF @ = "gone" THEN @ ELSE "processing"]
      BY <2>1, <3>2 DEF MarkProcessing, Goto, async, row, go, budget, rest, quiet, calm
    <3> QED BY <2>1, <3>1, <3>2 DEF MarkProcessing
  <2>2. CASE Operation(j) BY <2>2 DEF Operation, Goto, async, row, go, budget, rest, quiet, calm
  <2>3. CASE Finish(j)
    <3>1. CASE Faulty /\ Goto(j, "done") /\ UNCHANGED status
      BY <2>3, <3>1 DEF Finish, Goto, async, row, go, budget, rest, quiet, calm
    <3>2. CASE status' = [status EXCEPT ![j] = IF @ = "gone" THEN @ ELSE end[j]] /\ Goto(j, "enqueue")
      BY <2>3, <3>2 DEF Finish, Goto, async, row, go, budget, rest, quiet, calm
    <3> QED BY <2>3, <3>1, <3>2 DEF Finish
  <2>4. CASE Unwanted(j) BY <2>4 DEF Unwanted, Goto, async, row, go, budget, rest, quiet, calm
  <2>5. CASE EnqueueJobEvent(j)
    <3>1. CASE ~queued[j] /\ Insert(j)
      BY <2>5, <3>1 DEF EnqueueJobEvent, Insert, Goto, async, row, go, budget, rest, quiet, calm
    <3>2. CASE UNCHANGED <<row, history>>
      BY <2>5, <3>2 DEF EnqueueJobEvent, Goto, async, row, go, budget, rest, quiet, calm
    <3> QED BY <2>5, <3>1, <3>2 DEF EnqueueJobEvent
  <2>6. CASE Reap(j) BY <2>6 DEF Reap, async, row, go, budget, rest, quiet, calm
  <2>7. CASE Redeliver(j) BY <2>7 DEF Redeliver, Insert, async, row, go, budget, rest, quiet, calm
  <2> QED BY <1>1, <2>1, <2>2, <2>3, <2>4, <2>5, <2>6, <2>7 DEF Execute
<1>2. ASSUME NEW w \in Workers, Work(w) PROVE LateGrows
  <2>1. CASE Resolve(w) BY <2>1 DEF Resolve, Step, async, row, go, budget, rest, quiet, calm
  <2>2. CASE Claim(w) BY <2>2 DEF Claim, TakeRow, Step, Due, async, row, go, budget, rest, quiet, calm
  <2>3. CASE NotClaimed(w)
    <3>1. CASE UNCHANGED row
      BY <2>3, <3>1 DEF NotClaimed, Leave, Gone, async, row, go, budget, rest, quiet, calm
    <3>2. CASE Due(job[w]) /\ lease[w] > now /\ TakeRow(w)
      BY <2>3, <3>2 DEF NotClaimed, TakeRow, Leave, Gone, Due, async, row, go, budget, rest, quiet, calm
    <3> QED BY <2>3, <3>1, <3>2 DEF NotClaimed
  <2>4. CASE Read(w)
    <3>1. CASE Leave(w)
      BY <2>4, <3>1 DEF Read, Leave, Gone, async, row, go, budget, rest, quiet, calm
    <3>2. CASE Conclude(w, "permanent", FALSE)
      BY <2>4, <3>2 DEF Read, Conclude, Step, async, row, go, budget, rest, quiet, calm
    <3>3. CASE Step(w, "send") /\ UNCHANGED <<on, job, snap, seen, lease, at, out, touch, ticket, slots, faults>>
      BY <2>4, <3>3 DEF Read, Step, async, row, go, budget, rest, quiet, calm
    <3> QED BY <2>4, <3>1, <3>2, <3>3 DEF Read
  <2>5. CASE Deliver(w) BY <2>5 DEF Deliver, Conclude, Step, Outcome, Body, async, row, go, budget, rest, quiet, calm
  <2>6. CASE Record(w)
    <3>1. CASE history' = [history EXCEPT ![job[w]] = @ \cup {out[w]}] /\ Step(w, "queue") /\ UNCHANGED <<on, job, snap, seen, lease, at, out, touch, ticket, slots, faults>>
      BY <2>6, <3>1 DEF Record, Step, async, row, go, budget, rest, quiet, calm
    <3>2. CASE Leave(w) /\ UNCHANGED history
      BY <2>6, <3>2 DEF Record, Leave, Gone, async, row, go, budget, rest, quiet, calm
    <3>3. CASE Leave(w) /\ history' = [history EXCEPT ![job[w]] = @ \cup {out[w]}]
      BY <2>6, <3>3 DEF Record, Leave, Gone, async, row, go, budget, rest, quiet, calm
    <3> QED BY <2>6, <3>1, <3>2, <3>3 DEF Record
  <2>7. CASE Requeue(w)
    <3>1. CASE (Step(w, "counters") /\ UNCHANGED <<on, job, snap, seen, lease, at, out, touch, ticket, slots>>) /\ Holds(w) /\ out[w] = "retryable" /\ Reschedule(job[w], at[w] + Backoff)
      BY <2>7, <3>1 DEF Requeue, Step, Holds, Reschedule, async, row, go, budget, rest, quiet, calm
    <3>2. CASE (Step(w, "counters") /\ UNCHANGED <<on, job, snap, seen, lease, at, out, touch, ticket, slots>>) /\ Holds(w) /\ out[w] # "retryable" /\ Retire(job[w])
      BY <2>7, <3>2 DEF Requeue, Step, Holds, Retire, async, row, go, budget, rest, quiet, calm
    <3>3. CASE (Step(w, "counters") /\ UNCHANGED <<on, job, snap, seen, lease, at, out, touch, ticket, slots>>) /\ UNCHANGED row
      BY <2>7, <3>3 DEF Requeue, Step, async, row, go, budget, rest, quiet, calm
    <3>4. CASE Leave(w) /\ Holds(w) /\ out[w] = "retryable" /\ Reschedule(job[w], at[w] + Backoff)
      BY <2>7, <3>4 DEF Requeue, Leave, Gone, Holds, Reschedule, async, row, go, budget, rest, quiet, calm
    <3>5. CASE Leave(w) /\ Holds(w) /\ out[w] # "retryable" /\ Retire(job[w])
      BY <2>7, <3>5 DEF Requeue, Leave, Gone, Holds, Retire, async, row, go, budget, rest, quiet, calm
    <3>6. CASE Leave(w) /\ UNCHANGED row
      BY <2>7, <3>6 DEF Requeue, Leave, Gone, async, row, go, budget, rest, quiet, calm
    <3> QED BY <2>7, <3>1, <3>2, <3>3, <3>4, <3>5, <3>6 DEF Requeue
  <2>8. CASE Count(w) BY <2>8 DEF Count, Leave, Gone, async, row, go, budget, rest, quiet, calm
  <2> QED BY <1>2, <2>1, <2>2, <2>3, <2>4, <2>5, <2>6, <2>7, <2>8 DEF Work
<1>3. ASSUME NEW n \in Nodes, NEW j \in JobIds, SubmitJob(n, j) PROVE LateGrows
  BY <1>3 DEF SubmitJob, Goto, async, row, go, budget, rest, quiet, calm
<1>4. ASSUME NEW n \in Nodes, NEW w \in Workers, NEW j \in JobIds, Offer(n, w, j) PROVE LateGrows
  BY <1>4 DEF Offer, Step, Due, async, row, go, budget, rest, quiet, calm
<1>5. ASSUME NEW n \in Nodes, Crash(n) PROVE LateGrows
  BY <1>5 DEF Crash, Gone, async, row, go, budget, rest, quiet, calm
<1>6. ASSUME Tick PROVE LateGrows
  BY <1>6 DEF Tick, async, row, go, budget, rest, quiet, calm
<1>7. ASSUME NEW n \in Nodes, EditEndpoint(n) \/ ReloadEndpoint(n) PROVE LateGrows
  BY <1>7, EndpointAlone DEF async, row, go
<1>8. CASE UNCHANGED vars BY <1>8 DEF vars, async, row, go, budget, rest, quiet, calm
<1> QED BY <1>1, <1>2, <1>3, <1>4, <1>5, <1>6, <1>7, <1>8 DEF Next

LEMMA RetryFromStep == TypeOK /\ Placed /\ [Next]_vars => RetryFrom
<1> SUFFICES ASSUME TypeOK, Placed, [Next]_vars PROVE RetryFrom
  OBVIOUS
<1> USE WebhooksAssumption DEF TypeOK, Placed, RetryFrom
<1>1. ASSUME NEW j \in JobIds, Execute(j) PROVE RetryFrom
  <2>1. CASE MarkProcessing(j)
    <3>1. CASE UNCHANGED status
      BY <2>1, <3>1 DEF MarkProcessing, Goto, async, row, go, budget, rest, quiet, calm
    <3>2. CASE status' = [status EXCEPT ![j] = IF @ = "gone" THEN @ ELSE "processing"]
      BY <2>1, <3>2 DEF MarkProcessing, Goto, async, row, go, budget, rest, quiet, calm
    <3> QED BY <2>1, <3>1, <3>2 DEF MarkProcessing
  <2>2. CASE Operation(j) BY <2>2 DEF Operation, Goto, async, row, go, budget, rest, quiet, calm
  <2>3. CASE Finish(j)
    <3>1. CASE Faulty /\ Goto(j, "done") /\ UNCHANGED status
      BY <2>3, <3>1 DEF Finish, Goto, async, row, go, budget, rest, quiet, calm
    <3>2. CASE status' = [status EXCEPT ![j] = IF @ = "gone" THEN @ ELSE end[j]] /\ Goto(j, "enqueue")
      BY <2>3, <3>2 DEF Finish, Goto, async, row, go, budget, rest, quiet, calm
    <3> QED BY <2>3, <3>1, <3>2 DEF Finish
  <2>4. CASE Unwanted(j) BY <2>4 DEF Unwanted, Goto, async, row, go, budget, rest, quiet, calm
  <2>5. CASE EnqueueJobEvent(j)
    <3>1. CASE ~queued[j] /\ Insert(j)
      BY <2>5, <3>1 DEF EnqueueJobEvent, Insert, Goto, async, row, go, budget, rest, quiet, calm
    <3>2. CASE UNCHANGED <<row, history>>
      BY <2>5, <3>2 DEF EnqueueJobEvent, Goto, async, row, go, budget, rest, quiet, calm
    <3> QED BY <2>5, <3>1, <3>2 DEF EnqueueJobEvent
  <2>6. CASE Reap(j) BY <2>6 DEF Reap, async, row, go, budget, rest, quiet, calm
  <2>7. CASE Redeliver(j) BY <2>7 DEF Redeliver, Insert, async, row, go, budget, rest, quiet, calm
  <2> QED BY <1>1, <2>1, <2>2, <2>3, <2>4, <2>5, <2>6, <2>7 DEF Execute
<1>2. ASSUME NEW w \in Workers, Work(w) PROVE RetryFrom
  <2>1. CASE Resolve(w) BY <2>1 DEF Resolve, Step, async, row, go, budget, rest, quiet, calm
  <2>2. CASE Claim(w) BY <2>2 DEF Claim, TakeRow, Step, Due, async, row, go, budget, rest, quiet, calm
  <2>3. CASE NotClaimed(w)
    <3>1. CASE UNCHANGED row
      BY <2>3, <3>1 DEF NotClaimed, Leave, Gone, async, row, go, budget, rest, quiet, calm
    <3>2. CASE Due(job[w]) /\ lease[w] > now /\ TakeRow(w)
      BY <2>3, <3>2 DEF NotClaimed, TakeRow, Leave, Gone, Due, async, row, go, budget, rest, quiet, calm
    <3> QED BY <2>3, <3>1, <3>2 DEF NotClaimed
  <2>4. CASE Read(w)
    <3>1. CASE Leave(w)
      BY <2>4, <3>1 DEF Read, Leave, Gone, async, row, go, budget, rest, quiet, calm
    <3>2. CASE Conclude(w, "permanent", FALSE)
      BY <2>4, <3>2 DEF Read, Conclude, Step, async, row, go, budget, rest, quiet, calm
    <3>3. CASE Step(w, "send") /\ UNCHANGED <<on, job, snap, seen, lease, at, out, touch, ticket, slots, faults>>
      BY <2>4, <3>3 DEF Read, Step, async, row, go, budget, rest, quiet, calm
    <3> QED BY <2>4, <3>1, <3>2, <3>3 DEF Read
  <2>5. CASE Deliver(w)
    <3>1. PICK o \in {"delivered", "retryable", "permanent"} : Conclude(w, Outcome(snap[w] + 1, o), TRUE) BY <2>5 DEF Deliver
    <3>2. snap[w] \in Nat OBVIOUS
    <3>3. ~(snap[w] + 1 > MaxRetries) => snap[w] < MaxRetries BY <3>2, Room
    <3>4. Outcome(snap[w] + 1, o) = "retryable" => snap[w] < MaxRetries BY <3>3 DEF Outcome
    <3> QED BY <2>5, <3>1, <3>4 DEF Deliver, Conclude, Step, async, row, go, budget, rest, quiet, calm
  <2>6. CASE Record(w)
    <3>1. CASE history' = [history EXCEPT ![job[w]] = @ \cup {out[w]}] /\ Step(w, "queue") /\ UNCHANGED <<on, job, snap, seen, lease, at, out, touch, ticket, slots, faults>>
      BY <2>6, <3>1 DEF Record, Step, async, row, go, budget, rest, quiet, calm
    <3>2. CASE Leave(w) /\ UNCHANGED history
      BY <2>6, <3>2 DEF Record, Leave, Gone, async, row, go, budget, rest, quiet, calm
    <3>3. CASE Leave(w) /\ history' = [history EXCEPT ![job[w]] = @ \cup {out[w]}]
      BY <2>6, <3>3 DEF Record, Leave, Gone, async, row, go, budget, rest, quiet, calm
    <3> QED BY <2>6, <3>1, <3>2, <3>3 DEF Record
  <2>7. CASE Requeue(w)
    <3>1. CASE (Step(w, "counters") /\ UNCHANGED <<on, job, snap, seen, lease, at, out, touch, ticket, slots>>) /\ Holds(w) /\ out[w] = "retryable" /\ Reschedule(job[w], at[w] + Backoff)
      BY <2>7, <3>1 DEF Requeue, Step, Holds, Reschedule, async, row, go, budget, rest, quiet, calm
    <3>2. CASE (Step(w, "counters") /\ UNCHANGED <<on, job, snap, seen, lease, at, out, touch, ticket, slots>>) /\ Holds(w) /\ out[w] # "retryable" /\ Retire(job[w])
      BY <2>7, <3>2 DEF Requeue, Step, Holds, Retire, async, row, go, budget, rest, quiet, calm
    <3>3. CASE (Step(w, "counters") /\ UNCHANGED <<on, job, snap, seen, lease, at, out, touch, ticket, slots>>) /\ UNCHANGED row
      BY <2>7, <3>3 DEF Requeue, Step, async, row, go, budget, rest, quiet, calm
    <3>4. CASE Leave(w) /\ Holds(w) /\ out[w] = "retryable" /\ Reschedule(job[w], at[w] + Backoff)
      BY <2>7, <3>4 DEF Requeue, Leave, Gone, Holds, Reschedule, async, row, go, budget, rest, quiet, calm
    <3>5. CASE Leave(w) /\ Holds(w) /\ out[w] # "retryable" /\ Retire(job[w])
      BY <2>7, <3>5 DEF Requeue, Leave, Gone, Holds, Retire, async, row, go, budget, rest, quiet, calm
    <3>6. CASE Leave(w) /\ UNCHANGED row
      BY <2>7, <3>6 DEF Requeue, Leave, Gone, async, row, go, budget, rest, quiet, calm
    <3> QED BY <2>7, <3>1, <3>2, <3>3, <3>4, <3>5, <3>6 DEF Requeue
  <2>8. CASE Count(w) BY <2>8 DEF Count, Leave, Gone, async, row, go, budget, rest, quiet, calm
  <2> QED BY <1>2, <2>1, <2>2, <2>3, <2>4, <2>5, <2>6, <2>7, <2>8 DEF Work
<1>3. ASSUME NEW n \in Nodes, NEW j \in JobIds, SubmitJob(n, j) PROVE RetryFrom
  BY <1>3 DEF SubmitJob, Goto, async, row, go, budget, rest, quiet, calm
<1>4. ASSUME NEW n \in Nodes, NEW w \in Workers, NEW j \in JobIds, Offer(n, w, j) PROVE RetryFrom
  BY <1>4 DEF Offer, Step, Due, async, row, go, budget, rest, quiet, calm
<1>5. ASSUME NEW n \in Nodes, Crash(n) PROVE RetryFrom
  BY <1>5 DEF Crash, Gone, async, row, go, budget, rest, quiet, calm
<1>6. ASSUME Tick PROVE RetryFrom
  BY <1>6 DEF Tick, async, row, go, budget, rest, quiet, calm
<1>7. ASSUME NEW n \in Nodes, EditEndpoint(n) \/ ReloadEndpoint(n) PROVE RetryFrom
  BY <1>7, EndpointAlone DEF async, row, go
<1>8. CASE UNCHANGED vars BY <1>8 DEF vars, async, row, go, budget, rest, quiet, calm
<1> QED BY <1>1, <1>2, <1>3, <1>4, <1>5, <1>6, <1>7, <1>8 DEF Next

(***************************************************************************)
(* The history: what the latest claim's goroutine settles is recorded.     *)
(***************************************************************************)
Recorded ==
  /\ \A w \in Workers : pc[w] = "queue" /\ ticket[w] = claims[job[w]] => out[w] \in history[job[w]]
  /\ RetiredIsRecorded

LEMMA RecordedStep == TypeOK /\ TypeOK' /\ Placed /\ Claims /\ Recorded /\ [Next]_vars => Recorded'
<1> SUFFICES ASSUME TypeOK, TypeOK', Placed, Claims, Recorded, Kind, HistoryGrows, RecordFrom PROVE Recorded'
  BY StepKinds, HistoryGrowsStep, RecordFromStep
<1>1. ASSUME NEW u \in Workers, pc'[u] = "queue", ticket'[u] = claims'[job'[u]] PROVE out'[u] \in history'[job'[u]]
  <2> SUFFICES ASSUME pc[u] = "queue", out'[u] = out[u], job'[u] = job[u] PROVE out'[u] \in history'[job'[u]]
    BY <1>1 DEF RecordFrom
  <2>1. job[u] \in JobIds /\ pc[u] \in Writing /\ pc'[u] \in Writing BY <1>1 DEF Placed, Writing, Claimed
  <2>2. ticket[u] <= claims[job[u]] /\ ticket[u] \in Nat /\ claims[job[u]] \in Nat BY <2>1 DEF Claims, Latest, TypeOK
  <2>3. ticket[u] = claims[job[u]]
    <3>1. ASSUME NEW w \in Workers, Wins(w) PROVE ticket[u] = claims[job[u]]
      <4>1. u # w /\ Same(u) BY <2>1, <3>1 DEF Wins, Keep
      <4>2. claims' = [claims EXCEPT ![job[w]] = @ + 1] BY <3>1 DEF Wins, TakeRow
      <4>3. claims \in [JobIds -> Nat] BY DEF TypeOK
      <4>4. ticket[u] = claims'[job[u]] BY <1>1, <4>1 DEF Same
      <4>5. CASE job[u] = job[w]
        <5>1. claims'[job[u]] = claims[job[u]] + 1 BY <2>1, <4>2, <4>3, <4>5
        <5> QED BY <2>2, <4>4, <5>1
      <4>6. CASE job[u] # job[w] BY <2>1, <4>2, <4>3, <4>4, <4>6
      <4> QED BY <4>5, <4>6
    <3>2. CASE claims' = claims /\ Same(u) BY <1>1, <3>2 DEF Same
    <3> QED BY <2>1, <3>1, <3>2 DEF Kind, Idles, Inserts, Insert, LetsGo, Reschedule, Retire, Keep
  <2>4. queued[job[u]] BY <2>1, <2>3 DEF Claims, Latest
  <2> QED BY <2>1, <2>3, <2>4 DEF Recorded, HistoryGrows
<1>2. ASSUME NEW j \in JobIds, claims'[j] > 0, ~queued'[j] PROVE history'[j] \cap Settled # {}
  <2> SUFFICES history[j] \cap Settled # {}
    BY <1>2 DEF HistoryGrows
  <2>1. CASE queued'[j] = queued[j] /\ claims'[j] = claims[j] BY <1>2, <2>1 DEF Recorded, RetiredIsRecorded
  <2>2. CASE Idles BY <2>1, <2>2 DEF Idles
  <2>3. ASSUME NEW i \in JobIds, Inserts(i) PROVE history[j] \cap Settled # {}
    <3>1. queued' = [queued EXCEPT ![i] = TRUE] /\ claims' = claims BY <2>3 DEF Inserts, Insert
    <3>2. queued \in [JobIds -> BOOLEAN] BY DEF TypeOK
    <3>3. i # j BY <1>2, <3>1, <3>2
    <3> QED BY <2>1, <3>1, <3>2, <3>3
  <2>4. ASSUME NEW w \in Workers, Wins(w) PROVE history[j] \cap Settled # {}
    <3>1. queued' = queued /\ queued[job[w]] /\ claims' = [claims EXCEPT ![job[w]] = @ + 1] BY <2>4 DEF Wins, TakeRow, Due
    <3>2. claims \in [JobIds -> Nat] BY DEF TypeOK
    <3>3. j # job[w] BY <1>2, <3>1
    <3> QED BY <2>1, <3>1, <3>2, <3>3
  <2>5. ASSUME NEW w \in Workers, LetsGo(w) PROVE history[j] \cap Settled # {}
    <3>1. CASE Reschedule(job[w], at[w] + Backoff) BY <2>1, <3>1 DEF Reschedule
    <3>2. CASE out[w] # "retryable" /\ Retire(job[w])
      <4>1. queued' = [queued EXCEPT ![job[w]] = FALSE] /\ claims' = claims BY <3>2 DEF Retire
      <4>2. queued \in [JobIds -> BOOLEAN] BY DEF TypeOK
      <4>3. CASE j # job[w] BY <2>1, <4>1, <4>2, <4>3
      <4>4. CASE j = job[w]
        <5>1. ticket[w] = claims[job[w]] BY <2>5, HoldsLatest DEF LetsGo, Writing, Claimed
        <5>2. out[w] \in history[j] BY <2>5, <4>4, <5>1 DEF LetsGo, Recorded
        <5>3. out[w] \in Settled BY <2>5, <3>2 DEF LetsGo, Placed, Settled
        <5> QED BY <5>2, <5>3
      <4> QED BY <4>3, <4>4
    <3> QED BY <2>5, <3>1, <3>2 DEF LetsGo
  <2> QED BY <2>2, <2>3, <2>4, <2>5 DEF Kind
<1> QED BY <1>1, <1>2 DEF Recorded, RetiredIsRecorded

(***************************************************************************)
(* The truth: a delivery exists only for a job whose end was written.      *)
(***************************************************************************)
LEMMA AnnouncedStep == TypeOK /\ Placed /\ Announced /\ [Next]_vars => Announced'
<1> SUFFICES ASSUME TypeOK, Placed, Announced, EndsStay, EndsFrom, QueuedFrom, HistoryFrom, ToldFrom, WorkFrom,
                    NEW j \in JobIds
             PROVE  /\ ex'[j] = "enqueue" \/ queued'[j] \/ history'[j] # {} \/ told'[j] # {} \/ Attended(j)' => Ended(j)'
                    /\ ex'[j] = "finish" => end'[j] \in Ends
                    /\ told'[j] \subseteq {end'[j]}
  BY EndsStayStep, EndsFromStep, QueuedFromStep, HistoryFromStep, ToldFromStep, WorkFromStep DEF Announced
<1>1. Ended(j) => Ended(j)' BY DEF EndsStay, Ended
<1>2. ASSUME ex'[j] = "enqueue" PROVE Ended(j)'
  <2>1. CASE ex[j] = "enqueue" BY <1>1, <2>1 DEF Announced
  <2>2. CASE ex[j] = "finish" /\ end'[j] = end[j] /\ status'[j] \in {end[j], "gone"} BY <1>2, <2>2 DEF Announced, Ended
  <2> QED BY <1>2, <2>1, <2>2 DEF EndsFrom
<1>3. ASSUME queued'[j] PROVE Ended(j)' BY <1>1, <1>3 DEF QueuedFrom, Announced
<1>4. ASSUME history'[j] # {} PROVE Ended(j)' BY <1>1, <1>4 DEF HistoryFrom, Announced
<1>5. ASSUME told'[j] # {} PROVE Ended(j)' BY <1>1, <1>5 DEF ToldFrom, Announced
<1>6. ASSUME Attended(j)' PROVE Ended(j)'
  <2>1. PICK u \in Workers : pc'[u] # "idle" /\ job'[u] = j BY <1>6 DEF Attended
  <2>2. Attended(j) \/ queued[j] BY <2>1 DEF WorkFrom, Attended
  <2> QED BY <1>1, <2>2 DEF Announced
<1>7. ex'[j] = "finish" => end'[j] \in Ends BY DEF EndsFrom, Announced
<1>8. told'[j] \subseteq {end'[j]}
  <2>1. CASE told'[j] = {} BY <2>1
  <2>2. CASE told'[j] # {}
    <3>1. Ended(j) BY <2>2 DEF ToldFrom, Announced
    <3>2. Body(j) = end[j] /\ end'[j] = end[j] BY <3>1 DEF Body, Ended, EndsStay
    <3> QED BY <3>2 DEF ToldFrom, Announced
  <2> QED BY <2>1, <2>2
<1> QED BY <1>2, <1>3, <1>4, <1>5, <1>6, <1>7, <1>8

LEMMA AnnouncedTrue == Announced => ToldTheTruth
BY DEF Announced, Ended, ToldTheTruth

(***************************************************************************)
(* The retries: the latest claim's goroutine knows the row's count, unless *)
(* the claim came late.                                                    *)
(***************************************************************************)
Retries ==
  /\ \A w \in Workers :
       /\ pc[w] \in Writing /\ ticket[w] = claims[job[w]] /\ job[w] \notin late => snap[w] = count[job[w]]
       /\ pc[w] \in {"record", "queue"} /\ out[w] = "retryable" => snap[w] < MaxRetries
  /\ RetriesBounded

LEMMA RetriesStep == TypeOK /\ TypeOK' /\ Placed /\ Claims /\ Retries /\ [Next]_vars => Retries'
<1> SUFFICES ASSUME TypeOK, TypeOK', Placed, Claims, Retries, Kind, LateGrows, RetryFrom PROVE Retries'
  BY StepKinds, LateGrowsStep, RetryFromStep
<1>1. ASSUME NEW u \in Workers, pc'[u] \in Writing, ticket'[u] = claims'[job'[u]], job'[u] \notin late'
      PROVE  snap'[u] = count'[job'[u]]
  <2>1. Same(u) => /\ job[u] \in JobIds /\ ticket[u] <= claims[job[u]] /\ ticket[u] \in Nat /\ claims[job[u]] \in Nat
                   /\ job[u] \notin late
    BY <1>1 DEF Same, Placed, Writing, Claimed, Claims, Latest, TypeOK, LateGrows
  <2>2. CASE Idles BY <1>1, <2>1, <2>2 DEF Idles, Keep, Same, Retries
  <2>3. ASSUME NEW i \in JobIds, Inserts(i) PROVE snap'[u] = count'[job'[u]]
    <3>1. Same(u) BY <1>1, <2>3 DEF Inserts, Keep
    <3>2. claims' = claims /\ count' = [count EXCEPT ![i] = 0] BY <2>3 DEF Inserts, Insert
    <3>3. queued[job[u]] BY <1>1, <2>1, <3>1, <3>2 DEF Same, Claims, Latest
    <3>4. job[u] # i BY <2>3, <3>3 DEF Inserts
    <3>5. count \in [JobIds -> Nat] BY DEF TypeOK
    <3> QED BY <1>1, <2>1, <3>1, <3>2, <3>4, <3>5 DEF Same, Retries
  <2>4. ASSUME NEW w \in Workers, Wins(w) PROVE snap'[u] = count'[job'[u]]
    <3>1. count' = count /\ claims' = [claims EXCEPT ![job[w]] = @ + 1] BY <2>4 DEF Wins, TakeRow
    <3>2. claims \in [JobIds -> Nat] BY DEF TypeOK
    <3>3. CASE u = w BY <1>1, <2>4, <3>1, <3>3 DEF Wins
    <3>4. CASE u # w
      <4>1. Same(u) BY <1>1, <2>4, <3>4 DEF Wins, Keep
      <4>2. ticket[u] = claims[job[u]] BY <1>1, <2>1, <3>1, <3>2, <4>1 DEF Same
      <4> QED BY <2>1, <3>1, <4>1, <4>2 DEF Same, Retries
    <3> QED BY <3>3, <3>4
  <2>5. ASSUME NEW w \in Workers, LetsGo(w) PROVE snap'[u] = count'[job'[u]]
    <3>1. Same(u) /\ u # w BY <1>1, <2>5 DEF LetsGo, Keep
    <3>2. claims' = claims /\ (count' = [count EXCEPT ![job[w]] = @ + 1] \/ count' = [count EXCEPT ![job[w]] = 0])
      BY <2>5 DEF LetsGo, Reschedule, Retire
    <3>3. ticket[w] = claims[job[w]] /\ pc[w] \in Writing BY <2>5, HoldsLatest DEF LetsGo, Writing, Claimed
    <3>4. job[u] # job[w] BY <1>1, <3>1, <3>2, <3>3 DEF Same, Claims, Distinct
    <3>5. count \in [JobIds -> Nat] BY DEF TypeOK
    <3>6. count'[job[u]] = count[job[u]] BY <2>1, <3>1, <3>2, <3>4, <3>5
    <3> QED BY <1>1, <2>1, <3>1, <3>2, <3>6 DEF Same, Retries
  <2> QED BY <2>2, <2>3, <2>4, <2>5 DEF Kind
<1>2. ASSUME NEW u \in Workers, pc'[u] \in {"record", "queue"}, out'[u] = "retryable" PROVE snap'[u] < MaxRetries
  BY <1>2 DEF RetryFrom, Retries
<1>3. ASSUME NEW j \in JobIds \ late' PROVE count'[j] <= MaxRetries
  <2>1. j \in JobIds \ late /\ count[j] <= MaxRetries BY <1>3 DEF LateGrows, Retries, RetriesBounded
  <2>2. count \in [JobIds -> Nat] /\ MaxRetries \in Nat BY WebhooksAssumption DEF TypeOK
  <2>3. CASE count' = count BY <2>1, <2>3
  <2>4. ASSUME NEW i \in JobIds, count' = [count EXCEPT ![i] = 0] PROVE count'[j] <= MaxRetries BY <2>1, <2>2, <2>4
  <2>5. ASSUME NEW w \in Workers, LetsGo(w), out[w] = "retryable", count' = [count EXCEPT ![job[w]] = @ + 1]
        PROVE  count'[j] <= MaxRetries
    <3>1. CASE j # job[w] BY <2>1, <2>2, <2>5, <3>1
    <3>2. CASE j = job[w]
      <4>1. ticket[w] = claims[job[w]] /\ pc[w] \in Writing BY <2>5, HoldsLatest DEF LetsGo, Writing, Claimed
      <4>2. snap[w] = count[j] /\ snap[w] < MaxRetries BY <2>1, <2>5, <3>2, <4>1 DEF LetsGo, Retries
      <4> QED BY <2>1, <2>2, <2>5, <3>2, <4>2
    <3> QED BY <3>1, <3>2
  <2>6. ASSUME NEW w \in Workers, LetsGo(w) PROVE count'[j] <= MaxRetries
    <3>1. job[w] \in JobIds BY <2>6 DEF LetsGo, Placed
    <3> QED BY <2>4, <2>5, <2>6, <3>1 DEF LetsGo, Reschedule, Retire
  <2> QED BY <2>3, <2>4, <2>6 DEF Kind, Idles, Inserts, Insert, Wins, TakeRow
<1> QED BY <1>1, <1>2, <1>3 DEF Retries, RetriesBounded

(***************************************************************************)
(* Slots.                                                                  *)
(***************************************************************************)
Seated(n) == {w \in Workers : on[w] = n}

\* Every slot is held by a goroutine of its node, and an idle one is of no node.
Seating ==
  /\ slots \in [Nodes -> Nat]
  /\ \A w \in Workers : pc[w] = "idle" => on[w] = Nil
  /\ \A n \in Nodes : IsFiniteSet(Seated(n)) /\ slots[n] = Cardinality(Seated(n))

\* What a step does to the slots: nothing, a goroutine begins, it ends, a node crashes.
SeatsKept == UNCHANGED <<on, slots>> /\ \A u \in Workers : pc'[u] = "idle" => pc[u] = "idle"
SeatTaken ==
  \E n \in Nodes, w \in Workers :
    /\ pc[w] = "idle" /\ pc' = [pc EXCEPT ![w] = "listed"]
    /\ on' = [on EXCEPT ![w] = n] /\ slots' = [slots EXCEPT ![n] = @ + 1]
SeatLeft    == \E w \in Workers : pc[w] # "idle" /\ Leave(w)
SeatsLost   == \E n \in Nodes : Gone({w \in Workers : on[w] = n}) /\ slots' = [slots EXCEPT ![n] = 0]
SeatChange  == SeatsKept \/ SeatTaken \/ SeatLeft \/ SeatsLost

LEMMA SeatStep == TypeOK /\ [Next]_vars => SeatChange
<1> SUFFICES ASSUME TypeOK, [Next]_vars PROVE SeatChange
  OBVIOUS
<1>1. ASSUME NEW j \in JobIds, Execute(j) PROVE SeatChange
  <2>1. UNCHANGED <<on, slots, pc>>
    BY <1>1 DEF Execute, MarkProcessing, Operation, Finish, Unwanted, EnqueueJobEvent, Reap, Redeliver, quiet, go
  <2> QED BY <2>1 DEF SeatChange, SeatsKept
<1>2. ASSUME NEW w \in Workers, NEW l \in {"claim", "read", "send", "record", "queue", "counters"},
             Step(w, l), UNCHANGED <<on, slots>>
      PROVE  SeatChange
  BY <1>2 DEF TypeOK, Step, SeatChange, SeatsKept
<1>3. ASSUME NEW w \in Workers, pc[w] # "idle", Leave(w) PROVE SeatChange
  BY <1>3 DEF SeatChange, SeatLeft
<1>4. ASSUME NEW w \in Workers, Work(w) PROVE SeatChange
  <2>1. CASE Resolve(w) BY <1>2, <2>1 DEF Resolve
  <2>2. CASE Claim(w) BY <1>2, <2>2 DEF Claim
  <2>3. CASE NotClaimed(w) BY <1>3, <2>3 DEF NotClaimed
  <2>4. CASE Read(w) BY <1>2, <1>3, <2>4 DEF Read, Conclude
  <2>5. CASE Deliver(w) BY <1>2, <2>5 DEF Deliver, Conclude
  <2>6. CASE Record(w) BY <1>2, <1>3, <2>6 DEF Record
  <2>7. CASE Requeue(w)
    <3>1. pc[w] # "idle" BY <2>7 DEF Requeue
    <3>2. (Step(w, "counters") /\ UNCHANGED <<on, slots>>) \/ Leave(w) BY <2>7 DEF Requeue
    <3> QED BY <1>2, <1>3, <3>1, <3>2
  <2>8. CASE Count(w) BY <1>3, <2>8 DEF Count
  <2> QED BY <1>4, <2>1, <2>2, <2>3, <2>4, <2>5, <2>6, <2>7, <2>8 DEF Work
<1>5. ASSUME NEW n \in Nodes, NEW j \in JobIds, SubmitJob(n, j) PROVE SeatChange
  BY <1>5 DEF SubmitJob, quiet, go, SeatChange, SeatsKept
<1>6. ASSUME NEW n \in Nodes, NEW w \in Workers, NEW j \in JobIds, Offer(n, w, j) PROVE SeatChange
  BY <1>6 DEF Offer, Step, SeatChange, SeatTaken
<1>7. ASSUME NEW n \in Nodes, Crash(n) PROVE SeatChange
  BY <1>7 DEF Crash, SeatChange, SeatsLost
<1>8. ASSUME NEW n \in Nodes, EditEndpoint(n) \/ ReloadEndpoint(n) PROVE SeatChange
  <2>1. UNCHANGED <<on, slots, pc>> BY <1>8, EndpointAlone DEF go
  <2> QED BY <2>1 DEF SeatChange, SeatsKept
<1>9. CASE Tick \/ UNCHANGED vars
  <2>1. UNCHANGED <<on, slots, pc>> BY <1>9 DEF Tick, vars, go
  <2> QED BY <2>1 DEF SeatChange, SeatsKept
<1> QED BY <1>1, <1>4, <1>5, <1>6, <1>7, <1>8, <1>9 DEF Next

LEMMA SeatingStep == TypeOK /\ Placed /\ Seating /\ [Next]_vars => Seating'
<1> SUFFICES ASSUME TypeOK, Placed, Seating, SeatChange PROVE Seating'
  BY SeatStep
<1>1. \A n \in Nodes : IsFiniteSet(Seated(n)) /\ slots[n] = Cardinality(Seated(n)) /\ slots[n] \in Nat
  BY DEF Seating
<1>2. CASE SeatsKept
  <2>1. \A n \in Nodes : Seated(n)' = Seated(n) BY <1>2 DEF SeatsKept, Seated
  <2>2. \A w \in Workers : pc'[w] = "idle" => on'[w] = Nil BY <1>2 DEF SeatsKept, Seating
  <2>3. slots' = slots BY <1>2 DEF SeatsKept
  <2> QED BY <1>1, <2>1, <2>2, <2>3 DEF Seating
<1>3. CASE SeatTaken
  <2>1. PICK n \in Nodes, w \in Workers :
          /\ pc[w] = "idle" /\ pc' = [pc EXCEPT ![w] = "listed"]
          /\ on' = [on EXCEPT ![w] = n] /\ slots' = [slots EXCEPT ![n] = @ + 1]
    BY <1>3 DEF SeatTaken
  <2>2. on[w] = Nil BY <2>1 DEF Seating
  <2>3. Seated(n)' = Seated(n) \cup {w} /\ w \notin Seated(n)
    BY <2>1, <2>2, WebhooksAssumption, ZenonT(60) DEF TypeOK, Seated
  <2>4. \A m \in Nodes \ {n} : Seated(m)' = Seated(m)
    BY <2>1, <2>2, WebhooksAssumption DEF TypeOK, Seated
  <2>5. IsFiniteSet(Seated(n)') /\ Cardinality(Seated(n)') = Cardinality(Seated(n)) + 1
    BY <1>1, <2>3, FS_AddElement
  <2>6. slots' \in [Nodes -> Nat] /\ slots'[n] = slots[n] + 1 /\ \A m \in Nodes \ {n} : slots'[m] = slots[m]
    BY <1>1, <2>1 DEF Seating
  <2>7. \A v \in Workers : pc'[v] = "idle" => on'[v] = Nil BY <2>1 DEF TypeOK, Seating
  <2>8. \A m \in Nodes : IsFiniteSet(Seated(m)') /\ slots'[m] = Cardinality(Seated(m)')
    <3> TAKE m \in Nodes
    <3>1. CASE m = n BY <1>1, <2>5, <2>6, <3>1
    <3>2. CASE m # n BY <1>1, <2>4, <2>6, <3>2
    <3> QED BY <3>1, <3>2
  <2> QED BY <2>6, <2>7, <2>8 DEF Seating
<1>4. CASE SeatLeft
  <2>1. PICK w \in Workers : pc[w] # "idle" /\ Leave(w) BY <1>4 DEF SeatLeft
  <2>2. PICK n \in Nodes : n = on[w] BY <2>1 DEF Placed
  <2>3. on' = [v \in Workers |-> IF v = w THEN Nil ELSE on[v]] BY <2>1 DEF Leave, Gone
  <2>4. Seated(n)' = Seated(n) \ {w} /\ w \in Seated(n)
    BY <2>2, <2>3, WebhooksAssumption DEF TypeOK, Seated
  <2>5. \A m \in Nodes \ {n} : Seated(m)' = Seated(m)
    BY <2>2, <2>3, WebhooksAssumption DEF TypeOK, Seated
  <2>6. IsFiniteSet(Seated(n)') /\ Cardinality(Seated(n)') = Cardinality(Seated(n)) - 1
    BY <1>1, <2>2, <2>4, FS_RemoveElement
  <2>7. Cardinality(Seated(n)') \in Nat BY <2>6, FS_CardinalityType
  <2>8. slots' = [slots EXCEPT ![n] = @ - 1] BY <2>1, <2>2 DEF Leave
  <2>9. slots'[n] = Cardinality(Seated(n)') /\ \A m \in Nodes \ {n} : slots'[m] = slots[m]
    BY <1>1, <2>2, <2>6, <2>8 DEF Seating
  <2>10. slots' \in [Nodes -> Nat] BY <1>1, <2>2, <2>6, <2>7, <2>8 DEF Seating
  <2>11. \A v \in Workers : pc'[v] = "idle" => on'[v] = Nil
    BY <2>1, <2>3 DEF Leave, Gone, Seating
  <2>12. \A m \in Nodes : IsFiniteSet(Seated(m)') /\ slots'[m] = Cardinality(Seated(m)')
    <3> TAKE m \in Nodes
    <3>1. CASE m = n BY <2>6, <2>9, <3>1
    <3>2. CASE m # n BY <1>1, <2>5, <2>9, <3>2
    <3> QED BY <3>1, <3>2
  <2> QED BY <2>10, <2>11, <2>12 DEF Seating
<1>5. CASE SeatsLost
  <2>1. PICK n \in Nodes : Gone({w \in Workers : on[w] = n}) /\ slots' = [slots EXCEPT ![n] = 0]
    BY <1>5 DEF SeatsLost
  <2>2. on' = [v \in Workers |-> IF on[v] = n THEN Nil ELSE on[v]] BY <2>1 DEF Gone
  <2>3. Seated(n)' = {} BY <2>1, <2>2, WebhooksAssumption DEF Seated
  <2>4. \A m \in Nodes \ {n} : Seated(m)' = Seated(m) BY <2>1, <2>2, WebhooksAssumption DEF Seated
  <2>5. IsFiniteSet({}) /\ Cardinality({}) = 0 BY FS_EmptySet
  <2>6. slots' \in [Nodes -> Nat] /\ slots'[n] = 0 /\ \A m \in Nodes \ {n} : slots'[m] = slots[m]
    BY <2>1 DEF Seating
  <2>7. \A v \in Workers : pc'[v] = "idle" => on'[v] = Nil BY <2>1, <2>2 DEF Gone, Seating
  <2>8. \A m \in Nodes : IsFiniteSet(Seated(m)') /\ slots'[m] = Cardinality(Seated(m)')
    <3> TAKE m \in Nodes
    <3>1. CASE m = n BY <2>3, <2>5, <2>6, <3>1
    <3>2. CASE m # n BY <1>1, <2>4, <2>6, <3>2
    <3> QED BY <3>1, <3>2
  <2> QED BY <2>6, <2>7, <2>8 DEF Seating
<1> QED BY <1>2, <1>3, <1>4, <1>5 DEF SeatChange

LEMMA SeatingInit == Init => Seating
<1> SUFFICES ASSUME Init PROVE Seating
  OBVIOUS
<1>1. \A n \in Nodes : Seated(n) = {} BY WebhooksAssumption DEF Init, Seated
<1>2. IsFiniteSet({}) /\ Cardinality({}) = 0 BY FS_EmptySet
<1>3. slots \in [Nodes -> Nat] /\ \A n \in Nodes : slots[n] = 0 BY DEF Init
<1>4. \A w \in Workers : on[w] = Nil BY DEF Init
<1> QED BY <1>1, <1>2, <1>3, <1>4 DEF Seating

LEMMA SeatingExact == Seating => SlotsExact
BY DEF Seating, SlotsExact, Seated

(***************************************************************************)
(* The theorems.                                                           *)
(***************************************************************************)
Inv == TypeOK /\ Placed /\ Claims /\ Recorded /\ Announced /\ Retries /\ Seating

LEMMA InvInit == Init => Inv
<1> SUFFICES ASSUME Init PROVE Inv
  OBVIOUS
<1>1. TypeOK BY IdsFact DEF Init, TypeOK, Ends, Statuses, Outcomes, Claimed
<1>2. Placed BY DEF Init, Placed
<1>3. Claims
  <2>1. \A w \in Workers : pc[w] \notin Writing BY DEF Init, Writing, Claimed
  <2> QED BY <2>1 DEF Claims, Latest, Outdated, Distinct
<1>4. Recorded
  <2>1. \A w \in Workers : pc[w] # "queue" BY DEF Init
  <2>2. \A j \in JobIds : ~(claims[j] > 0)
    <3>1. \A j \in JobIds : claims[j] = 0 BY DEF Init
    <3> QED BY <3>1
  <2> QED BY <2>1, <2>2 DEF Recorded, RetiredIsRecorded
<1>5. Announced
  <2>1. \A j \in JobIds : ~Attended(j) BY DEF Init, Attended
  <2>2. \A j \in JobIds : ex[j] = "none" /\ ~queued[j] /\ history[j] = {} /\ told[j] = {} BY DEF Init
  <2> QED BY <2>1, <2>2 DEF Announced
<1>6. Retries
  <2>1. \A w \in Workers : pc[w] = "idle" BY DEF Init
  <2>2. \A j \in JobIds : count[j] = 0 BY DEF Init
  <2>3. 0 <= MaxRetries BY WebhooksAssumption
  <2>4. RetriesBounded BY <2>2, <2>3 DEF RetriesBounded
  <2> QED BY <2>1, <2>4 DEF Retries, Writing, Claimed
<1> QED BY <1>1, <1>2, <1>3, <1>4, <1>5, <1>6, SeatingInit DEF Inv

LEMMA InvStep == Inv /\ [Next]_vars => Inv'
BY TypesStep, PlacedStep, ClaimsStep, RecordedStep, AnnouncedStep, RetriesStep, SeatingStep DEF Inv

LEMMA InvAlways == Spec => []Inv
BY InvInit, InvStep, PTL DEF Spec

LEMMA TypesHold == Inv => TypeOK
BY DEF Inv

\* Rows, executors and goroutines keep their types.
THEOREM WebhookTypes == Spec => []TypeOK
BY InvAlways, TypesHold, PTL

LEMMA FenceHolds == Inv => FenceExact
BY HoldsLatest DEF Inv, FenceExact, Writing

\* Of all goroutines that claimed a delivery, on one node or on several, only the
\* one with the latest claim gets past the fence of the queue's updates.
THEOREM OnlyTheLatestWrites == Spec => []FenceExact
BY InvAlways, FenceHolds, PTL

LEMMA RecordedHolds == Inv => RetiredIsRecorded
BY DEF Inv, Recorded

\* A delivery never leaves the queue without a record of how it ended.
THEOREM NothingRetiredUnrecorded == Spec => []RetiredIsRecorded
BY InvAlways, RecordedHolds, PTL

LEMMA TruthHolds == Inv => ToldTheTruth
BY AnnouncedTrue DEF Inv

\* The receiver is only told the end that the job's row shows.
THEOREM ReceiversToldTheTruth == Spec => []ToldTheTruth
BY InvAlways, TruthHolds, PTL

LEMMA RetriesHold == Inv => RetriesBounded
BY DEF Inv, Retries

\* No delivery is retried more than MaxRetries times, late claims aside.
THEOREM RetriesAreBounded == Spec => []RetriesBounded
BY InvAlways, RetriesHold, PTL

LEMMA SlotsHold == Inv => SlotsExact
BY SeatingExact DEF Inv

\* perEndpoint counts the goroutines at work, on every node and through every early
\* return of processDue and every crash: no slot leaks and none is used twice.
THEOREM SlotsAreExact == Spec => []SlotsExact
BY InvAlways, SlotsHold, PTL
====
