------------------------------- MODULE JobsProofs -------------------------------
(***************************************************************************)
(* Proofs about Jobs, for every set of runners, jobs and goroutines.       *)
(***************************************************************************)
EXTENDS Jobs, TLAPS, FiniteSetTheorems

\* A goroutine at work has a runner and a job.
Placed == \A w \in Gos : pc[w] # "idle" => on[w] \in Runners /\ job[w] \in JobIds

\* A runner has one goroutine per job, and marks the job.
OnePerJob ==
  /\ \A w \in Gos : pc[w] # "idle" => job[w] \in inflight[on[w]]
  /\ \A v, w \in Gos : pc[v] # "idle" /\ pc[w] # "idle" /\ on[v] = on[w] /\ job[v] = job[w] => v = w

\* Only a row that exists is entered, listed, worked on, claimed or seen by others.
Begun ==
  /\ \A w \in Gos : pc[w] # "idle" => status[job[w]] # "none"
  /\ \A r \in Runners : \A j \in listed[r] : status[j] # "none"
  /\ \A r \in Runners, j \in JobIds : <<r, j>> \in entering => status[j] # "none"
  /\ \A b \in JobIds : \A a \in ahead[b] : status[a] # "none"
  /\ \A j \in JobIds : (status[j] = "none" => attempts[j] = 0) /\ (status[j] = "running" => attempts[j] > 0)

Placing == Placed /\ OnePerJob

\* No two claims of a job wrote the same number of attempts.
Tickets ==
  /\ \A w \in Gos : pc[w] \in Claimed => ticket[w] <= attempts[job[w]]
  /\ \A v, w \in Gos : pc[v] \in Claimed /\ pc[w] \in Claimed /\ job[v] = job[w] /\ v # w
                       => ticket[v] # ticket[w]

\* A stale row has lapsed.
StaleLapsed == \A j \in JobIds : status[j] = "running" /\ ~live[j] => j \in lapsed

\* What a claim saw of the older rows of its key still holds when it writes.
Looked ==
  \A w \in Gos, a \in JobIds :
    pc[w] = "take" /\ SameKey(a, job[w]) /\ InOrder(a, job[w])
      => status[a] # "pending" /\ (status[a] = "running" => a \in lapsed)

\* What a runner that owns the row would store is not behind the row.
CurAhead ==
  \A w \in Gos : pc[w] \in Fetched /\ Named(w) /\ job[w] \notin shared => cursor[job[w]] <= cur[w]

\* A registered goroutine is found by its job, and a cancelled job has ended.
Reachable ==
  /\ \A w \in Gos : pc[w] \in Registered => jobCancels[on[w]][job[w]] = w
  /\ \A r \in Runners, j \in JobIds : <<r, j>> \in told \cup cancelling => status[j] \in Terminal

LEMMA TypesStep == TypeOK /\ Placed /\ [Next]_vars => TypeOK'
<1> SUFFICES ASSUME TypeOK, Placed, [Next]_vars PROVE TypeOK'
  OBVIOUS
<1> USE JobsAssumption DEF TypeOK, Placed, Holding, InFlight, Terminal, Registered
<1>1. CASE UNCHANGED vars BY <1>1 DEF vars, row, runner, go, side
<1>2. ASSUME NEW w \in Gos, Execute(w) PROVE TypeOK'
  <2>1. CASE AcquireSlot(w) BY <2>1 DEF AcquireSlot, Goto, row, runner, go, side
  <2>2. CASE Abandon(w) BY <2>2 DEF Abandon, Leave, Gone, Unregister, row, runner, go, side
  <2>3. CASE Claim(w) BY <2>3 DEF Claim, Claiming, Goto, row, runner, go, side
  <2>4. CASE NotClaimed(w) BY <2>4 DEF NotClaimed, Leave, Gone, Unregister, row, runner, go, side
  <2>5. CASE Fetch(w) BY <2>5 DEF Fetch, Goto, row, runner, go, side
  <2>6. CASE FetchFails(w) BY <2>6 DEF FetchFails, Leave, Gone, Unregister, row, runner, go, side
  <2>7. CASE Register(w) BY <2>7 DEF Register, Goto, row, runner, go, side
  <2>8. CASE Recheck(w) BY <2>8 DEF Recheck, Goto, row, runner, go, side
  <2>9. CASE Batch(w) BY <2>9 DEF Batch, Goto, row, runner, go, side
  <2>10. CASE Checkpoint(w)
    <3>1. CASE SaveCursor(w) /\ Goto(w, "handler") BY <2>10, <3>1 DEF Checkpoint, SaveCursor, Goto, row, runner, go, side
    <3>2. CASE UNCHANGED row /\ Goto(w, "erred") BY <2>10, <3>2 DEF Checkpoint, Goto, row, runner, go, side
    <3> QED BY <2>10, <3>1, <3>2 DEF Checkpoint
  <2>11. CASE StopEarly(w)
    <3>1. CASE SaveCursor(w) BY <2>11, <3>1 DEF StopEarly, SaveCursor, Goto, row, runner, go, side
    <3>2. CASE UNCHANGED row BY <2>11, <3>2 DEF StopEarly, Goto, row, runner, go, side
    <3> QED BY <2>11, <3>1, <3>2 DEF StopEarly
  <2>12. CASE Finish(w) BY <2>12 DEF Finish, Goto, row, runner, go, side
  <2>13. CASE HandlerErrs(w) BY <2>13 DEF HandlerErrs, Goto, row, runner, go, side
  <2>14. CASE HandlerPanics(w) BY <2>14 DEF HandlerPanics, Goto, Unregister, row, runner, go, side
  <2>15. CASE Complete(w) BY <2>15 DEF Complete, Leave, Gone, Unregister, SetRow, row, runner, go, side
  <2>16. CASE ErrCheck(w) BY <2>16 DEF ErrCheck, Goto, row, runner, go, side
  <2>17. CASE Fail(w) BY <2>17 DEF Fail, Leave, Gone, Unregister, SetRow, row, runner, go, side
  <2>18. CASE Refused(w) BY <2>18 DEF Refused, Goto, row, runner, go, side
  <2>19. CASE GivesUp(w) BY <2>19 DEF GivesUp, Leave, Gone, Unregister, row, runner, go, side
  <2>20. CASE Settle(w)
    <3>1. CASE Goto(w, "finalize") /\ UNCHANGED <<runner, on, job, ticket, cur, dead, blind>> BY <2>20, <3>1 DEF Settle, Goto, row, runner, go, side
    <3>2. CASE Leave(w) BY <2>20, <3>2 DEF Settle, Leave, Gone, Unregister, row, runner, go, side
    <3> QED BY <2>20, <3>1, <3>2 DEF Settle
  <2>21. CASE Finalize(w)
    <3>1. CASE SetRow(job[w], "cancelled", cur[w]) BY <2>21, <3>1 DEF Finalize, SetRow, Leave, Gone, Unregister, row, runner, go, side
    <3>2. CASE UNCHANGED row BY <2>21, <3>2 DEF Finalize, Leave, Gone, Unregister, row, runner, go, side
    <3> QED BY <2>21, <3>1, <3>2 DEF Finalize
  <2>22. CASE LookAround(w) BY <2>22 DEF LookAround, Goto, row, runner, go, side
  <2> QED BY <1>2, <2>1, <2>2, <2>3, <2>4, <2>5, <2>6, <2>7, <2>8, <2>9, <2>10, <2>11, <2>12, <2>13, <2>14, <2>15, <2>16, <2>17, <2>18, <2>19, <2>20, <2>21, <2>22 DEF Execute
<1>3. ASSUME NEW w \in Gos, Heartbeat(w) PROVE TypeOK'
  BY <1>3, ZenonT(60) DEF Heartbeat, row, runner, go, side
<1>4. ASSUME NEW r \in Runners, Scan(r) \/ Dispatcher(r) \/ Shutdown(r) \/ Stopped(r) \/ Crash(r) \/ Restart(r) PROVE TypeOK'
  <2>1. CASE Scan(r) BY <2>1 DEF Scan, row, runner, go, side
  <2>2. CASE Skip(r) BY <2>2 DEF Skip, First, row, runner, go, side
  <2>3. CASE Full(r) BY <2>3 DEF Full, First, row, runner, go, side
  <2>4. CASE Dispatch(r)
    <3>1. PICK j \in JobIds, w \in Gos : First(r, j) /\ Begin(w, r, j, "claim") BY <2>4 DEF Dispatch, Start
    <3> QED BY <2>4, <3>1 DEF Dispatch, Start, Begin, row, runner, go, side
  <2>5. CASE Shutdown(r) BY <2>5 DEF Shutdown, Busy, row, runner, go, side
  <2>6. CASE Stopped(r) BY <2>6 DEF Stopped, row, runner, go, side
  <2>7. CASE Crash(r) BY <2>7 DEF Crash, Gone, Busy, row, runner, go, side
  <2>8. CASE Restart(r) BY <2>8 DEF Restart, row, runner, go, side
  <2> QED BY <1>4, <2>1, <2>2, <2>3, <2>4, <2>5, <2>6, <2>7, <2>8 DEF Dispatcher
<1>5. ASSUME NEW j \in JobIds, CheckInFlight(j) \/ Stamp(j) \/ Lapse(j) PROVE TypeOK'
  <2>1. CASE CheckInFlight(j) BY <2>1 DEF CheckInFlight, row, runner, go, side
  <2>2. CASE Lapse(j) BY <2>2 DEF Lapse, row, runner, go, side
  <2>3. CASE Stamp(j) BY <2>3 DEF Stamp, row, runner, go, side
  <2> QED BY <1>5, <2>1, <2>2, <2>3
<1>6. ASSUME NEW r \in Runners, NEW j \in JobIds, Enqueue(r, j) \/ Spawn(r, j) \/ Cancel(r, j) \/ CancelLocal(r, j) PROVE TypeOK'
  <2>1. CASE Enqueue(r, j) BY <2>1 DEF Enqueue, row, runner, go, side
  <2>2. CASE Cancel(r, j) BY <2>2 DEF Cancel, row, runner, go, side
  <2>3. CASE CancelLocal(r, j) BY <2>3 DEF CancelLocal, row, runner, go, side
  <2>4. CASE Spawn(r, j)
    <3>1. CASE UNCHANGED <<go, blind, up, inflight, jobCancels>> BY <2>4, <3>1 DEF Spawn, row, runner, go, side
    <3>3. entering' = entering \ {<<r, j>>} /\ UNCHANGED <<row, sem, listed, runnerID, slots, born, clock, ahead, cancelling, asked, told, lapsed, shared, starts, trouble>> BY <2>4 DEF Spawn
    <3>2. ASSUME NEW w \in Gos, j \notin inflight[r], Begin(w, r, j, "wait") PROVE TypeOK'
      BY <3>2, <3>3 DEF Begin, row, runner, go, side
    <3> QED BY <2>4, <3>1, <3>2 DEF Spawn
  <2> QED BY <1>6, <2>1, <2>2, <2>3, <2>4
<1> QED BY <1>1, <1>2, <1>3, <1>4, <1>5, <1>6 DEF Next

LEMMA PlacingStep == TypeOK /\ Placing /\ Begun /\ [Next]_vars => Placing'
<1> SUFFICES ASSUME TypeOK, Placing, Begun, [Next]_vars PROVE Placing'
  OBVIOUS
<1> USE JobsAssumption DEF TypeOK, Placing, Placed, OnePerJob, Holding, InFlight, Terminal, Registered
<1>1. CASE UNCHANGED vars BY <1>1 DEF vars, row, runner, go, side
<1>2. ASSUME NEW w \in Gos, Execute(w) PROVE Placing'
  <2>1. CASE AcquireSlot(w) BY <2>1 DEF AcquireSlot, Goto, row, runner, go, side
  <2>2. CASE Abandon(w) BY <2>2 DEF Abandon, Leave, Gone, Unregister, row, runner, go, side
  <2>3. CASE Claim(w) BY <2>3 DEF Claim, Claiming, Goto, row, runner, go, side
  <2>4. CASE NotClaimed(w) BY <2>4 DEF NotClaimed, Leave, Gone, Unregister, row, runner, go, side
  <2>5. CASE Fetch(w) BY <2>5 DEF Fetch, Goto, row, runner, go, side
  <2>6. CASE FetchFails(w) BY <2>6 DEF FetchFails, Leave, Gone, Unregister, row, runner, go, side
  <2>7. CASE Register(w) BY <2>7 DEF Register, Goto, row, runner, go, side
  <2>8. CASE Recheck(w) BY <2>8 DEF Recheck, Goto, row, runner, go, side
  <2>9. CASE Batch(w) BY <2>9 DEF Batch, Goto, row, runner, go, side
  <2>10. CASE Checkpoint(w)
    <3>1. CASE SaveCursor(w) /\ Goto(w, "handler") BY <2>10, <3>1 DEF Checkpoint, SaveCursor, Goto, row, runner, go, side
    <3>2. CASE UNCHANGED row /\ Goto(w, "erred") BY <2>10, <3>2 DEF Checkpoint, Goto, row, runner, go, side
    <3> QED BY <2>10, <3>1, <3>2 DEF Checkpoint
  <2>11. CASE StopEarly(w)
    <3>1. CASE SaveCursor(w) BY <2>11, <3>1 DEF StopEarly, SaveCursor, Goto, row, runner, go, side
    <3>2. CASE UNCHANGED row BY <2>11, <3>2 DEF StopEarly, Goto, row, runner, go, side
    <3> QED BY <2>11, <3>1, <3>2 DEF StopEarly
  <2>12. CASE Finish(w) BY <2>12 DEF Finish, Goto, row, runner, go, side
  <2>13. CASE HandlerErrs(w) BY <2>13 DEF HandlerErrs, Goto, row, runner, go, side
  <2>14. CASE HandlerPanics(w) BY <2>14 DEF HandlerPanics, Goto, Unregister, row, runner, go, side
  <2>15. CASE Complete(w) BY <2>15 DEF Complete, Leave, Gone, Unregister, SetRow, row, runner, go, side
  <2>16. CASE ErrCheck(w)
    <3>1. CASE Goto(w, "finalize") BY <2>16, <3>1 DEF ErrCheck, Goto, row, runner, go, side
    <3>2. CASE Goto(w, "fail") BY <2>16, <3>2 DEF ErrCheck, Goto, row, runner, go, side
    <3> QED BY <2>16, <3>1, <3>2 DEF ErrCheck
  <2>17. CASE Fail(w) BY <2>17 DEF Fail, Leave, Gone, Unregister, SetRow, row, runner, go, side
  <2>18. CASE Refused(w) BY <2>18 DEF Refused, Goto, row, runner, go, side
  <2>19. CASE GivesUp(w) BY <2>19 DEF GivesUp, Leave, Gone, Unregister, row, runner, go, side
  <2>20. CASE Settle(w)
    <3>1. CASE Goto(w, "finalize") /\ UNCHANGED <<runner, on, job, ticket, cur, dead, blind>> BY <2>20, <3>1 DEF Settle, Goto, row, runner, go, side
    <3>2. CASE Leave(w) BY <2>20, <3>2 DEF Settle, Leave, Gone, Unregister, row, runner, go, side
    <3> QED BY <2>20, <3>1, <3>2 DEF Settle
  <2>21. CASE Finalize(w)
    <3>1. CASE SetRow(job[w], "cancelled", cur[w]) BY <2>21, <3>1 DEF Finalize, SetRow, Leave, Gone, Unregister, row, runner, go, side
    <3>2. CASE UNCHANGED row BY <2>21, <3>2 DEF Finalize, Leave, Gone, Unregister, row, runner, go, side
    <3> QED BY <2>21, <3>1, <3>2 DEF Finalize
  <2>22. CASE LookAround(w) BY <2>22 DEF LookAround, Goto, row, runner, go, side
  <2> QED BY <1>2, <2>1, <2>2, <2>3, <2>4, <2>5, <2>6, <2>7, <2>8, <2>9, <2>10, <2>11, <2>12, <2>13, <2>14, <2>15, <2>16, <2>17, <2>18, <2>19, <2>20, <2>21, <2>22 DEF Execute
<1>3. ASSUME NEW w \in Gos, Heartbeat(w) PROVE Placing'
  BY <1>3 DEF Heartbeat, row, runner, go, side
<1>4. ASSUME NEW r \in Runners, Scan(r) \/ Dispatcher(r) \/ Shutdown(r) \/ Stopped(r) \/ Crash(r) \/ Restart(r) PROVE Placing'
  <2>1. CASE Scan(r) BY <2>1 DEF Scan, row, runner, go, side
  <2>2. CASE Skip(r) BY <2>2 DEF Skip, First, row, runner, go, side
  <2>3. CASE Full(r) BY <2>3 DEF Full, First, row, runner, go, side
  <2>4. CASE Dispatch(r)
    <3>1. PICK j \in JobIds, w \in Gos : First(r, j) /\ Begin(w, r, j, "claim") BY <2>4 DEF Dispatch, Start
    <3> QED BY <2>4, <3>1 DEF Dispatch, Start, Begin, row, runner, go, side
  <2>5. CASE Shutdown(r) BY <2>5 DEF Shutdown, Busy, row, runner, go, side
  <2>6. CASE Stopped(r) BY <2>6 DEF Stopped, row, runner, go, side
  <2>7. CASE Crash(r) BY <2>7 DEF Crash, Gone, Busy, row, runner, go, side
  <2>8. CASE Restart(r) BY <2>8 DEF Restart, row, runner, go, side
  <2> QED BY <1>4, <2>1, <2>2, <2>3, <2>4, <2>5, <2>6, <2>7, <2>8 DEF Dispatcher
<1>5. ASSUME NEW j \in JobIds, CheckInFlight(j) \/ Stamp(j) \/ Lapse(j) PROVE Placing'
  <2>1. CASE CheckInFlight(j) BY <2>1 DEF CheckInFlight, row, runner, go, side
  <2>2. CASE Lapse(j) BY <2>2 DEF Lapse, row, runner, go, side
  <2>3. CASE Stamp(j) BY <2>3 DEF Stamp, row, runner, go, side
  <2> QED BY <1>5, <2>1, <2>2, <2>3
<1>6. ASSUME NEW r \in Runners, NEW j \in JobIds, Enqueue(r, j) \/ Spawn(r, j) \/ Cancel(r, j) \/ CancelLocal(r, j) PROVE Placing'
  <2>1. CASE Enqueue(r, j) BY <2>1 DEF Enqueue, row, runner, go, side
  <2>2. CASE Cancel(r, j) BY <2>2 DEF Cancel, row, runner, go, side
  <2>3. CASE CancelLocal(r, j) BY <2>3 DEF CancelLocal, row, runner, go, side
  <2>4. CASE Spawn(r, j)
    <3>1. CASE UNCHANGED <<go, blind, up, inflight, jobCancels>> BY <2>4, <3>1 DEF Spawn, row, runner, go, side
    <3>3. entering' = entering \ {<<r, j>>} /\ UNCHANGED <<row, sem, listed, runnerID, slots, born, clock, ahead, cancelling, asked, told, lapsed, shared, starts, trouble>> BY <2>4 DEF Spawn
    <3>2. ASSUME NEW w \in Gos, j \notin inflight[r], Begin(w, r, j, "wait") PROVE Placing'
      BY <3>2, <3>3 DEF Begin, row, runner, go, side
    <3> QED BY <2>4, <3>1, <3>2 DEF Spawn
  <2> QED BY <1>6, <2>1, <2>2, <2>3, <2>4
<1> QED BY <1>1, <1>2, <1>3, <1>4, <1>5, <1>6 DEF Next

LEMMA BegunStep == TypeOK /\ Placing /\ Begun /\ [Next]_vars => Begun'
<1> SUFFICES ASSUME TypeOK, Placing, Begun, [Next]_vars PROVE Begun'
  OBVIOUS
<1> USE JobsAssumption DEF TypeOK, Placing, Placed, Begun, Holding, InFlight, Terminal, Registered, Claimable
<1>1. CASE UNCHANGED vars BY <1>1 DEF vars, row, runner, go, side
<1>2. ASSUME NEW w \in Gos, Execute(w) PROVE Begun'
  <2>1. CASE AcquireSlot(w) BY <2>1 DEF AcquireSlot, Goto, row, runner, go, side
  <2>2. CASE Abandon(w) BY <2>2 DEF Abandon, Leave, Gone, Unregister, row, runner, go, side
  <2>3. CASE Claim(w) BY <2>3 DEF Claim, Claiming, Goto, row, runner, go, side
  <2>4. CASE NotClaimed(w) BY <2>4 DEF NotClaimed, Leave, Gone, Unregister, row, runner, go, side
  <2>5. CASE Fetch(w) BY <2>5 DEF Fetch, Goto, row, runner, go, side
  <2>6. CASE FetchFails(w) BY <2>6 DEF FetchFails, Leave, Gone, Unregister, row, runner, go, side
  <2>7. CASE Register(w) BY <2>7 DEF Register, Goto, row, runner, go, side
  <2>8. CASE Recheck(w) BY <2>8 DEF Recheck, Goto, row, runner, go, side
  <2>9. CASE Batch(w) BY <2>9 DEF Batch, Goto, row, runner, go, side
  <2>10. CASE Checkpoint(w)
    <3>1. CASE SaveCursor(w) /\ Goto(w, "handler") BY <2>10, <3>1 DEF Checkpoint, SaveCursor, Goto, row, runner, go, side
    <3>2. CASE UNCHANGED row /\ Goto(w, "erred") BY <2>10, <3>2 DEF Checkpoint, Goto, row, runner, go, side
    <3> QED BY <2>10, <3>1, <3>2 DEF Checkpoint
  <2>11. CASE StopEarly(w)
    <3>1. CASE SaveCursor(w) BY <2>11, <3>1 DEF StopEarly, SaveCursor, Goto, row, runner, go, side
    <3>2. CASE UNCHANGED row BY <2>11, <3>2 DEF StopEarly, Goto, row, runner, go, side
    <3> QED BY <2>11, <3>1, <3>2 DEF StopEarly
  <2>12. CASE Finish(w) BY <2>12 DEF Finish, Goto, row, runner, go, side
  <2>13. CASE HandlerErrs(w) BY <2>13 DEF HandlerErrs, Goto, row, runner, go, side
  <2>14. CASE HandlerPanics(w) BY <2>14 DEF HandlerPanics, Goto, Unregister, row, runner, go, side
  <2>15. CASE Complete(w) BY <2>15 DEF Complete, Leave, Gone, Unregister, SetRow, row, runner, go, side
  <2>16. CASE ErrCheck(w) BY <2>16 DEF ErrCheck, Goto, row, runner, go, side
  <2>17. CASE Fail(w) BY <2>17 DEF Fail, Leave, Gone, Unregister, SetRow, row, runner, go, side
  <2>18. CASE Refused(w) BY <2>18 DEF Refused, Goto, row, runner, go, side
  <2>19. CASE GivesUp(w) BY <2>19 DEF GivesUp, Leave, Gone, Unregister, row, runner, go, side
  <2>20. CASE Settle(w)
    <3>1. CASE Goto(w, "finalize") /\ UNCHANGED <<runner, on, job, ticket, cur, dead, blind>> BY <2>20, <3>1 DEF Settle, Goto, row, runner, go, side
    <3>2. CASE Leave(w) BY <2>20, <3>2 DEF Settle, Leave, Gone, Unregister, row, runner, go, side
    <3> QED BY <2>20, <3>1, <3>2 DEF Settle
  <2>21. CASE Finalize(w)
    <3>1. CASE SetRow(job[w], "cancelled", cur[w]) BY <2>21, <3>1 DEF Finalize, SetRow, Leave, Gone, Unregister, row, runner, go, side
    <3>2. CASE UNCHANGED row BY <2>21, <3>2 DEF Finalize, Leave, Gone, Unregister, row, runner, go, side
    <3> QED BY <2>21, <3>1, <3>2 DEF Finalize
  <2>22. CASE LookAround(w) BY <2>22 DEF LookAround, Goto, row, runner, go, side
  <2> QED BY <1>2, <2>1, <2>2, <2>3, <2>4, <2>5, <2>6, <2>7, <2>8, <2>9, <2>10, <2>11, <2>12, <2>13, <2>14, <2>15, <2>16, <2>17, <2>18, <2>19, <2>20, <2>21, <2>22 DEF Execute
<1>3. ASSUME NEW w \in Gos, Heartbeat(w) PROVE Begun'
  BY <1>3 DEF Heartbeat, row, runner, go, side
<1>4. ASSUME NEW r \in Runners, Scan(r) \/ Dispatcher(r) \/ Shutdown(r) \/ Stopped(r) \/ Crash(r) \/ Restart(r) PROVE Begun'
  <2>1. CASE Scan(r) BY <2>1 DEF Scan, row, runner, go, side
  <2>2. CASE Skip(r) BY <2>2 DEF Skip, First, row, runner, go, side
  <2>3. CASE Full(r) BY <2>3 DEF Full, First, row, runner, go, side
  <2>4. CASE Dispatch(r)
    <3>1. PICK j \in JobIds, w \in Gos : First(r, j) /\ Begin(w, r, j, "claim") BY <2>4 DEF Dispatch, Start
    <3> QED BY <2>4, <3>1 DEF Dispatch, Start, First, Begin, row, runner, go, side
  <2>5. CASE Shutdown(r) BY <2>5 DEF Shutdown, Busy, row, runner, go, side
  <2>6. CASE Stopped(r) BY <2>6 DEF Stopped, row, runner, go, side
  <2>7. CASE Crash(r) BY <2>7 DEF Crash, Gone, Busy, row, runner, go, side
  <2>8. CASE Restart(r) BY <2>8 DEF Restart, row, runner, go, side
  <2> QED BY <1>4, <2>1, <2>2, <2>3, <2>4, <2>5, <2>6, <2>7, <2>8 DEF Dispatcher
<1>5. ASSUME NEW j \in JobIds, CheckInFlight(j) \/ Stamp(j) \/ Lapse(j) PROVE Begun'
  <2>1. CASE CheckInFlight(j) BY <2>1 DEF CheckInFlight, row, runner, go, side
  <2>2. CASE Lapse(j) BY <2>2 DEF Lapse, row, runner, go, side
  <2>3. CASE Stamp(j) BY <2>3 DEF Stamp, row, runner, go, side
  <2> QED BY <1>5, <2>1, <2>2, <2>3
<1>6. ASSUME NEW r \in Runners, NEW j \in JobIds, Enqueue(r, j) \/ Spawn(r, j) \/ Cancel(r, j) \/ CancelLocal(r, j) PROVE Begun'
  <2>1. CASE Enqueue(r, j) BY <2>1 DEF Enqueue, row, runner, go, side
  <2>2. CASE Cancel(r, j) BY <2>2 DEF Cancel, row, runner, go, side
  <2>3. CASE CancelLocal(r, j) BY <2>3 DEF CancelLocal, row, runner, go, side
  <2>4. CASE Spawn(r, j)
    <3>1. CASE UNCHANGED <<go, blind, up, inflight, jobCancels>> BY <2>4, <3>1 DEF Spawn, row, runner, go, side
    <3>3. <<r, j>> \in entering /\ entering' = entering \ {<<r, j>>} /\ UNCHANGED <<row, sem, listed, runnerID, slots, born, clock, ahead, cancelling, asked, told, lapsed, shared, starts, trouble>> BY <2>4 DEF Spawn
    <3>2. ASSUME NEW w \in Gos, j \notin inflight[r], Begin(w, r, j, "wait") PROVE Begun'
      BY <3>2, <3>3 DEF Begin, row, runner, go, side
    <3> QED BY <2>4, <3>1, <3>2 DEF Spawn
  <2> QED BY <1>6, <2>1, <2>2, <2>3, <2>4
<1> QED BY <1>1, <1>2, <1>3, <1>4, <1>5, <1>6 DEF Next

LEMMA TicketsStep == TypeOK /\ Placing /\ Tickets /\ [Next]_vars => Tickets'
<1> SUFFICES ASSUME TypeOK, Placing, Tickets, [Next]_vars PROVE Tickets'
  OBVIOUS
<1> USE JobsAssumption DEF TypeOK, Placing, Placed, OnePerJob, Tickets, Claimed, Holding, InFlight, Terminal, Registered
<1>1. CASE UNCHANGED vars BY <1>1 DEF vars, row, runner, go, side
<1>2. ASSUME NEW w \in Gos, Execute(w) PROVE Tickets'
  <2>1. CASE AcquireSlot(w) BY <2>1 DEF AcquireSlot, Goto, row, runner, go, side
  <2>2. CASE Abandon(w) BY <2>2 DEF Abandon, Leave, Gone, Unregister, row, runner, go, side
  <2>3. CASE Claim(w) BY <2>3 DEF Claim, Claiming, Goto, row, runner, go, side
  <2>4. CASE NotClaimed(w) BY <2>4 DEF NotClaimed, Leave, Gone, Unregister, row, runner, go, side
  <2>5. CASE Fetch(w) BY <2>5 DEF Fetch, Goto, row, runner, go, side
  <2>6. CASE FetchFails(w) BY <2>6 DEF FetchFails, Leave, Gone, Unregister, row, runner, go, side
  <2>7. CASE Register(w) BY <2>7 DEF Register, Goto, row, runner, go, side
  <2>8. CASE Recheck(w) BY <2>8 DEF Recheck, Goto, row, runner, go, side
  <2>9. CASE Batch(w) BY <2>9 DEF Batch, Goto, row, runner, go, side
  <2>10. CASE Checkpoint(w)
    <3>1. CASE SaveCursor(w) /\ Goto(w, "handler") BY <2>10, <3>1 DEF Checkpoint, SaveCursor, Goto, row, runner, go, side
    <3>2. CASE UNCHANGED row /\ Goto(w, "erred") BY <2>10, <3>2 DEF Checkpoint, Goto, row, runner, go, side
    <3> QED BY <2>10, <3>1, <3>2 DEF Checkpoint
  <2>11. CASE StopEarly(w)
    <3>1. CASE SaveCursor(w) BY <2>11, <3>1 DEF StopEarly, SaveCursor, Goto, row, runner, go, side
    <3>2. CASE UNCHANGED row BY <2>11, <3>2 DEF StopEarly, Goto, row, runner, go, side
    <3> QED BY <2>11, <3>1, <3>2 DEF StopEarly
  <2>12. CASE Finish(w) BY <2>12 DEF Finish, Goto, row, runner, go, side
  <2>13. CASE HandlerErrs(w) BY <2>13 DEF HandlerErrs, Goto, row, runner, go, side
  <2>14. CASE HandlerPanics(w) BY <2>14 DEF HandlerPanics, Goto, Unregister, row, runner, go, side
  <2>15. CASE Complete(w) BY <2>15 DEF Complete, Leave, Gone, Unregister, SetRow, row, runner, go, side
  <2>16. CASE ErrCheck(w)
    <3>1. CASE Goto(w, "finalize") BY <2>16, <3>1 DEF ErrCheck, Goto, row, runner, go, side
    <3>2. CASE Goto(w, "fail") BY <2>16, <3>2 DEF ErrCheck, Goto, row, runner, go, side
    <3> QED BY <2>16, <3>1, <3>2 DEF ErrCheck
  <2>17. CASE Fail(w) BY <2>17 DEF Fail, Leave, Gone, Unregister, SetRow, row, runner, go, side
  <2>18. CASE Refused(w) BY <2>18 DEF Refused, Goto, row, runner, go, side
  <2>19. CASE GivesUp(w) BY <2>19 DEF GivesUp, Leave, Gone, Unregister, row, runner, go, side
  <2>20. CASE Settle(w)
    <3>1. CASE Goto(w, "finalize") /\ UNCHANGED <<runner, on, job, ticket, cur, dead, blind>> BY <2>20, <3>1 DEF Settle, Goto, row, runner, go, side
    <3>2. CASE Leave(w) BY <2>20, <3>2 DEF Settle, Leave, Gone, Unregister, row, runner, go, side
    <3> QED BY <2>20, <3>1, <3>2 DEF Settle
  <2>21. CASE Finalize(w)
    <3>1. CASE SetRow(job[w], "cancelled", cur[w]) BY <2>21, <3>1 DEF Finalize, SetRow, Leave, Gone, Unregister, row, runner, go, side
    <3>2. CASE UNCHANGED row BY <2>21, <3>2 DEF Finalize, Leave, Gone, Unregister, row, runner, go, side
    <3> QED BY <2>21, <3>1, <3>2 DEF Finalize
  <2>22. CASE LookAround(w) BY <2>22 DEF LookAround, Goto, row, runner, go, side
  <2> QED BY <1>2, <2>1, <2>2, <2>3, <2>4, <2>5, <2>6, <2>7, <2>8, <2>9, <2>10, <2>11, <2>12, <2>13, <2>14, <2>15, <2>16, <2>17, <2>18, <2>19, <2>20, <2>21, <2>22 DEF Execute
<1>3. ASSUME NEW w \in Gos, Heartbeat(w) PROVE Tickets'
  BY <1>3 DEF Heartbeat, row, runner, go, side
<1>4. ASSUME NEW r \in Runners, Scan(r) \/ Dispatcher(r) \/ Shutdown(r) \/ Stopped(r) \/ Crash(r) \/ Restart(r) PROVE Tickets'
  <2>1. CASE Scan(r) BY <2>1 DEF Scan, row, runner, go, side
  <2>2. CASE Skip(r) BY <2>2 DEF Skip, First, row, runner, go, side
  <2>3. CASE Full(r) BY <2>3 DEF Full, First, row, runner, go, side
  <2>4. CASE Dispatch(r)
    <3>1. PICK j \in JobIds, w \in Gos : First(r, j) /\ Begin(w, r, j, "claim") BY <2>4 DEF Dispatch, Start
    <3> QED BY <2>4, <3>1 DEF Dispatch, Start, Begin, row, runner, go, side
  <2>5. CASE Shutdown(r) BY <2>5 DEF Shutdown, Busy, row, runner, go, side
  <2>6. CASE Stopped(r) BY <2>6 DEF Stopped, row, runner, go, side
  <2>7. CASE Crash(r) BY <2>7 DEF Crash, Gone, Busy, row, runner, go, side
  <2>8. CASE Restart(r) BY <2>8 DEF Restart, row, runner, go, side
  <2> QED BY <1>4, <2>1, <2>2, <2>3, <2>4, <2>5, <2>6, <2>7, <2>8 DEF Dispatcher
<1>5. ASSUME NEW j \in JobIds, CheckInFlight(j) \/ Stamp(j) \/ Lapse(j) PROVE Tickets'
  <2>1. CASE CheckInFlight(j) BY <2>1 DEF CheckInFlight, row, runner, go, side
  <2>2. CASE Lapse(j) BY <2>2 DEF Lapse, row, runner, go, side
  <2>3. CASE Stamp(j) BY <2>3 DEF Stamp, row, runner, go, side
  <2> QED BY <1>5, <2>1, <2>2, <2>3
<1>6. ASSUME NEW r \in Runners, NEW j \in JobIds, Enqueue(r, j) \/ Spawn(r, j) \/ Cancel(r, j) \/ CancelLocal(r, j) PROVE Tickets'
  <2>1. CASE Enqueue(r, j) BY <2>1 DEF Enqueue, row, runner, go, side
  <2>2. CASE Cancel(r, j) BY <2>2 DEF Cancel, row, runner, go, side
  <2>3. CASE CancelLocal(r, j) BY <2>3 DEF CancelLocal, row, runner, go, side
  <2>4. CASE Spawn(r, j)
    <3>1. CASE UNCHANGED <<go, blind, up, inflight, jobCancels>> BY <2>4, <3>1 DEF Spawn, row, runner, go, side
    <3>3. entering' = entering \ {<<r, j>>} /\ UNCHANGED <<row, sem, listed, runnerID, slots, born, clock, ahead, cancelling, asked, told, lapsed, shared, starts, trouble>> BY <2>4 DEF Spawn
    <3>2. ASSUME NEW w \in Gos, j \notin inflight[r], Begin(w, r, j, "wait") PROVE Tickets'
      BY <3>2, <3>3 DEF Begin, row, runner, go, side
    <3> QED BY <2>4, <3>1, <3>2 DEF Spawn
  <2> QED BY <1>6, <2>1, <2>2, <2>3, <2>4
<1> QED BY <1>1, <1>2, <1>3, <1>4, <1>5, <1>6 DEF Next

LEMMA FenceStep == TypeOK /\ Placing /\ FenceExact /\ [Next]_vars => FenceExact'
<1> SUFFICES ASSUME TypeOK, Placing, FenceExact, [Next]_vars PROVE FenceExact'
  OBVIOUS
<1> USE JobsAssumption DEF TypeOK, Placing, Placed, OnePerJob, FenceExact, Named, Claimed, Holding, InFlight, Terminal, Registered
<1>1. CASE UNCHANGED vars BY <1>1 DEF vars, row, runner, go, side
<1>2. ASSUME NEW w \in Gos, Execute(w) PROVE FenceExact'
  <2>1. CASE AcquireSlot(w) BY <2>1 DEF AcquireSlot, Goto, row, runner, go, side
  <2>2. CASE Abandon(w) BY <2>2 DEF Abandon, Leave, Gone, Unregister, row, runner, go, side
  <2>3. CASE Claim(w)
    <3>1. /\ pc[w] # "idle" /\ owner' = [owner EXCEPT ![job[w]] = runnerID[on[w]]] /\ attempts' = [attempts EXCEPT ![job[w]] = @ + 1]
          /\ ticket' = [ticket EXCEPT ![w] = attempts[job[w]] + 1] /\ pc' = [pc EXCEPT ![w] = "fetch"]
          /\ shared' = (IF Double(w) THEN shared \cup {job[w]} ELSE shared) /\ UNCHANGED <<on, job, runnerID>>
      BY <2>3 DEF Claim, Claiming, Goto, side
    <3>2. ASSUME NEW v \in Gos, pc'[v] \in Claimed, Named(v)' PROVE ticket'[v] = attempts'[job'[v]] \/ job'[v] \in shared'
      <4>1. CASE v = w BY <3>1, <4>1
      <4>2. CASE v # w /\ job[v] # job[w] BY <3>1, <3>2, <4>2
      <4>3. CASE v # w /\ job[v] = job[w]
        <5>1. pc[v] \in Claimed /\ runnerID[on[v]] = runnerID[on[w]] /\ on[v] # on[w] BY <3>1, <3>2, <4>3
        <5> QED BY <3>1, <4>3, <5>1 DEF Double
      <4> QED BY <4>1, <4>2, <4>3
    <3>3. shared' # {} => \E r, s \in Runners : r # s /\ runnerID[r] = runnerID[s] BY <3>1 DEF Double
    <3> QED BY <3>1, <3>2, <3>3
  <2>4. CASE NotClaimed(w) BY <2>4 DEF NotClaimed, Leave, Gone, Unregister, row, runner, go, side
  <2>5. CASE Fetch(w) BY <2>5 DEF Fetch, Goto, row, runner, go, side
  <2>6. CASE FetchFails(w) BY <2>6 DEF FetchFails, Leave, Gone, Unregister, row, runner, go, side
  <2>7. CASE Register(w) BY <2>7 DEF Register, Goto, row, runner, go, side
  <2>8. CASE Recheck(w) BY <2>8 DEF Recheck, Goto, row, runner, go, side
  <2>9. CASE Batch(w) BY <2>9 DEF Batch, Goto, row, runner, go, side
  <2>10. CASE Checkpoint(w)
    <3>1. CASE SaveCursor(w) /\ Goto(w, "handler") BY <2>10, <3>1 DEF Checkpoint, SaveCursor, Goto, row, runner, go, side
    <3>2. CASE UNCHANGED row /\ Goto(w, "erred") BY <2>10, <3>2 DEF Checkpoint, Goto, row, runner, go, side
    <3> QED BY <2>10, <3>1, <3>2 DEF Checkpoint
  <2>11. CASE StopEarly(w)
    <3>1. CASE SaveCursor(w) BY <2>11, <3>1 DEF StopEarly, SaveCursor, Goto, row, runner, go, side
    <3>2. CASE UNCHANGED row BY <2>11, <3>2 DEF StopEarly, Goto, row, runner, go, side
    <3> QED BY <2>11, <3>1, <3>2 DEF StopEarly
  <2>12. CASE Finish(w) BY <2>12 DEF Finish, Goto, row, runner, go, side
  <2>13. CASE HandlerErrs(w) BY <2>13 DEF HandlerErrs, Goto, row, runner, go, side
  <2>14. CASE HandlerPanics(w) BY <2>14 DEF HandlerPanics, Goto, Unregister, row, runner, go, side
  <2>15. CASE Complete(w) BY <2>15 DEF Complete, Leave, Gone, Unregister, SetRow, row, runner, go, side
  <2>16. CASE ErrCheck(w)
    <3>1. CASE Goto(w, "finalize") BY <2>16, <3>1 DEF ErrCheck, Goto, row, runner, go, side
    <3>2. CASE Goto(w, "fail") BY <2>16, <3>2 DEF ErrCheck, Goto, row, runner, go, side
    <3> QED BY <2>16, <3>1, <3>2 DEF ErrCheck
  <2>17. CASE Fail(w) BY <2>17 DEF Fail, Leave, Gone, Unregister, SetRow, row, runner, go, side
  <2>18. CASE Refused(w) BY <2>18 DEF Refused, Goto, row, runner, go, side
  <2>19. CASE GivesUp(w) BY <2>19 DEF GivesUp, Leave, Gone, Unregister, row, runner, go, side
  <2>20. CASE Settle(w)
    <3>1. CASE Goto(w, "finalize") /\ UNCHANGED <<runner, on, job, ticket, cur, dead, blind>> BY <2>20, <3>1 DEF Settle, Goto, row, runner, go, side
    <3>2. CASE Leave(w) BY <2>20, <3>2 DEF Settle, Leave, Gone, Unregister, row, runner, go, side
    <3> QED BY <2>20, <3>1, <3>2 DEF Settle
  <2>21. CASE Finalize(w)
    <3>1. CASE SetRow(job[w], "cancelled", cur[w]) BY <2>21, <3>1 DEF Finalize, SetRow, Leave, Gone, Unregister, row, runner, go, side
    <3>2. CASE UNCHANGED row BY <2>21, <3>2 DEF Finalize, Leave, Gone, Unregister, row, runner, go, side
    <3> QED BY <2>21, <3>1, <3>2 DEF Finalize
  <2>22. CASE LookAround(w) BY <2>22 DEF LookAround, Goto, row, runner, go, side
  <2> QED BY <1>2, <2>1, <2>2, <2>3, <2>4, <2>5, <2>6, <2>7, <2>8, <2>9, <2>10, <2>11, <2>12, <2>13, <2>14, <2>15, <2>16, <2>17, <2>18, <2>19, <2>20, <2>21, <2>22 DEF Execute
<1>3. ASSUME NEW w \in Gos, Heartbeat(w) PROVE FenceExact'
  BY <1>3 DEF Heartbeat, row, runner, go, side
<1>4. ASSUME NEW r \in Runners, Scan(r) \/ Dispatcher(r) \/ Shutdown(r) \/ Stopped(r) \/ Crash(r) \/ Restart(r) PROVE FenceExact'
  <2>1. CASE Scan(r) BY <2>1 DEF Scan, row, runner, go, side
  <2>2. CASE Skip(r) BY <2>2 DEF Skip, First, row, runner, go, side
  <2>3. CASE Full(r) BY <2>3 DEF Full, First, row, runner, go, side
  <2>4. CASE Dispatch(r)
    <3>1. PICK j \in JobIds, w \in Gos : First(r, j) /\ Begin(w, r, j, "claim") BY <2>4 DEF Dispatch, Start
    <3> QED BY <2>4, <3>1 DEF Dispatch, Start, Begin, row, runner, go, side
  <2>5. CASE Shutdown(r) BY <2>5 DEF Shutdown, Busy, row, runner, go, side
  <2>6. CASE Stopped(r) BY <2>6 DEF Stopped, row, runner, go, side
  <2>7. CASE Crash(r) BY <2>7 DEF Crash, Gone, Busy, row, runner, go, side
  <2>8. CASE Restart(r) BY <2>8 DEF Restart, row, runner, go, side
  <2> QED BY <1>4, <2>1, <2>2, <2>3, <2>4, <2>5, <2>6, <2>7, <2>8 DEF Dispatcher
<1>5. ASSUME NEW j \in JobIds, CheckInFlight(j) \/ Stamp(j) \/ Lapse(j) PROVE FenceExact'
  <2>1. CASE CheckInFlight(j) BY <2>1 DEF CheckInFlight, row, runner, go, side
  <2>2. CASE Lapse(j) BY <2>2 DEF Lapse, row, runner, go, side
  <2>3. CASE Stamp(j) BY <2>3 DEF Stamp, row, runner, go, side
  <2> QED BY <1>5, <2>1, <2>2, <2>3
<1>6. ASSUME NEW r \in Runners, NEW j \in JobIds, Enqueue(r, j) \/ Spawn(r, j) \/ Cancel(r, j) \/ CancelLocal(r, j) PROVE FenceExact'
  <2>1. CASE Enqueue(r, j) BY <2>1 DEF Enqueue, row, runner, go, side
  <2>2. CASE Cancel(r, j) BY <2>2 DEF Cancel, row, runner, go, side
  <2>3. CASE CancelLocal(r, j) BY <2>3 DEF CancelLocal, row, runner, go, side
  <2>4. CASE Spawn(r, j)
    <3>1. CASE UNCHANGED <<go, blind, up, inflight, jobCancels>> BY <2>4, <3>1 DEF Spawn, row, runner, go, side
    <3>3. entering' = entering \ {<<r, j>>} /\ UNCHANGED <<row, sem, listed, runnerID, slots, born, clock, ahead, cancelling, asked, told, lapsed, shared, starts, trouble>> BY <2>4 DEF Spawn
    <3>2. ASSUME NEW w \in Gos, j \notin inflight[r], Begin(w, r, j, "wait") PROVE FenceExact'
      BY <3>2, <3>3 DEF Begin, row, runner, go, side
    <3> QED BY <2>4, <3>1, <3>2 DEF Spawn
  <2> QED BY <1>6, <2>1, <2>2, <2>3, <2>4
<1> QED BY <1>1, <1>2, <1>3, <1>4, <1>5, <1>6 DEF Next

LEMMA CurStep == TypeOK /\ Placing /\ Tickets /\ FenceExact /\ CurAhead /\ [Next]_vars => CurAhead'
<1> SUFFICES ASSUME TypeOK, Placing, Tickets, FenceExact, CurAhead, [Next]_vars PROVE CurAhead'
  OBVIOUS
<1> USE JobsAssumption DEF TypeOK, Placing, Placed, OnePerJob, CurAhead, Claimed, Fetched, Owns, Owned, Named, Holding, InFlight, Terminal, Registered
<1>0. ASSUME NEW v \in Gos, NEW w \in Gos, pc[v] \in Claimed, pc[w] \in Claimed, job[v] = job[w], job[w] \notin shared, Named(v), Named(w)
      PROVE v = w
  BY <1>0 DEF Tickets, FenceExact
<1>1. CASE UNCHANGED vars BY <1>1 DEF vars, row, runner, go, side
<1>2. ASSUME NEW w \in Gos, Execute(w) PROVE CurAhead'
  <2>1. CASE AcquireSlot(w) BY <2>1 DEF AcquireSlot, Goto, row, runner, go, side
  <2>2. CASE Abandon(w) BY <2>2 DEF Abandon, Leave, Gone, Unregister, row, runner, go, side
  <2>3. CASE Claim(w)
    <3>1. /\ pc[w] # "idle" /\ owner' = [owner EXCEPT ![job[w]] = runnerID[on[w]]] /\ pc' = [pc EXCEPT ![w] = "fetch"]
          /\ shared' = (IF Double(w) THEN shared \cup {job[w]} ELSE shared) /\ UNCHANGED <<on, job, runnerID, cursor, cur>>
      BY <2>3 DEF Claim, Claiming, Goto, side
    <3>2. ASSUME NEW v \in Gos, pc'[v] \in Fetched, Named(v)', job'[v] \notin shared' PROVE cursor'[job'[v]] <= cur'[v]
      <4>1. v # w /\ pc[v] \in Fetched /\ job[v] \notin shared BY <3>1, <3>2
      <4>2. job[v] # job[w] BY <3>1, <3>2, <4>1 DEF Double
      <4> QED BY <3>1, <3>2, <4>1, <4>2
    <3> QED BY <3>2
  <2>4. CASE NotClaimed(w) BY <2>4 DEF NotClaimed, Leave, Gone, Unregister, row, runner, go, side
  <2>5. CASE Fetch(w) BY <2>5 DEF Fetch, Goto, row, runner, go, side
  <2>6. CASE FetchFails(w) BY <2>6 DEF FetchFails, Leave, Gone, Unregister, row, runner, go, side
  <2>7. CASE Register(w) BY <2>7 DEF Register, Goto, row, runner, go, side
  <2>8. CASE Recheck(w) BY <2>8 DEF Recheck, Goto, row, runner, go, side
  <2>9. CASE Batch(w) BY <2>9 DEF Batch, Goto, row, runner, go, side
  <2>10. CASE Checkpoint(w)
    <3>1. CASE Owns(w) /\ SaveCursor(w) /\ Goto(w, "handler")
      <4>1. /\ pc[w] \in Fetched /\ cursor' = [cursor EXCEPT ![job[w]] = cur[w]]
            /\ \A v \in Gos : pc'[v] \in Fetched => pc[v] \in Fetched
            /\ UNCHANGED <<owner, on, job, cur, runnerID, shared>>
        BY <2>10, <3>1 DEF Checkpoint, SaveCursor, Goto, side
      <4>2. ASSUME NEW v \in Gos, pc'[v] \in Fetched, Named(v)', job'[v] \notin shared' PROVE cursor'[job'[v]] <= cur'[v]
        <5>1. CASE job[v] = job[w]
          <6>1. pc[v] \in Claimed /\ pc[w] \in Claimed /\ Named(v) /\ Named(w) /\ job[w] \notin shared BY <3>1, <4>1, <4>2, <5>1
          <6>2. v = w BY <1>0, <5>1, <6>1
          <6>3. job[w] \in JobIds BY <6>1
          <6> QED BY <4>1, <6>2, <6>3
        <5>2. CASE job[v] # job[w] BY <4>1, <4>2, <5>2
        <5> QED BY <5>1, <5>2
      <4> QED BY <4>2
    <3>2. CASE UNCHANGED row /\ Goto(w, "erred") BY <2>10, <3>2 DEF Checkpoint, Goto, row, runner, go, side
    <3> QED BY <2>10, <3>1, <3>2 DEF Checkpoint
  <2>11. CASE StopEarly(w)
    <3>1. CASE Owns(w) /\ SaveCursor(w)
      <4>1. /\ pc[w] \in Fetched /\ cursor' = [cursor EXCEPT ![job[w]] = cur[w]]
            /\ \A v \in Gos : pc'[v] \in Fetched => pc[v] \in Fetched
            /\ UNCHANGED <<owner, on, job, cur, runnerID, shared>>
        BY <2>11, <3>1 DEF StopEarly, SaveCursor, Goto, side
      <4>2. ASSUME NEW v \in Gos, pc'[v] \in Fetched, Named(v)', job'[v] \notin shared' PROVE cursor'[job'[v]] <= cur'[v]
        <5>1. CASE job[v] = job[w]
          <6>1. pc[v] \in Claimed /\ pc[w] \in Claimed /\ Named(v) /\ Named(w) /\ job[w] \notin shared BY <3>1, <4>1, <4>2, <5>1
          <6>2. v = w BY <1>0, <5>1, <6>1
          <6>3. job[w] \in JobIds BY <6>1
          <6> QED BY <4>1, <6>2, <6>3
        <5>2. CASE job[v] # job[w] BY <4>1, <4>2, <5>2
        <5> QED BY <5>1, <5>2
      <4> QED BY <4>2
    <3>2. CASE UNCHANGED row BY <2>11, <3>2 DEF StopEarly, Goto, row, runner, go, side
    <3> QED BY <2>11, <3>1, <3>2 DEF StopEarly
  <2>12. CASE Finish(w) BY <2>12 DEF Finish, Goto, row, runner, go, side
  <2>13. CASE HandlerErrs(w) BY <2>13 DEF HandlerErrs, Goto, row, runner, go, side
  <2>14. CASE HandlerPanics(w) BY <2>14 DEF HandlerPanics, Goto, Unregister, row, runner, go, side
  <2>15. CASE Complete(w)
    <3>1. /\ pc[w] \in Claimed /\ Named(w) /\ cursor' = [cursor EXCEPT ![job[w]] = cur[w]]
          /\ \A v \in Gos : pc'[v] \in Fetched => v # w /\ pc[v] \in Fetched /\ on'[v] = on[v] /\ job'[v] = job[v] /\ cur'[v] = cur[v]
          /\ UNCHANGED <<owner, runnerID, shared>>
      BY <2>15 DEF Complete, SetRow, Leave, Gone, side
    <3> QED BY <1>0, <3>1
  <2>16. CASE ErrCheck(w)
    <3>1. pc[w] = "erred" /\ pc' \in {[pc EXCEPT ![w] = "finalize"], [pc EXCEPT ![w] = "fail"]}
      BY <2>16 DEF ErrCheck, Goto
    <3>2. UNCHANGED <<owner, cursor, on, job, cur, runnerID, shared>> BY <2>16 DEF ErrCheck, row, runner, go, side
    <3>3. \A v \in Gos : pc'[v] \in Fetched => pc[v] \in Fetched BY <3>1
    <3> QED BY <3>2, <3>3
  <2>17. CASE Fail(w) BY <1>0, <2>17 DEF Fail, Leave, Gone, Unregister, SetRow, row, runner, go, side
  <2>18. CASE Refused(w) BY <2>18 DEF Refused, Goto, row, runner, go, side
  <2>19. CASE GivesUp(w) BY <2>19 DEF GivesUp, Leave, Gone, Unregister, row, runner, go, side
  <2>20. CASE Settle(w)
    <3>1. CASE Goto(w, "finalize") /\ UNCHANGED <<runner, on, job, ticket, cur, dead, blind>> BY <2>20, <3>1 DEF Settle, Goto, row, runner, go, side
    <3>2. CASE Leave(w) BY <2>20, <3>2 DEF Settle, Leave, Gone, Unregister, row, runner, go, side
    <3> QED BY <2>20, <3>1, <3>2 DEF Settle
  <2>21. CASE Finalize(w)
    <3>1. CASE Owned(w, "cancelled") /\ SetRow(job[w], "cancelled", cur[w])
      <4>1. /\ pc[w] \in Claimed /\ Named(w) /\ cursor' = [cursor EXCEPT ![job[w]] = cur[w]]
            /\ \A v \in Gos : pc'[v] \in Fetched => v # w /\ pc[v] \in Fetched /\ on'[v] = on[v] /\ job'[v] = job[v] /\ cur'[v] = cur[v]
            /\ UNCHANGED <<owner, runnerID, shared>>
        BY <2>21, <3>1 DEF Finalize, SetRow, Leave, Gone, side
      <4> QED BY <1>0, <4>1
    <3>2. CASE UNCHANGED row BY <2>21, <3>2 DEF Finalize, Leave, Gone, Unregister, row, runner, go, side
    <3> QED BY <2>21, <3>1, <3>2 DEF Finalize
  <2>22. CASE LookAround(w) BY <2>22 DEF LookAround, Goto, row, runner, go, side
  <2> QED BY <1>2, <2>1, <2>2, <2>3, <2>4, <2>5, <2>6, <2>7, <2>8, <2>9, <2>10, <2>11, <2>12, <2>13, <2>14, <2>15, <2>16, <2>17, <2>18, <2>19, <2>20, <2>21, <2>22 DEF Execute
<1>3. ASSUME NEW w \in Gos, Heartbeat(w) PROVE CurAhead'
  BY <1>3 DEF Heartbeat, row, runner, go, side
<1>4. ASSUME NEW r \in Runners, Scan(r) \/ Dispatcher(r) \/ Shutdown(r) \/ Stopped(r) \/ Crash(r) \/ Restart(r) PROVE CurAhead'
  <2>1. CASE Scan(r) BY <2>1 DEF Scan, row, runner, go, side
  <2>2. CASE Skip(r) BY <2>2 DEF Skip, First, row, runner, go, side
  <2>3. CASE Full(r) BY <2>3 DEF Full, First, row, runner, go, side
  <2>4. CASE Dispatch(r)
    <3>1. PICK j \in JobIds, w \in Gos : First(r, j) /\ Begin(w, r, j, "claim") BY <2>4 DEF Dispatch, Start
    <3> QED BY <2>4, <3>1 DEF Dispatch, Start, Begin, row, runner, go, side
  <2>5. CASE Shutdown(r) BY <2>5 DEF Shutdown, Busy, row, runner, go, side
  <2>6. CASE Stopped(r) BY <2>6 DEF Stopped, row, runner, go, side
  <2>7. CASE Crash(r) BY <2>7 DEF Crash, Gone, Busy, row, runner, go, side
  <2>8. CASE Restart(r) BY <2>8 DEF Restart, row, runner, go, side
  <2> QED BY <1>4, <2>1, <2>2, <2>3, <2>4, <2>5, <2>6, <2>7, <2>8 DEF Dispatcher
<1>5. ASSUME NEW j \in JobIds, CheckInFlight(j) \/ Stamp(j) \/ Lapse(j) PROVE CurAhead'
  <2>1. CASE CheckInFlight(j) BY <2>1 DEF CheckInFlight, row, runner, go, side
  <2>2. CASE Lapse(j) BY <2>2 DEF Lapse, row, runner, go, side
  <2>3. CASE Stamp(j) BY <2>3 DEF Stamp, row, runner, go, side
  <2> QED BY <1>5, <2>1, <2>2, <2>3
<1>6. ASSUME NEW r \in Runners, NEW j \in JobIds, Enqueue(r, j) \/ Spawn(r, j) \/ Cancel(r, j) \/ CancelLocal(r, j) PROVE CurAhead'
  <2>1. CASE Enqueue(r, j) BY <2>1 DEF Enqueue, row, runner, go, side
  <2>2. CASE Cancel(r, j) BY <2>2 DEF Cancel, row, runner, go, side
  <2>3. CASE CancelLocal(r, j) BY <2>3 DEF CancelLocal, row, runner, go, side
  <2>4. CASE Spawn(r, j)
    <3>1. CASE UNCHANGED <<go, blind, up, inflight, jobCancels>> BY <2>4, <3>1 DEF Spawn, row, runner, go, side
    <3>3. entering' = entering \ {<<r, j>>} /\ UNCHANGED <<row, sem, listed, runnerID, slots, born, clock, ahead, cancelling, asked, told, lapsed, shared, starts, trouble>> BY <2>4 DEF Spawn
    <3>2. ASSUME NEW w \in Gos, j \notin inflight[r], Begin(w, r, j, "wait") PROVE CurAhead'
      BY <3>2, <3>3 DEF Begin, row, runner, go, side
    <3> QED BY <2>4, <3>1, <3>2 DEF Spawn
  <2> QED BY <1>6, <2>1, <2>2, <2>3, <2>4
<1> QED BY <1>1, <1>2, <1>3, <1>4, <1>5, <1>6 DEF Next

LEMMA LookedStep == TypeOK /\ Placing /\ Begun /\ StaleLapsed /\ Looked /\ [Next]_vars => Looked'
<1> SUFFICES ASSUME TypeOK, Placing, Begun, StaleLapsed, Looked, [Next]_vars PROVE Looked'
  OBVIOUS
<1> USE JobsAssumption DEF TypeOK, Placing, Placed, Begun, StaleLapsed, Looked, InOrder, Older, SameKey, Holding, InFlight, Terminal, Registered
<1>1. CASE UNCHANGED vars BY <1>1 DEF vars, row, runner, go, side
<1>2. ASSUME NEW w \in Gos, Execute(w) PROVE Looked'
  <2>1. CASE AcquireSlot(w) BY <2>1 DEF AcquireSlot, Goto, row, runner, go, side
  <2>2. CASE Abandon(w) BY <2>2 DEF Abandon, Leave, Gone, Unregister, row, runner, go, side
  <2>3. CASE Claim(w) BY <2>3 DEF Claim, Claiming, Claimable, Goto, row, runner, go, side
  <2>4. CASE NotClaimed(w) BY <2>4 DEF NotClaimed, Leave, Gone, Unregister, row, runner, go, side
  <2>5. CASE Fetch(w) BY <2>5 DEF Fetch, Goto, row, runner, go, side
  <2>6. CASE FetchFails(w) BY <2>6 DEF FetchFails, Leave, Gone, Unregister, row, runner, go, side
  <2>7. CASE Register(w) BY <2>7 DEF Register, Goto, row, runner, go, side
  <2>8. CASE Recheck(w) BY <2>8 DEF Recheck, Goto, row, runner, go, side
  <2>9. CASE Batch(w) BY <2>9 DEF Batch, Goto, row, runner, go, side
  <2>10. CASE Checkpoint(w)
    <3>1. CASE SaveCursor(w) /\ Goto(w, "handler") BY <2>10, <3>1 DEF Checkpoint, SaveCursor, Goto, row, runner, go, side
    <3>2. CASE UNCHANGED row /\ Goto(w, "erred") BY <2>10, <3>2 DEF Checkpoint, Goto, row, runner, go, side
    <3> QED BY <2>10, <3>1, <3>2 DEF Checkpoint
  <2>11. CASE StopEarly(w)
    <3>1. CASE SaveCursor(w) BY <2>11, <3>1 DEF StopEarly, SaveCursor, Goto, row, runner, go, side
    <3>2. CASE UNCHANGED row BY <2>11, <3>2 DEF StopEarly, Goto, row, runner, go, side
    <3> QED BY <2>11, <3>1, <3>2 DEF StopEarly
  <2>12. CASE Finish(w) BY <2>12 DEF Finish, Goto, row, runner, go, side
  <2>13. CASE HandlerErrs(w) BY <2>13 DEF HandlerErrs, Goto, row, runner, go, side
  <2>14. CASE HandlerPanics(w) BY <2>14 DEF HandlerPanics, Goto, Unregister, row, runner, go, side
  <2>15. CASE Complete(w) BY <2>15 DEF Complete, Leave, Gone, Unregister, SetRow, row, runner, go, side
  <2>16. CASE ErrCheck(w) BY <2>16 DEF ErrCheck, Goto, row, runner, go, side
  <2>17. CASE Fail(w) BY <2>17 DEF Fail, Leave, Gone, Unregister, SetRow, row, runner, go, side
  <2>18. CASE Refused(w) BY <2>18 DEF Refused, Goto, row, runner, go, side
  <2>19. CASE GivesUp(w) BY <2>19 DEF GivesUp, Leave, Gone, Unregister, row, runner, go, side
  <2>20. CASE Settle(w)
    <3>1. CASE Goto(w, "finalize") /\ UNCHANGED <<runner, on, job, ticket, cur, dead, blind>> BY <2>20, <3>1 DEF Settle, Goto, row, runner, go, side
    <3>2. CASE Leave(w) BY <2>20, <3>2 DEF Settle, Leave, Gone, Unregister, row, runner, go, side
    <3> QED BY <2>20, <3>1, <3>2 DEF Settle
  <2>21. CASE Finalize(w)
    <3>1. CASE SetRow(job[w], "cancelled", cur[w]) BY <2>21, <3>1 DEF Finalize, SetRow, Leave, Gone, Unregister, row, runner, go, side
    <3>2. CASE UNCHANGED row BY <2>21, <3>2 DEF Finalize, Leave, Gone, Unregister, row, runner, go, side
    <3> QED BY <2>21, <3>1, <3>2 DEF Finalize
  <2>22. CASE LookAround(w) BY <2>22 DEF MayClaim, NoLiveSibling, NoOlderPending, LookAround, Goto, row, runner, go, side
  <2> QED BY <1>2, <2>1, <2>2, <2>3, <2>4, <2>5, <2>6, <2>7, <2>8, <2>9, <2>10, <2>11, <2>12, <2>13, <2>14, <2>15, <2>16, <2>17, <2>18, <2>19, <2>20, <2>21, <2>22 DEF Execute
<1>3. ASSUME NEW w \in Gos, Heartbeat(w) PROVE Looked'
  BY <1>3 DEF Heartbeat, row, runner, go, side
<1>4. ASSUME NEW r \in Runners, Scan(r) \/ Dispatcher(r) \/ Shutdown(r) \/ Stopped(r) \/ Crash(r) \/ Restart(r) PROVE Looked'
  <2>1. CASE Scan(r) BY <2>1 DEF Scan, row, runner, go, side
  <2>2. CASE Skip(r) BY <2>2 DEF Skip, First, row, runner, go, side
  <2>3. CASE Full(r) BY <2>3 DEF Full, First, row, runner, go, side
  <2>4. CASE Dispatch(r)
    <3>1. PICK j \in JobIds, w \in Gos : First(r, j) /\ Begin(w, r, j, "claim") BY <2>4 DEF Dispatch, Start
    <3> QED BY <2>4, <3>1 DEF Dispatch, Start, Begin, row, runner, go, side
  <2>5. CASE Shutdown(r) BY <2>5 DEF Shutdown, Busy, row, runner, go, side
  <2>6. CASE Stopped(r) BY <2>6 DEF Stopped, row, runner, go, side
  <2>7. CASE Crash(r) BY <2>7 DEF Crash, Gone, Busy, row, runner, go, side
  <2>8. CASE Restart(r) BY <2>8 DEF Restart, row, runner, go, side
  <2> QED BY <1>4, <2>1, <2>2, <2>3, <2>4, <2>5, <2>6, <2>7, <2>8 DEF Dispatcher
<1>5. ASSUME NEW j \in JobIds, CheckInFlight(j) \/ Stamp(j) \/ Lapse(j) PROVE Looked'
  <2>1. CASE CheckInFlight(j) BY <2>1 DEF CheckInFlight, row, runner, go, side
  <2>2. CASE Lapse(j) BY <2>2 DEF Lapse, row, runner, go, side
  <2>3. CASE Stamp(j) BY <2>3 DEF Stamp, row, runner, go, side
  <2> QED BY <1>5, <2>1, <2>2, <2>3
<1>6. ASSUME NEW r \in Runners, NEW j \in JobIds, Enqueue(r, j) \/ Spawn(r, j) \/ Cancel(r, j) \/ CancelLocal(r, j) PROVE Looked'
  <2>1. CASE Enqueue(r, j) BY <2>1 DEF Enqueue, row, runner, go, side
  <2>2. CASE Cancel(r, j) BY <2>2 DEF Cancel, row, runner, go, side
  <2>3. CASE CancelLocal(r, j) BY <2>3 DEF CancelLocal, row, runner, go, side
  <2>4. CASE Spawn(r, j)
    <3>1. CASE UNCHANGED <<go, blind, up, inflight, jobCancels>> BY <2>4, <3>1 DEF Spawn, row, runner, go, side
    <3>3. entering' = entering \ {<<r, j>>} /\ UNCHANGED <<row, sem, listed, runnerID, slots, born, clock, ahead, cancelling, asked, told, lapsed, shared, starts, trouble>> BY <2>4 DEF Spawn
    <3>2. ASSUME NEW w \in Gos, j \notin inflight[r], Begin(w, r, j, "wait") PROVE Looked'
      BY <3>2, <3>3 DEF Begin, row, runner, go, side
    <3> QED BY <2>4, <3>1, <3>2 DEF Spawn
  <2> QED BY <1>6, <2>1, <2>2, <2>3, <2>4
<1> QED BY <1>1, <1>2, <1>3, <1>4, <1>5, <1>6 DEF Next

LEMMA OrderStep == TypeOK /\ Placing /\ Begun /\ Looked /\ StartedInOrder /\ [Next]_vars => StartedInOrder'
<1> SUFFICES ASSUME TypeOK, Placing, Begun, Looked, StartedInOrder, [Next]_vars PROVE StartedInOrder'
  OBVIOUS
<1> USE JobsAssumption DEF TypeOK, Placing, Placed, Begun, StartedInOrder, InOrder, Older, Looked, Owns, Owned, Named, Claimable, Holding, InFlight, Terminal, Registered
<1>1. CASE UNCHANGED vars BY <1>1 DEF vars, row, runner, go, side
<1>2. ASSUME NEW w \in Gos, Execute(w) PROVE StartedInOrder'
  <2>1. CASE AcquireSlot(w) BY <2>1 DEF AcquireSlot, Goto, row, runner, go, side
  <2>2. CASE Abandon(w) BY <2>2 DEF Abandon, Leave, Gone, Unregister, row, runner, go, side
  <2>3. CASE Claim(w)
    <3> SUFFICES ASSUME NEW a \in JobIds, NEW b \in JobIds, SameKey(a, b), InOrder(a, b),
                        attempts'[b] > 0, status'[a] = "pending" PROVE FALSE
      BY <2>3 DEF Claim, side
    <3>1. job[w] \in JobIds /\ a # job[w] /\ status[a] = "pending" BY <2>3 DEF Claim, Claiming
    <3>2. CASE b = job[w]
      <4>1. pc[w] = "take" BY <2>3, <3>2 DEF Claim, Claiming, SameKey
      <4> QED BY <3>1, <3>2, <4>1
    <3>3. CASE b # job[w] BY <2>3, <3>1, <3>3 DEF Claim
    <3> QED BY <3>2, <3>3
  <2>4. CASE NotClaimed(w) BY <2>4 DEF NotClaimed, Leave, Gone, Unregister, row, runner, go, side
  <2>5. CASE Fetch(w) BY <2>5 DEF Fetch, Goto, row, runner, go, side
  <2>6. CASE FetchFails(w) BY <2>6 DEF FetchFails, Leave, Gone, Unregister, row, runner, go, side
  <2>7. CASE Register(w) BY <2>7 DEF Register, Goto, row, runner, go, side
  <2>8. CASE Recheck(w) BY <2>8 DEF Recheck, Goto, row, runner, go, side
  <2>9. CASE Batch(w) BY <2>9 DEF Batch, Goto, row, runner, go, side
  <2>10. CASE Checkpoint(w)
    <3>1. CASE SaveCursor(w) /\ Goto(w, "handler") BY <2>10, <3>1 DEF Checkpoint, SaveCursor, Goto, row, runner, go, side
    <3>2. CASE UNCHANGED row /\ Goto(w, "erred") BY <2>10, <3>2 DEF Checkpoint, Goto, row, runner, go, side
    <3> QED BY <2>10, <3>1, <3>2 DEF Checkpoint
  <2>11. CASE StopEarly(w)
    <3>1. CASE SaveCursor(w) BY <2>11, <3>1 DEF StopEarly, SaveCursor, Goto, row, runner, go, side
    <3>2. CASE UNCHANGED row BY <2>11, <3>2 DEF StopEarly, Goto, row, runner, go, side
    <3> QED BY <2>11, <3>1, <3>2 DEF StopEarly
  <2>12. CASE Finish(w) BY <2>12 DEF Finish, Goto, row, runner, go, side
  <2>13. CASE HandlerErrs(w) BY <2>13 DEF HandlerErrs, Goto, row, runner, go, side
  <2>14. CASE HandlerPanics(w) BY <2>14 DEF HandlerPanics, Goto, Unregister, row, runner, go, side
  <2>15. CASE Complete(w) BY <2>15 DEF Complete, Leave, Gone, Unregister, SetRow, row, runner, go, side
  <2>16. CASE ErrCheck(w) BY <2>16 DEF ErrCheck, Goto, row, runner, go, side
  <2>17. CASE Fail(w) BY <2>17 DEF Fail, Leave, Gone, Unregister, SetRow, row, runner, go, side
  <2>18. CASE Refused(w) BY <2>18 DEF Refused, Goto, row, runner, go, side
  <2>19. CASE GivesUp(w) BY <2>19 DEF GivesUp, Leave, Gone, Unregister, row, runner, go, side
  <2>20. CASE Settle(w)
    <3>1. CASE Goto(w, "finalize") /\ UNCHANGED <<runner, on, job, ticket, cur, dead, blind>> BY <2>20, <3>1 DEF Settle, Goto, row, runner, go, side
    <3>2. CASE Leave(w) BY <2>20, <3>2 DEF Settle, Leave, Gone, Unregister, row, runner, go, side
    <3> QED BY <2>20, <3>1, <3>2 DEF Settle
  <2>21. CASE Finalize(w)
    <3>1. CASE SetRow(job[w], "cancelled", cur[w]) BY <2>21, <3>1 DEF Finalize, SetRow, Leave, Gone, Unregister, row, runner, go, side
    <3>2. CASE UNCHANGED row BY <2>21, <3>2 DEF Finalize, Leave, Gone, Unregister, row, runner, go, side
    <3> QED BY <2>21, <3>1, <3>2 DEF Finalize
  <2>22. CASE LookAround(w) BY <2>22 DEF LookAround, Goto, row, runner, go, side
  <2> QED BY <1>2, <2>1, <2>2, <2>3, <2>4, <2>5, <2>6, <2>7, <2>8, <2>9, <2>10, <2>11, <2>12, <2>13, <2>14, <2>15, <2>16, <2>17, <2>18, <2>19, <2>20, <2>21, <2>22 DEF Execute
<1>3. ASSUME NEW w \in Gos, Heartbeat(w) PROVE StartedInOrder'
  BY <1>3 DEF Heartbeat, row, runner, go, side
<1>4. ASSUME NEW r \in Runners, Scan(r) \/ Dispatcher(r) \/ Shutdown(r) \/ Stopped(r) \/ Crash(r) \/ Restart(r) PROVE StartedInOrder'
  <2>1. CASE Scan(r) BY <2>1 DEF Scan, row, runner, go, side
  <2>2. CASE Skip(r) BY <2>2 DEF Skip, First, row, runner, go, side
  <2>3. CASE Full(r) BY <2>3 DEF Full, First, row, runner, go, side
  <2>4. CASE Dispatch(r)
    <3>1. PICK j \in JobIds, w \in Gos : First(r, j) /\ Begin(w, r, j, "claim") BY <2>4 DEF Dispatch, Start
    <3> QED BY <2>4, <3>1 DEF Dispatch, Start, Begin, row, runner, go, side
  <2>5. CASE Shutdown(r) BY <2>5 DEF Shutdown, Busy, row, runner, go, side
  <2>6. CASE Stopped(r) BY <2>6 DEF Stopped, row, runner, go, side
  <2>7. CASE Crash(r) BY <2>7 DEF Crash, Gone, Busy, row, runner, go, side
  <2>8. CASE Restart(r) BY <2>8 DEF Restart, row, runner, go, side
  <2> QED BY <1>4, <2>1, <2>2, <2>3, <2>4, <2>5, <2>6, <2>7, <2>8 DEF Dispatcher
<1>5. ASSUME NEW j \in JobIds, CheckInFlight(j) \/ Stamp(j) \/ Lapse(j) PROVE StartedInOrder'
  <2>1. CASE CheckInFlight(j) BY <2>1 DEF CheckInFlight, row, runner, go, side
  <2>2. CASE Lapse(j) BY <2>2 DEF Lapse, row, runner, go, side
  <2>3. CASE Stamp(j) BY <2>3 DEF Stamp, row, runner, go, side
  <2> QED BY <1>5, <2>1, <2>2, <2>3
<1>6. ASSUME NEW r \in Runners, NEW j \in JobIds, Enqueue(r, j) \/ Spawn(r, j) \/ Cancel(r, j) \/ CancelLocal(r, j) PROVE StartedInOrder'
  <2>1. CASE Enqueue(r, j) BY <2>1 DEF Enqueue, row, runner, go, side
  <2>2. CASE Cancel(r, j) BY <2>2 DEF Cancel, row, runner, go, side
  <2>3. CASE CancelLocal(r, j) BY <2>3 DEF CancelLocal, row, runner, go, side
  <2>4. CASE Spawn(r, j)
    <3>1. CASE UNCHANGED <<go, blind, up, inflight, jobCancels>> BY <2>4, <3>1 DEF Spawn, row, runner, go, side
    <3>3. entering' = entering \ {<<r, j>>} /\ UNCHANGED <<row, sem, listed, runnerID, slots, born, clock, ahead, cancelling, asked, told, lapsed, shared, starts, trouble>> BY <2>4 DEF Spawn
    <3>2. ASSUME NEW w \in Gos, j \notin inflight[r], Begin(w, r, j, "wait") PROVE StartedInOrder'
      BY <3>2, <3>3 DEF Begin, row, runner, go, side
    <3> QED BY <2>4, <3>1, <3>2 DEF Spawn
  <2> QED BY <1>6, <2>1, <2>2, <2>3, <2>4
<1> QED BY <1>1, <1>2, <1>3, <1>4, <1>5, <1>6 DEF Next

LEMMA StaleStep == TypeOK /\ Placing /\ StaleLapsed /\ [Next]_vars => StaleLapsed'
<1> SUFFICES ASSUME TypeOK, Placing, StaleLapsed, [Next]_vars PROVE StaleLapsed'
  OBVIOUS
<1> USE JobsAssumption DEF TypeOK, Placing, Placed, StaleLapsed, Owns, Owned, Named, Holding, InFlight, Terminal, Registered
<1>1. CASE UNCHANGED vars BY <1>1 DEF vars, row, runner, go, side
<1>2. ASSUME NEW w \in Gos, Execute(w) PROVE StaleLapsed'
  <2>1. CASE AcquireSlot(w) BY <2>1 DEF AcquireSlot, Goto, row, runner, go, side
  <2>2. CASE Abandon(w) BY <2>2 DEF Abandon, Leave, Gone, Unregister, row, runner, go, side
  <2>3. CASE Claim(w) BY <2>3 DEF Claim, Claiming, Goto, row, runner, go, side
  <2>4. CASE NotClaimed(w) BY <2>4 DEF NotClaimed, Leave, Gone, Unregister, row, runner, go, side
  <2>5. CASE Fetch(w) BY <2>5 DEF Fetch, Goto, row, runner, go, side
  <2>6. CASE FetchFails(w) BY <2>6 DEF FetchFails, Leave, Gone, Unregister, row, runner, go, side
  <2>7. CASE Register(w) BY <2>7 DEF Register, Goto, row, runner, go, side
  <2>8. CASE Recheck(w) BY <2>8 DEF Recheck, Goto, row, runner, go, side
  <2>9. CASE Batch(w) BY <2>9 DEF Batch, Goto, row, runner, go, side
  <2>10. CASE Checkpoint(w)
    <3>1. CASE SaveCursor(w) /\ Goto(w, "handler") BY <2>10, <3>1 DEF Checkpoint, SaveCursor, Goto, row, runner, go, side
    <3>2. CASE UNCHANGED row /\ Goto(w, "erred") BY <2>10, <3>2 DEF Checkpoint, Goto, row, runner, go, side
    <3> QED BY <2>10, <3>1, <3>2 DEF Checkpoint
  <2>11. CASE StopEarly(w)
    <3>1. CASE SaveCursor(w) BY <2>11, <3>1 DEF StopEarly, SaveCursor, Goto, row, runner, go, side
    <3>2. CASE UNCHANGED row BY <2>11, <3>2 DEF StopEarly, Goto, row, runner, go, side
    <3> QED BY <2>11, <3>1, <3>2 DEF StopEarly
  <2>12. CASE Finish(w) BY <2>12 DEF Finish, Goto, row, runner, go, side
  <2>13. CASE HandlerErrs(w) BY <2>13 DEF HandlerErrs, Goto, row, runner, go, side
  <2>14. CASE HandlerPanics(w) BY <2>14 DEF HandlerPanics, Goto, Unregister, row, runner, go, side
  <2>15. CASE Complete(w) BY <2>15 DEF Complete, Leave, Gone, Unregister, SetRow, row, runner, go, side
  <2>16. CASE ErrCheck(w) BY <2>16 DEF ErrCheck, Goto, row, runner, go, side
  <2>17. CASE Fail(w) BY <2>17 DEF Fail, Leave, Gone, Unregister, SetRow, row, runner, go, side
  <2>18. CASE Refused(w) BY <2>18 DEF Refused, Goto, row, runner, go, side
  <2>19. CASE GivesUp(w) BY <2>19 DEF GivesUp, Leave, Gone, Unregister, row, runner, go, side
  <2>20. CASE Settle(w)
    <3>1. CASE Goto(w, "finalize") /\ UNCHANGED <<runner, on, job, ticket, cur, dead, blind>> BY <2>20, <3>1 DEF Settle, Goto, row, runner, go, side
    <3>2. CASE Leave(w) BY <2>20, <3>2 DEF Settle, Leave, Gone, Unregister, row, runner, go, side
    <3> QED BY <2>20, <3>1, <3>2 DEF Settle
  <2>21. CASE Finalize(w)
    <3>1. CASE SetRow(job[w], "cancelled", cur[w]) BY <2>21, <3>1 DEF Finalize, SetRow, Leave, Gone, Unregister, row, runner, go, side
    <3>2. CASE UNCHANGED row BY <2>21, <3>2 DEF Finalize, Leave, Gone, Unregister, row, runner, go, side
    <3> QED BY <2>21, <3>1, <3>2 DEF Finalize
  <2>22. CASE LookAround(w) BY <2>22 DEF LookAround, Goto, row, runner, go, side
  <2> QED BY <1>2, <2>1, <2>2, <2>3, <2>4, <2>5, <2>6, <2>7, <2>8, <2>9, <2>10, <2>11, <2>12, <2>13, <2>14, <2>15, <2>16, <2>17, <2>18, <2>19, <2>20, <2>21, <2>22 DEF Execute
<1>3. ASSUME NEW w \in Gos, Heartbeat(w) PROVE StaleLapsed'
  <2>1. live' = live \/ live' = [live EXCEPT ![job[w]] = TRUE] BY <1>3 DEF Heartbeat
  <2>2. UNCHANGED <<status, lapsed>> BY <1>3 DEF Heartbeat, side
  <2>3. \A j \in JobIds : live'[j] = live[j] \/ live'[j] = TRUE BY <2>1
  <2> QED BY <2>2, <2>3
<1>4. ASSUME NEW r \in Runners, Scan(r) \/ Dispatcher(r) \/ Shutdown(r) \/ Stopped(r) \/ Crash(r) \/ Restart(r) PROVE StaleLapsed'
  <2>1. CASE Scan(r) BY <2>1 DEF Scan, row, runner, go, side
  <2>2. CASE Skip(r) BY <2>2 DEF Skip, First, row, runner, go, side
  <2>3. CASE Full(r) BY <2>3 DEF Full, First, row, runner, go, side
  <2>4. CASE Dispatch(r)
    <3>1. PICK j \in JobIds, w \in Gos : First(r, j) /\ Begin(w, r, j, "claim") BY <2>4 DEF Dispatch, Start
    <3> QED BY <2>4, <3>1 DEF Dispatch, Start, Begin, row, runner, go, side
  <2>5. CASE Shutdown(r) BY <2>5 DEF Shutdown, Busy, row, runner, go, side
  <2>6. CASE Stopped(r) BY <2>6 DEF Stopped, row, runner, go, side
  <2>7. CASE Crash(r) BY <2>7 DEF Crash, Gone, Busy, row, runner, go, side
  <2>8. CASE Restart(r) BY <2>8 DEF Restart, row, runner, go, side
  <2> QED BY <1>4, <2>1, <2>2, <2>3, <2>4, <2>5, <2>6, <2>7, <2>8 DEF Dispatcher
<1>5. ASSUME NEW j \in JobIds, CheckInFlight(j) \/ Stamp(j) \/ Lapse(j) PROVE StaleLapsed'
  <2>1. CASE CheckInFlight(j) BY <2>1 DEF CheckInFlight, row, runner, go, side
  <2>2. CASE Lapse(j) BY <2>2 DEF Lapse, row, runner, go, side
  <2>3. CASE Stamp(j) BY <2>3 DEF Stamp, row, runner, go, side
  <2> QED BY <1>5, <2>1, <2>2, <2>3
<1>6. ASSUME NEW r \in Runners, NEW j \in JobIds, Enqueue(r, j) \/ Spawn(r, j) \/ Cancel(r, j) \/ CancelLocal(r, j) PROVE StaleLapsed'
  <2>1. CASE Enqueue(r, j) BY <2>1 DEF Enqueue, row, runner, go, side
  <2>2. CASE Cancel(r, j) BY <2>2 DEF Cancel, row, runner, go, side
  <2>3. CASE CancelLocal(r, j) BY <2>3 DEF CancelLocal, row, runner, go, side
  <2>4. CASE Spawn(r, j)
    <3>1. CASE UNCHANGED <<go, blind, up, inflight, jobCancels>> BY <2>4, <3>1 DEF Spawn, row, runner, go, side
    <3>3. entering' = entering \ {<<r, j>>} /\ UNCHANGED <<row, sem, listed, runnerID, slots, born, clock, ahead, cancelling, asked, told, lapsed, shared, starts, trouble>> BY <2>4 DEF Spawn
    <3>2. ASSUME NEW w \in Gos, j \notin inflight[r], Begin(w, r, j, "wait") PROVE StaleLapsed'
      BY <3>2, <3>3 DEF Begin, row, runner, go, side
    <3> QED BY <2>4, <3>1, <3>2 DEF Spawn
  <2> QED BY <1>6, <2>1, <2>2, <2>3, <2>4
<1> QED BY <1>1, <1>2, <1>3, <1>4, <1>5, <1>6 DEF Next

LEMMA OverlapStep == TypeOK /\ Placing /\ Begun /\ StaleLapsed /\ Looked /\ StartedInOrder /\ OverlapOnlyAfterLapse /\ [Next]_vars => OverlapOnlyAfterLapse'
<1> SUFFICES ASSUME TypeOK, Placing, Begun, StaleLapsed, Looked, StartedInOrder, OverlapOnlyAfterLapse, [Next]_vars PROVE OverlapOnlyAfterLapse'
  OBVIOUS
<1> USE JobsAssumption DEF TypeOK, Placing, Placed, Begun, StaleLapsed, Looked, StartedInOrder, InOrder, Older, OverlapOnlyAfterLapse, Owns, Owned, Named, SameKey, Holding, InFlight, Terminal, Registered
<1>1. CASE UNCHANGED vars BY <1>1 DEF vars, row, runner, go, side
<1>2. ASSUME NEW w \in Gos, Execute(w) PROVE OverlapOnlyAfterLapse'
  <2>1. CASE AcquireSlot(w) BY <2>1 DEF AcquireSlot, Goto, row, runner, go, side
  <2>2. CASE Abandon(w) BY <2>2 DEF Abandon, Leave, Gone, Unregister, row, runner, go, side
  <2>3. CASE Claim(w)
    <3>1. /\ Claiming(w) /\ Claimable(job[w]) /\ job[w] \in JobIds /\ status' = [status EXCEPT ![job[w]] = "running"]
          /\ UNCHANGED <<born, ahead, lapsed>>
      BY <2>3 DEF Claim, Claiming, side
    <3>2. ASSUME NEW a \in JobIds, NEW b \in JobIds, SameKey(a, b), InOrder(a, b), status'[a] = "running", status'[b] = "running"
          PROVE a \in lapsed \/ b \in lapsed
      <4>1. CASE b = job[w]
        <5>1. pc[w] = "take" /\ status[a] = "running" BY <3>1, <3>2, <4>1 DEF Claiming
        <5> QED BY <3>2, <4>1, <5>1
      <4>2. CASE a = job[w]
        <5>1. attempts[b] > 0 BY <3>1, <3>2, <4>2
        <5>2. status[a] # "pending" BY <3>2, <5>1
        <5> QED BY <3>1, <4>2, <5>2 DEF Claimable
      <4>3. CASE a # job[w] /\ b # job[w] BY <3>1, <3>2, <4>3
      <4> QED BY <4>1, <4>2, <4>3
    <3> QED BY <3>1, <3>2
  <2>4. CASE NotClaimed(w) BY <2>4 DEF NotClaimed, Leave, Gone, Unregister, row, runner, go, side
  <2>5. CASE Fetch(w) BY <2>5 DEF Fetch, Goto, row, runner, go, side
  <2>6. CASE FetchFails(w) BY <2>6 DEF FetchFails, Leave, Gone, Unregister, row, runner, go, side
  <2>7. CASE Register(w) BY <2>7 DEF Register, Goto, row, runner, go, side
  <2>8. CASE Recheck(w) BY <2>8 DEF Recheck, Goto, row, runner, go, side
  <2>9. CASE Batch(w) BY <2>9 DEF Batch, Goto, row, runner, go, side
  <2>10. CASE Checkpoint(w)
    <3>1. CASE SaveCursor(w) /\ Goto(w, "handler") BY <2>10, <3>1 DEF Checkpoint, SaveCursor, Goto, row, runner, go, side
    <3>2. CASE UNCHANGED row /\ Goto(w, "erred") BY <2>10, <3>2 DEF Checkpoint, Goto, row, runner, go, side
    <3> QED BY <2>10, <3>1, <3>2 DEF Checkpoint
  <2>11. CASE StopEarly(w)
    <3>1. CASE SaveCursor(w) BY <2>11, <3>1 DEF StopEarly, SaveCursor, Goto, row, runner, go, side
    <3>2. CASE UNCHANGED row BY <2>11, <3>2 DEF StopEarly, Goto, row, runner, go, side
    <3> QED BY <2>11, <3>1, <3>2 DEF StopEarly
  <2>12. CASE Finish(w) BY <2>12 DEF Finish, Goto, row, runner, go, side
  <2>13. CASE HandlerErrs(w) BY <2>13 DEF HandlerErrs, Goto, row, runner, go, side
  <2>14. CASE HandlerPanics(w) BY <2>14 DEF HandlerPanics, Goto, Unregister, row, runner, go, side
  <2>15. CASE Complete(w) BY <2>15 DEF Complete, Leave, Gone, Unregister, SetRow, row, runner, go, side
  <2>16. CASE ErrCheck(w) BY <2>16 DEF ErrCheck, Goto, row, runner, go, side
  <2>17. CASE Fail(w) BY <2>17 DEF Fail, Leave, Gone, Unregister, SetRow, row, runner, go, side
  <2>18. CASE Refused(w) BY <2>18 DEF Refused, Goto, row, runner, go, side
  <2>19. CASE GivesUp(w) BY <2>19 DEF GivesUp, Leave, Gone, Unregister, row, runner, go, side
  <2>20. CASE Settle(w)
    <3>1. CASE Goto(w, "finalize") /\ UNCHANGED <<runner, on, job, ticket, cur, dead, blind>> BY <2>20, <3>1 DEF Settle, Goto, row, runner, go, side
    <3>2. CASE Leave(w) BY <2>20, <3>2 DEF Settle, Leave, Gone, Unregister, row, runner, go, side
    <3> QED BY <2>20, <3>1, <3>2 DEF Settle
  <2>21. CASE Finalize(w)
    <3>1. CASE SetRow(job[w], "cancelled", cur[w]) BY <2>21, <3>1 DEF Finalize, SetRow, Leave, Gone, Unregister, row, runner, go, side
    <3>2. CASE UNCHANGED row BY <2>21, <3>2 DEF Finalize, Leave, Gone, Unregister, row, runner, go, side
    <3> QED BY <2>21, <3>1, <3>2 DEF Finalize
  <2>22. CASE LookAround(w) BY <2>22 DEF LookAround, Goto, row, runner, go, side
  <2> QED BY <1>2, <2>1, <2>2, <2>3, <2>4, <2>5, <2>6, <2>7, <2>8, <2>9, <2>10, <2>11, <2>12, <2>13, <2>14, <2>15, <2>16, <2>17, <2>18, <2>19, <2>20, <2>21, <2>22 DEF Execute
<1>3. ASSUME NEW w \in Gos, Heartbeat(w) PROVE OverlapOnlyAfterLapse'
  BY <1>3 DEF Heartbeat, row, runner, go, side
<1>4. ASSUME NEW r \in Runners, Scan(r) \/ Dispatcher(r) \/ Shutdown(r) \/ Stopped(r) \/ Crash(r) \/ Restart(r) PROVE OverlapOnlyAfterLapse'
  <2>1. CASE Scan(r) BY <2>1 DEF Scan, row, runner, go, side
  <2>2. CASE Skip(r) BY <2>2 DEF Skip, First, row, runner, go, side
  <2>3. CASE Full(r) BY <2>3 DEF Full, First, row, runner, go, side
  <2>4. CASE Dispatch(r)
    <3>1. PICK j \in JobIds, w \in Gos : First(r, j) /\ Begin(w, r, j, "claim") BY <2>4 DEF Dispatch, Start
    <3> QED BY <2>4, <3>1 DEF Dispatch, Start, Begin, row, runner, go, side
  <2>5. CASE Shutdown(r) BY <2>5 DEF Shutdown, Busy, row, runner, go, side
  <2>6. CASE Stopped(r) BY <2>6 DEF Stopped, row, runner, go, side
  <2>7. CASE Crash(r) BY <2>7 DEF Crash, Gone, Busy, row, runner, go, side
  <2>8. CASE Restart(r) BY <2>8 DEF Restart, row, runner, go, side
  <2> QED BY <1>4, <2>1, <2>2, <2>3, <2>4, <2>5, <2>6, <2>7, <2>8 DEF Dispatcher
<1>5. ASSUME NEW j \in JobIds, CheckInFlight(j) \/ Stamp(j) \/ Lapse(j) PROVE OverlapOnlyAfterLapse'
  <2>1. CASE CheckInFlight(j) BY <2>1 DEF CheckInFlight, row, runner, go, side
  <2>2. CASE Lapse(j) BY <2>2 DEF Lapse, row, runner, go, side
  <2>3. CASE Stamp(j) BY <2>3 DEF Stamp, row, runner, go, side
  <2> QED BY <1>5, <2>1, <2>2, <2>3
<1>6. ASSUME NEW r \in Runners, NEW j \in JobIds, Enqueue(r, j) \/ Spawn(r, j) \/ Cancel(r, j) \/ CancelLocal(r, j) PROVE OverlapOnlyAfterLapse'
  <2>1. CASE Enqueue(r, j) BY <2>1 DEF Enqueue, row, runner, go, side
  <2>2. CASE Cancel(r, j) BY <2>2 DEF Cancel, row, runner, go, side
  <2>3. CASE CancelLocal(r, j) BY <2>3 DEF CancelLocal, row, runner, go, side
  <2>4. CASE Spawn(r, j)
    <3>1. CASE UNCHANGED <<go, blind, up, inflight, jobCancels>> BY <2>4, <3>1 DEF Spawn, row, runner, go, side
    <3>3. entering' = entering \ {<<r, j>>} /\ UNCHANGED <<row, sem, listed, runnerID, slots, born, clock, ahead, cancelling, asked, told, lapsed, shared, starts, trouble>> BY <2>4 DEF Spawn
    <3>2. ASSUME NEW w \in Gos, j \notin inflight[r], Begin(w, r, j, "wait") PROVE OverlapOnlyAfterLapse'
      BY <3>2, <3>3 DEF Begin, row, runner, go, side
    <3> QED BY <2>4, <3>1, <3>2 DEF Spawn
  <2> QED BY <1>6, <2>1, <2>2, <2>3, <2>4
<1> QED BY <1>1, <1>2, <1>3, <1>4, <1>5, <1>6 DEF Next

LEMMA ReachStep == TypeOK /\ Placing /\ Reachable /\ [Next]_vars => Reachable'
<1> SUFFICES ASSUME TypeOK, Placing, Reachable, [Next]_vars PROVE Reachable'
  OBVIOUS
<1> USE JobsAssumption DEF TypeOK, Placing, Placed, OnePerJob, Reachable, Owns, Owned, Named, Claimable, MayClaim, Holding, InFlight, Terminal, Registered
<1>1. CASE UNCHANGED vars BY <1>1 DEF vars, row, runner, go, side
<1>2. ASSUME NEW w \in Gos, Execute(w) PROVE Reachable'
  <2>1. CASE AcquireSlot(w) BY <2>1 DEF AcquireSlot, Goto, row, runner, go, side
  <2>2. CASE Abandon(w) BY <2>2 DEF Abandon, Leave, Gone, Unregister, row, runner, go, side
  <2>3. CASE Claim(w) BY <2>3 DEF Claim, Claiming, Goto, row, runner, go, side
  <2>4. CASE NotClaimed(w) BY <2>4 DEF NotClaimed, Leave, Gone, Unregister, row, runner, go, side
  <2>5. CASE Fetch(w) BY <2>5 DEF Fetch, Goto, row, runner, go, side
  <2>6. CASE FetchFails(w) BY <2>6 DEF FetchFails, Leave, Gone, Unregister, row, runner, go, side
  <2>7. CASE Register(w) BY <2>7 DEF Register, Goto, row, runner, go, side
  <2>8. CASE Recheck(w) BY <2>8 DEF Recheck, Goto, row, runner, go, side
  <2>9. CASE Batch(w) BY <2>9 DEF Batch, Goto, row, runner, go, side
  <2>10. CASE Checkpoint(w)
    <3>1. CASE SaveCursor(w) /\ Goto(w, "handler") BY <2>10, <3>1 DEF Checkpoint, SaveCursor, Goto, row, runner, go, side
    <3>2. CASE UNCHANGED row /\ Goto(w, "erred") BY <2>10, <3>2 DEF Checkpoint, Goto, row, runner, go, side
    <3> QED BY <2>10, <3>1, <3>2 DEF Checkpoint
  <2>11. CASE StopEarly(w)
    <3>1. CASE SaveCursor(w) BY <2>11, <3>1 DEF StopEarly, SaveCursor, Goto, row, runner, go, side
    <3>2. CASE UNCHANGED row BY <2>11, <3>2 DEF StopEarly, Goto, row, runner, go, side
    <3> QED BY <2>11, <3>1, <3>2 DEF StopEarly
  <2>12. CASE Finish(w) BY <2>12 DEF Finish, Goto, row, runner, go, side
  <2>13. CASE HandlerErrs(w) BY <2>13 DEF HandlerErrs, Goto, row, runner, go, side
  <2>14. CASE HandlerPanics(w) BY <2>14 DEF HandlerPanics, Goto, Unregister, row, runner, go, side
  <2>15. CASE Complete(w) BY <2>15 DEF Complete, Leave, Gone, Unregister, SetRow, row, runner, go, side
  <2>16. CASE ErrCheck(w) BY <2>16 DEF ErrCheck, Goto, row, runner, go, side
  <2>17. CASE Fail(w) BY <2>17 DEF Fail, Leave, Gone, Unregister, SetRow, row, runner, go, side
  <2>18. CASE Refused(w) BY <2>18 DEF Refused, Goto, row, runner, go, side
  <2>19. CASE GivesUp(w) BY <2>19 DEF GivesUp, Leave, Gone, Unregister, row, runner, go, side
  <2>20. CASE Settle(w)
    <3>1. CASE Goto(w, "finalize") /\ UNCHANGED <<runner, on, job, ticket, cur, dead, blind>> BY <2>20, <3>1 DEF Settle, Goto, row, runner, go, side
    <3>2. CASE Leave(w) BY <2>20, <3>2 DEF Settle, Leave, Gone, Unregister, row, runner, go, side
    <3> QED BY <2>20, <3>1, <3>2 DEF Settle
  <2>21. CASE Finalize(w)
    <3>1. CASE SetRow(job[w], "cancelled", cur[w]) BY <2>21, <3>1 DEF Finalize, SetRow, Leave, Gone, Unregister, row, runner, go, side
    <3>2. CASE UNCHANGED row BY <2>21, <3>2 DEF Finalize, Leave, Gone, Unregister, row, runner, go, side
    <3> QED BY <2>21, <3>1, <3>2 DEF Finalize
  <2>22. CASE LookAround(w) BY <2>22 DEF LookAround, Goto, row, runner, go, side
  <2> QED BY <1>2, <2>1, <2>2, <2>3, <2>4, <2>5, <2>6, <2>7, <2>8, <2>9, <2>10, <2>11, <2>12, <2>13, <2>14, <2>15, <2>16, <2>17, <2>18, <2>19, <2>20, <2>21, <2>22 DEF Execute
<1>3. ASSUME NEW w \in Gos, Heartbeat(w) PROVE Reachable'
  BY <1>3 DEF Heartbeat, row, runner, go, side
<1>4. ASSUME NEW r \in Runners, Scan(r) \/ Dispatcher(r) \/ Shutdown(r) \/ Stopped(r) \/ Crash(r) \/ Restart(r) PROVE Reachable'
  <2>1. CASE Scan(r) BY <2>1 DEF Scan, row, runner, go, side
  <2>2. CASE Skip(r) BY <2>2 DEF Skip, First, row, runner, go, side
  <2>3. CASE Full(r) BY <2>3 DEF Full, First, row, runner, go, side
  <2>4. CASE Dispatch(r)
    <3>1. PICK j \in JobIds, w \in Gos : First(r, j) /\ Begin(w, r, j, "claim") BY <2>4 DEF Dispatch, Start
    <3> QED BY <2>4, <3>1 DEF Dispatch, Start, Begin, row, runner, go, side
  <2>5. CASE Shutdown(r) BY <2>5 DEF Shutdown, Busy, row, runner, go, side
  <2>6. CASE Stopped(r) BY <2>6 DEF Stopped, row, runner, go, side
  <2>7. CASE Crash(r) BY <2>7 DEF Crash, Gone, Busy, row, runner, go, side
  <2>8. CASE Restart(r) BY <2>8 DEF Restart, row, runner, go, side
  <2> QED BY <1>4, <2>1, <2>2, <2>3, <2>4, <2>5, <2>6, <2>7, <2>8 DEF Dispatcher
<1>5. ASSUME NEW j \in JobIds, CheckInFlight(j) \/ Stamp(j) \/ Lapse(j) PROVE Reachable'
  <2>1. CASE CheckInFlight(j) BY <2>1 DEF CheckInFlight, row, runner, go, side
  <2>2. CASE Lapse(j) BY <2>2 DEF Lapse, row, runner, go, side
  <2>3. CASE Stamp(j) BY <2>3 DEF Stamp, row, runner, go, side
  <2> QED BY <1>5, <2>1, <2>2, <2>3
<1>6. ASSUME NEW r \in Runners, NEW j \in JobIds, Enqueue(r, j) \/ Spawn(r, j) \/ Cancel(r, j) \/ CancelLocal(r, j) PROVE Reachable'
  <2>1. CASE Enqueue(r, j) BY <2>1 DEF Enqueue, row, runner, go, side
  <2>2. CASE Cancel(r, j) BY <2>2 DEF Cancel, row, runner, go, side
  <2>3. CASE CancelLocal(r, j) BY <2>3 DEF CancelLocal, row, runner, go, side
  <2>4. CASE Spawn(r, j)
    <3>1. CASE UNCHANGED <<go, blind, up, inflight, jobCancels>> BY <2>4, <3>1 DEF Spawn, row, runner, go, side
    <3>3. entering' = entering \ {<<r, j>>} /\ UNCHANGED <<row, sem, listed, runnerID, slots, born, clock, ahead, cancelling, asked, told, lapsed, shared, starts, trouble>> BY <2>4 DEF Spawn
    <3>2. ASSUME NEW w \in Gos, j \notin inflight[r], Begin(w, r, j, "wait") PROVE Reachable'
      BY <3>2, <3>3 DEF Begin, row, runner, go, side
    <3> QED BY <2>4, <3>1, <3>2 DEF Spawn
  <2> QED BY <1>6, <2>1, <2>2, <2>3, <2>4
<1> QED BY <1>1, <1>2, <1>3, <1>4, <1>5, <1>6 DEF Next

LEMMA CancelStep == TypeOK /\ Placing /\ Reachable /\ CancelReaches /\ [Next]_vars => CancelReaches'
<1> SUFFICES ASSUME TypeOK, Placing, Reachable, CancelReaches, [Next]_vars PROVE CancelReaches'
  OBVIOUS
<1> USE JobsAssumption DEF TypeOK, Placing, Placed, OnePerJob, Reachable, CancelReaches, Beating, Owns, Owned, Named, Claimable, MayClaim, Holding, InFlight, Terminal, Registered
<1>1. CASE UNCHANGED vars BY <1>1 DEF vars, row, runner, go, side
<1>2. ASSUME NEW w \in Gos, Execute(w) PROVE CancelReaches'
  <2>1. CASE AcquireSlot(w) BY <2>1 DEF AcquireSlot, Goto, row, runner, go, side
  <2>2. CASE Abandon(w) BY <2>2 DEF Abandon, Leave, Gone, Unregister, row, runner, go, side
  <2>3. CASE Claim(w) BY <2>3 DEF Claim, Claiming, Goto, row, runner, go, side
  <2>4. CASE NotClaimed(w) BY <2>4 DEF NotClaimed, Leave, Gone, Unregister, row, runner, go, side
  <2>5. CASE Fetch(w) BY <2>5 DEF Fetch, Goto, row, runner, go, side
  <2>6. CASE FetchFails(w) BY <2>6 DEF FetchFails, Leave, Gone, Unregister, row, runner, go, side
  <2>7. CASE Register(w) BY <2>7 DEF Register, Goto, row, runner, go, side
  <2>8. CASE Recheck(w)
    <3>1. CASE dead' = [dead EXCEPT ![w] = dead[w] \/ status[job[w]] = "cancelled"] /\ UNCHANGED blind
      <4>1. pc[w] = "recheck" /\ pc' = [pc EXCEPT ![w] = "handler"] /\ UNCHANGED <<status, on, job, told>>
        BY <2>8 DEF Recheck, Goto, row, runner, go, side
      <4>2. \A v \in Gos : v # w => pc'[v] = pc[v] /\ dead'[v] = dead[v] BY <3>1, <4>1
      <4>3. dead'[w] = (dead[w] \/ status[job[w]] = "cancelled") BY <3>1
      <4>4. ASSUME NEW v \in Gos, pc'[v] \in Beating, v \notin blind', status'[job'[v]] = "cancelled", <<on'[v], job'[v]>> \in told'
            PROVE dead'[v]
        <5>1. CASE v = w BY <4>1, <4>3, <4>4, <5>1, Zenon
        <5>2. CASE v # w BY <3>1, <4>1, <4>2, <4>4, <5>2
        <5> QED BY <5>1, <5>2
      <4> QED BY <4>4
    <3>2. CASE blind' = blind \cup {w} /\ UNCHANGED dead BY <2>8, <3>2 DEF Recheck, Goto, row, runner, go, side
    <3> QED BY <2>8, <3>1, <3>2 DEF Recheck
  <2>9. CASE Batch(w) BY <2>9 DEF Batch, Goto, row, runner, go, side
  <2>10. CASE Checkpoint(w)
    <3>1. CASE SaveCursor(w) /\ Goto(w, "handler") BY <2>10, <3>1 DEF Checkpoint, SaveCursor, Goto, row, runner, go, side
    <3>2. CASE UNCHANGED row /\ Goto(w, "erred") BY <2>10, <3>2 DEF Checkpoint, Goto, row, runner, go, side
    <3> QED BY <2>10, <3>1, <3>2 DEF Checkpoint
  <2>11. CASE StopEarly(w)
    <3>1. CASE SaveCursor(w) BY <2>11, <3>1 DEF StopEarly, SaveCursor, Goto, row, runner, go, side
    <3>2. CASE UNCHANGED row BY <2>11, <3>2 DEF StopEarly, Goto, row, runner, go, side
    <3> QED BY <2>11, <3>1, <3>2 DEF StopEarly
  <2>12. CASE Finish(w) BY <2>12 DEF Finish, Goto, row, runner, go, side
  <2>13. CASE HandlerErrs(w) BY <2>13 DEF HandlerErrs, Goto, row, runner, go, side
  <2>14. CASE HandlerPanics(w) BY <2>14 DEF HandlerPanics, Goto, Unregister, row, runner, go, side
  <2>15. CASE Complete(w) BY <2>15 DEF Complete, Leave, Gone, Unregister, SetRow, row, runner, go, side
  <2>16. CASE ErrCheck(w)
    <3>1. pc[w] = "erred" /\ pc' \in {[pc EXCEPT ![w] = "finalize"], [pc EXCEPT ![w] = "fail"]}
      BY <2>16 DEF ErrCheck, Goto
    <3>2. UNCHANGED <<status, on, job, dead, told, blind>> BY <2>16 DEF ErrCheck, row, runner, go, side
    <3>3. \A v \in Gos : pc'[v] \in Beating => pc[v] \in Beating BY <3>1
    <3> QED BY <3>2, <3>3
  <2>17. CASE Fail(w) BY <2>17 DEF Fail, Leave, Gone, Unregister, SetRow, row, runner, go, side
  <2>18. CASE Refused(w) BY <2>18 DEF Refused, Goto, row, runner, go, side
  <2>19. CASE GivesUp(w) BY <2>19 DEF GivesUp, Leave, Gone, Unregister, row, runner, go, side
  <2>20. CASE Settle(w)
    <3>1. CASE Goto(w, "finalize") /\ UNCHANGED <<runner, on, job, ticket, cur, dead, blind>> BY <2>20, <3>1 DEF Settle, Goto, row, runner, go, side
    <3>2. CASE Leave(w) BY <2>20, <3>2 DEF Settle, Leave, Gone, Unregister, row, runner, go, side
    <3> QED BY <2>20, <3>1, <3>2 DEF Settle
  <2>21. CASE Finalize(w)
    <3>1. CASE SetRow(job[w], "cancelled", cur[w]) BY <2>21, <3>1 DEF Finalize, SetRow, Leave, Gone, Unregister, row, runner, go, side
    <3>2. CASE UNCHANGED row BY <2>21, <3>2 DEF Finalize, Leave, Gone, Unregister, row, runner, go, side
    <3> QED BY <2>21, <3>1, <3>2 DEF Finalize
  <2>22. CASE LookAround(w) BY <2>22 DEF LookAround, Goto, row, runner, go, side
  <2> QED BY <1>2, <2>1, <2>2, <2>3, <2>4, <2>5, <2>6, <2>7, <2>8, <2>9, <2>10, <2>11, <2>12, <2>13, <2>14, <2>15, <2>16, <2>17, <2>18, <2>19, <2>20, <2>21, <2>22 DEF Execute
<1>3. ASSUME NEW w \in Gos, Heartbeat(w) PROVE CancelReaches'
  <2>1. UNCHANGED <<status, pc, on, job, told, blind>> BY <1>3 DEF Heartbeat, side
  <2>2. dead' = dead \/ dead' = [dead EXCEPT ![w] = TRUE] BY <1>3 DEF Heartbeat
  <2>3. dead \in [Gos -> BOOLEAN] BY DEF TypeOK
  <2>4. \A v \in Gos : dead[v] => dead'[v]
    <3> HIDE DEF TypeOK, CancelReaches, Reachable, Placing
    <3> QED BY <2>2, <2>3, Zenon
  <2> QED BY <2>1, <2>4
<1>4. ASSUME NEW r \in Runners, Scan(r) \/ Dispatcher(r) \/ Shutdown(r) \/ Stopped(r) \/ Crash(r) \/ Restart(r) PROVE CancelReaches'
  <2>1. CASE Scan(r) BY <2>1 DEF Scan, row, runner, go, side
  <2>2. CASE Skip(r) BY <2>2 DEF Skip, First, row, runner, go, side
  <2>3. CASE Full(r) BY <2>3 DEF Full, First, row, runner, go, side
  <2>4. CASE Dispatch(r)
    <3>1. PICK j \in JobIds, w \in Gos : First(r, j) /\ Begin(w, r, j, "claim") BY <2>4 DEF Dispatch, Start
    <3> QED BY <2>4, <3>1 DEF Dispatch, Start, Begin, row, runner, go, side
  <2>5. CASE Shutdown(r) BY <2>5 DEF Shutdown, Busy, row, runner, go, side
  <2>6. CASE Stopped(r) BY <2>6 DEF Stopped, row, runner, go, side
  <2>7. CASE Crash(r) BY <2>7 DEF Crash, Gone, Busy, row, runner, go, side
  <2>8. CASE Restart(r) BY <2>8 DEF Restart, row, runner, go, side
  <2> QED BY <1>4, <2>1, <2>2, <2>3, <2>4, <2>5, <2>6, <2>7, <2>8 DEF Dispatcher
<1>5. ASSUME NEW j \in JobIds, CheckInFlight(j) \/ Stamp(j) \/ Lapse(j) PROVE CancelReaches'
  <2>1. CASE CheckInFlight(j) BY <2>1 DEF CheckInFlight, row, runner, go, side
  <2>2. CASE Lapse(j) BY <2>2 DEF Lapse, row, runner, go, side
  <2>3. CASE Stamp(j) BY <2>3 DEF Stamp, row, runner, go, side
  <2> QED BY <1>5, <2>1, <2>2, <2>3
<1>6. ASSUME NEW r \in Runners, NEW j \in JobIds, Enqueue(r, j) \/ Spawn(r, j) \/ Cancel(r, j) \/ CancelLocal(r, j) PROVE CancelReaches'
  <2>1. CASE Enqueue(r, j) BY <2>1 DEF Enqueue, row, runner, go, side
  <2>2. CASE Cancel(r, j) BY <2>2, SMTT(60) DEF Cancel, row, runner, go, side
  <2>3. CASE CancelLocal(r, j) BY <2>3 DEF CancelLocal, row, runner, go, side
  <2>4. CASE Spawn(r, j)
    <3>1. CASE UNCHANGED <<go, blind, up, inflight, jobCancels>> BY <2>4, <3>1 DEF Spawn, row, runner, go, side
    <3>3. entering' = entering \ {<<r, j>>} /\ UNCHANGED <<row, sem, listed, runnerID, slots, born, clock, ahead, cancelling, asked, told, lapsed, shared, starts, trouble>> BY <2>4 DEF Spawn
    <3>2. ASSUME NEW w \in Gos, j \notin inflight[r], Begin(w, r, j, "wait") PROVE CancelReaches'
      BY <3>2, <3>3 DEF Begin, row, runner, go, side
    <3> QED BY <2>4, <3>1, <3>2 DEF Spawn
  <2> QED BY <1>6, <2>1, <2>2, <2>3, <2>4
<1> QED BY <1>1, <1>2, <1>3, <1>4, <1>5, <1>6 DEF Next

\* What a step does to the jobs that have ended: nothing.
EndsStay == \A j \in JobIds : status[j] \in Terminal => status'[j] = status[j]

LEMMA TerminalStep == TypeOK /\ Placing /\ [Next]_vars => EndsStay
<1> SUFFICES ASSUME TypeOK, Placing, [Next]_vars PROVE EndsStay
  OBVIOUS
<1> USE DEF EndsStay
<1> USE JobsAssumption DEF TypeOK, Placing, Placed, Owns, Owned, Named, Claimable, MayClaim, Holding, InFlight, Terminal, Registered
<1>1. CASE UNCHANGED vars BY <1>1 DEF vars, row, runner, go, side
<1>2. ASSUME NEW w \in Gos, Execute(w) PROVE EndsStay
  <2>1. CASE AcquireSlot(w) BY <2>1 DEF AcquireSlot, Goto, row, runner, go, side
  <2>2. CASE Abandon(w) BY <2>2 DEF Abandon, Leave, Gone, Unregister, row, runner, go, side
  <2>3. CASE Claim(w) BY <2>3 DEF Claim, Claiming, Goto, row, runner, go, side
  <2>4. CASE NotClaimed(w) BY <2>4 DEF NotClaimed, Leave, Gone, Unregister, row, runner, go, side
  <2>5. CASE Fetch(w) BY <2>5 DEF Fetch, Goto, row, runner, go, side
  <2>6. CASE FetchFails(w) BY <2>6 DEF FetchFails, Leave, Gone, Unregister, row, runner, go, side
  <2>7. CASE Register(w) BY <2>7 DEF Register, Goto, row, runner, go, side
  <2>8. CASE Recheck(w) BY <2>8 DEF Recheck, Goto, row, runner, go, side
  <2>9. CASE Batch(w) BY <2>9 DEF Batch, Goto, row, runner, go, side
  <2>10. CASE Checkpoint(w)
    <3>1. CASE SaveCursor(w) /\ Goto(w, "handler") BY <2>10, <3>1 DEF Checkpoint, SaveCursor, Goto, row, runner, go, side
    <3>2. CASE UNCHANGED row /\ Goto(w, "erred") BY <2>10, <3>2 DEF Checkpoint, Goto, row, runner, go, side
    <3> QED BY <2>10, <3>1, <3>2 DEF Checkpoint
  <2>11. CASE StopEarly(w)
    <3>1. CASE SaveCursor(w) BY <2>11, <3>1 DEF StopEarly, SaveCursor, Goto, row, runner, go, side
    <3>2. CASE UNCHANGED row BY <2>11, <3>2 DEF StopEarly, Goto, row, runner, go, side
    <3> QED BY <2>11, <3>1, <3>2 DEF StopEarly
  <2>12. CASE Finish(w) BY <2>12 DEF Finish, Goto, row, runner, go, side
  <2>13. CASE HandlerErrs(w) BY <2>13 DEF HandlerErrs, Goto, row, runner, go, side
  <2>14. CASE HandlerPanics(w) BY <2>14 DEF HandlerPanics, Goto, Unregister, row, runner, go, side
  <2>15. CASE Complete(w) BY <2>15 DEF Complete, Leave, Gone, Unregister, SetRow, row, runner, go, side
  <2>16. CASE ErrCheck(w) BY <2>16 DEF ErrCheck, Goto, row, runner, go, side
  <2>17. CASE Fail(w) BY <2>17 DEF Fail, Leave, Gone, Unregister, SetRow, row, runner, go, side
  <2>18. CASE Refused(w) BY <2>18 DEF Refused, Goto, row, runner, go, side
  <2>19. CASE GivesUp(w) BY <2>19 DEF GivesUp, Leave, Gone, Unregister, row, runner, go, side
  <2>20. CASE Settle(w)
    <3>1. CASE Goto(w, "finalize") /\ UNCHANGED <<runner, on, job, ticket, cur, dead, blind>> BY <2>20, <3>1 DEF Settle, Goto, row, runner, go, side
    <3>2. CASE Leave(w) BY <2>20, <3>2 DEF Settle, Leave, Gone, Unregister, row, runner, go, side
    <3> QED BY <2>20, <3>1, <3>2 DEF Settle
  <2>21. CASE Finalize(w)
    <3>1. CASE SetRow(job[w], "cancelled", cur[w]) BY <2>21, <3>1 DEF Finalize, SetRow, Leave, Gone, Unregister, row, runner, go, side
    <3>2. CASE UNCHANGED row BY <2>21, <3>2 DEF Finalize, Leave, Gone, Unregister, row, runner, go, side
    <3> QED BY <2>21, <3>1, <3>2 DEF Finalize
  <2>22. CASE LookAround(w) BY <2>22 DEF LookAround, Goto, row, runner, go, side
  <2> QED BY <1>2, <2>1, <2>2, <2>3, <2>4, <2>5, <2>6, <2>7, <2>8, <2>9, <2>10, <2>11, <2>12, <2>13, <2>14, <2>15, <2>16, <2>17, <2>18, <2>19, <2>20, <2>21, <2>22 DEF Execute
<1>3. ASSUME NEW w \in Gos, Heartbeat(w) PROVE EndsStay
  BY <1>3 DEF Heartbeat, row, runner, go, side
<1>4. ASSUME NEW r \in Runners, Scan(r) \/ Dispatcher(r) \/ Shutdown(r) \/ Stopped(r) \/ Crash(r) \/ Restart(r) PROVE EndsStay
  <2>1. CASE Scan(r) BY <2>1 DEF Scan, row, runner, go, side
  <2>2. CASE Skip(r) BY <2>2 DEF Skip, First, row, runner, go, side
  <2>3. CASE Full(r) BY <2>3 DEF Full, First, row, runner, go, side
  <2>4. CASE Dispatch(r)
    <3>1. PICK j \in JobIds, w \in Gos : First(r, j) /\ Begin(w, r, j, "claim") BY <2>4 DEF Dispatch, Start
    <3> QED BY <2>4, <3>1 DEF Dispatch, Start, Begin, row, runner, go, side
  <2>5. CASE Shutdown(r) BY <2>5 DEF Shutdown, Busy, row, runner, go, side
  <2>6. CASE Stopped(r) BY <2>6 DEF Stopped, row, runner, go, side
  <2>7. CASE Crash(r) BY <2>7 DEF Crash, Gone, Busy, row, runner, go, side
  <2>8. CASE Restart(r) BY <2>8 DEF Restart, row, runner, go, side
  <2> QED BY <1>4, <2>1, <2>2, <2>3, <2>4, <2>5, <2>6, <2>7, <2>8 DEF Dispatcher
<1>5. ASSUME NEW j \in JobIds, CheckInFlight(j) \/ Stamp(j) \/ Lapse(j) PROVE EndsStay
  <2>1. CASE CheckInFlight(j) BY <2>1 DEF CheckInFlight, row, runner, go, side
  <2>2. CASE Lapse(j) BY <2>2 DEF Lapse, row, runner, go, side
  <2>3. CASE Stamp(j) BY <2>3 DEF Stamp, row, runner, go, side
  <2> QED BY <1>5, <2>1, <2>2, <2>3
<1>6. ASSUME NEW r \in Runners, NEW j \in JobIds, Enqueue(r, j) \/ Spawn(r, j) \/ Cancel(r, j) \/ CancelLocal(r, j) PROVE EndsStay
  <2>1. CASE Enqueue(r, j) BY <2>1 DEF Enqueue, row, runner, go, side
  <2>2. CASE Cancel(r, j) BY <2>2 DEF Cancel, row, runner, go, side
  <2>3. CASE CancelLocal(r, j) BY <2>3 DEF CancelLocal, row, runner, go, side
  <2>4. CASE Spawn(r, j)
    <3>1. CASE UNCHANGED <<go, blind, up, inflight, jobCancels>> BY <2>4, <3>1 DEF Spawn, row, runner, go, side
    <3>3. entering' = entering \ {<<r, j>>} /\ UNCHANGED <<row, sem, listed, runnerID, slots, born, clock, ahead, cancelling, asked, told, lapsed, shared, starts, trouble>> BY <2>4 DEF Spawn
    <3>2. ASSUME NEW w \in Gos, j \notin inflight[r], Begin(w, r, j, "wait") PROVE EndsStay
      BY <3>2, <3>3 DEF Begin, row, runner, go, side
    <3> QED BY <2>4, <3>1, <3>2 DEF Spawn
  <2> QED BY <1>6, <2>1, <2>2, <2>3, <2>4
<1> QED BY <1>1, <1>2, <1>3, <1>4, <1>5, <1>6 DEF Next

\* What a step may do to the checkpoints.
CursorsAdvance == \A j \in JobIds \ shared : cursor'[j] >= cursor[j]

LEMMA CursorStep == TypeOK /\ Placing /\ CurAhead /\ [Next]_vars => CursorsAdvance
<1> SUFFICES ASSUME TypeOK, Placing, CurAhead, [Next]_vars PROVE CursorsAdvance
  OBVIOUS
<1> USE DEF CursorsAdvance
<1> USE JobsAssumption DEF TypeOK, Placing, Placed, CurAhead, Fetched, Claimed, Owns, Owned, Named, Holding, InFlight, Terminal, Registered
<1>1. CASE UNCHANGED vars BY <1>1 DEF vars, row, runner, go, side
<1>2. ASSUME NEW w \in Gos, Execute(w) PROVE CursorsAdvance
  <2>1. CASE AcquireSlot(w) BY <2>1 DEF AcquireSlot, Goto, row, runner, go, side
  <2>2. CASE Abandon(w) BY <2>2 DEF Abandon, Leave, Gone, Unregister, row, runner, go, side
  <2>3. CASE Claim(w) BY <2>3 DEF Claim, Claiming, Goto, row, runner, go, side
  <2>4. CASE NotClaimed(w) BY <2>4 DEF NotClaimed, Leave, Gone, Unregister, row, runner, go, side
  <2>5. CASE Fetch(w) BY <2>5 DEF Fetch, Goto, row, runner, go, side
  <2>6. CASE FetchFails(w) BY <2>6 DEF FetchFails, Leave, Gone, Unregister, row, runner, go, side
  <2>7. CASE Register(w) BY <2>7 DEF Register, Goto, row, runner, go, side
  <2>8. CASE Recheck(w) BY <2>8 DEF Recheck, Goto, row, runner, go, side
  <2>9. CASE Batch(w) BY <2>9 DEF Batch, Goto, row, runner, go, side
  <2>10. CASE Checkpoint(w)
    <3>1. CASE SaveCursor(w) /\ Goto(w, "handler") BY <2>10, <3>1, SMTT(60) DEF Checkpoint, SaveCursor, Goto, row, runner, go, side
    <3>2. CASE UNCHANGED row /\ Goto(w, "erred") BY <2>10, <3>2 DEF Checkpoint, Goto, row, runner, go, side
    <3> QED BY <2>10, <3>1, <3>2 DEF Checkpoint
  <2>11. CASE StopEarly(w)
    <3>1. CASE Owns(w) /\ SaveCursor(w)
      <4>1. pc[w] \in Fetched /\ Named(w) BY <2>11, <3>1 DEF StopEarly
      <4> QED BY <4>1, <3>1 DEF SaveCursor
    <3>2. CASE UNCHANGED row BY <2>11, <3>2 DEF StopEarly, Goto, row, runner, go, side
    <3> QED BY <2>11, <3>1, <3>2 DEF StopEarly
  <2>12. CASE Finish(w) BY <2>12 DEF Finish, Goto, row, runner, go, side
  <2>13. CASE HandlerErrs(w) BY <2>13 DEF HandlerErrs, Goto, row, runner, go, side
  <2>14. CASE HandlerPanics(w) BY <2>14 DEF HandlerPanics, Goto, Unregister, row, runner, go, side
  <2>15. CASE Complete(w)
    <3>1. pc[w] \in Fetched /\ Named(w) /\ SetRow(job[w], "completed", cur[w]) BY <2>15 DEF Complete
    <3> QED BY <3>1 DEF SetRow
  <2>16. CASE ErrCheck(w) BY <2>16 DEF ErrCheck, Goto, row, runner, go, side
  <2>17. CASE Fail(w) BY <2>17 DEF Fail, Leave, Gone, Unregister, SetRow, row, runner, go, side
  <2>18. CASE Refused(w) BY <2>18 DEF Refused, Goto, row, runner, go, side
  <2>19. CASE GivesUp(w) BY <2>19 DEF GivesUp, Leave, Gone, Unregister, row, runner, go, side
  <2>20. CASE Settle(w)
    <3>1. CASE Goto(w, "finalize") /\ UNCHANGED <<runner, on, job, ticket, cur, dead, blind>> BY <2>20, <3>1 DEF Settle, Goto, row, runner, go, side
    <3>2. CASE Leave(w) BY <2>20, <3>2 DEF Settle, Leave, Gone, Unregister, row, runner, go, side
    <3> QED BY <2>20, <3>1, <3>2 DEF Settle
  <2>21. CASE Finalize(w)
    <3>1. CASE Owned(w, "cancelled") /\ SetRow(job[w], "cancelled", cur[w])
      <4>1. pc[w] \in Fetched /\ Named(w) BY <2>21, <3>1 DEF Finalize
      <4> QED BY <4>1, <3>1 DEF SetRow
    <3>2. CASE UNCHANGED row BY <2>21, <3>2 DEF row
    <3> QED BY <2>21, <3>1, <3>2 DEF Finalize
  <2>22. CASE LookAround(w) BY <2>22 DEF LookAround, Goto, row, runner, go, side
  <2> QED BY <1>2, <2>1, <2>2, <2>3, <2>4, <2>5, <2>6, <2>7, <2>8, <2>9, <2>10, <2>11, <2>12, <2>13, <2>14, <2>15, <2>16, <2>17, <2>18, <2>19, <2>20, <2>21, <2>22 DEF Execute
<1>3. ASSUME NEW w \in Gos, Heartbeat(w) PROVE CursorsAdvance
  BY <1>3 DEF Heartbeat, row, runner, go, side
<1>4. ASSUME NEW r \in Runners, Scan(r) \/ Dispatcher(r) \/ Shutdown(r) \/ Stopped(r) \/ Crash(r) \/ Restart(r) PROVE CursorsAdvance
  <2>1. CASE Scan(r) BY <2>1 DEF Scan, row, runner, go, side
  <2>2. CASE Skip(r) BY <2>2 DEF Skip, First, row, runner, go, side
  <2>3. CASE Full(r) BY <2>3 DEF Full, First, row, runner, go, side
  <2>4. CASE Dispatch(r)
    <3>1. PICK j \in JobIds, w \in Gos : First(r, j) /\ Begin(w, r, j, "claim") BY <2>4 DEF Dispatch, Start
    <3> QED BY <2>4, <3>1 DEF Dispatch, Start, Begin, row, runner, go, side
  <2>5. CASE Shutdown(r) BY <2>5 DEF Shutdown, Busy, row, runner, go, side
  <2>6. CASE Stopped(r) BY <2>6 DEF Stopped, row, runner, go, side
  <2>7. CASE Crash(r) BY <2>7 DEF Crash, Gone, Busy, row, runner, go, side
  <2>8. CASE Restart(r) BY <2>8 DEF Restart, row, runner, go, side
  <2> QED BY <1>4, <2>1, <2>2, <2>3, <2>4, <2>5, <2>6, <2>7, <2>8 DEF Dispatcher
<1>5. ASSUME NEW j \in JobIds, CheckInFlight(j) \/ Stamp(j) \/ Lapse(j) PROVE CursorsAdvance
  <2>1. CASE CheckInFlight(j) BY <2>1 DEF CheckInFlight, row, runner, go, side
  <2>2. CASE Lapse(j) BY <2>2 DEF Lapse, row, runner, go, side
  <2>3. CASE Stamp(j) BY <2>3 DEF Stamp, row, runner, go, side
  <2> QED BY <1>5, <2>1, <2>2, <2>3
<1>6. ASSUME NEW r \in Runners, NEW j \in JobIds, Enqueue(r, j) \/ Spawn(r, j) \/ Cancel(r, j) \/ CancelLocal(r, j) PROVE CursorsAdvance
  <2>1. CASE Enqueue(r, j) BY <2>1 DEF Enqueue, row, runner, go, side
  <2>2. CASE Cancel(r, j) BY <2>2 DEF Cancel, row, runner, go, side
  <2>3. CASE CancelLocal(r, j) BY <2>3 DEF CancelLocal, row, runner, go, side
  <2>4. CASE Spawn(r, j)
    <3>1. CASE UNCHANGED <<go, blind, up, inflight, jobCancels>> BY <2>4, <3>1 DEF Spawn, row, runner, go, side
    <3>3. entering' = entering \ {<<r, j>>} /\ UNCHANGED <<row, sem, listed, runnerID, slots, born, clock, ahead, cancelling, asked, told, lapsed, shared, starts, trouble>> BY <2>4 DEF Spawn
    <3>2. ASSUME NEW w \in Gos, j \notin inflight[r], Begin(w, r, j, "wait") PROVE CursorsAdvance
      BY <3>2, <3>3 DEF Begin, row, runner, go, side
    <3> QED BY <2>4, <3>1, <3>2 DEF Spawn
  <2> QED BY <1>6, <2>1, <2>2, <2>3, <2>4
<1> QED BY <1>1, <1>2, <1>3, <1>4, <1>5, <1>6 DEF Next

\* The goroutines that claimed j and have not started its handler, and those of them
\* that the row's attempts admitted.
Trying(j)   == {w \in Gos : pc[w] \in {"fetch", "register", "recheck"} /\ job[w] = j}
Admitted(j) == {w \in Gos : pc[w] \in {"register", "recheck"} /\ job[w] = j}

\* Every start is paid for by a claim of its own, and only starts that
\* MaxAttempts leaves room for are admitted.
Counted ==
  /\ starts \in [JobIds -> Nat]
  /\ \A j \in JobIds :
       /\ IsFiniteSet(Trying(j))
       /\ starts[j] + Cardinality(Trying(j)) <= attempts[j]
       /\ starts[j] + Cardinality(Admitted(j)) < MaxAttempts

\* No claim, no start, and nobody new between the two.
Fewer ==
  /\ starts' = starts /\ attempts' = attempts
  /\ \A j \in JobIds : (Trying(j))' \subseteq Trying(j) /\ (Admitted(j))' \subseteq Admitted(j)

Advances == \E w \in Gos : Claim(w) \/ Fetch(w) \/ Recheck(w)

LEMMA FewerStep == TypeOK /\ Placing /\ [Next]_vars => Fewer \/ Advances
<1> SUFFICES ASSUME TypeOK, Placing, [Next]_vars PROVE Fewer \/ Advances
  OBVIOUS
<1> USE JobsAssumption DEF TypeOK, Placing, Placed, Fewer, Trying, Admitted, Holding, InFlight, Terminal, Registered
<1>1. CASE UNCHANGED vars BY <1>1 DEF vars, row, runner, go, side
<1>2. ASSUME NEW w \in Gos, Execute(w) PROVE Fewer \/ Advances
  <2>1. CASE AcquireSlot(w) BY <2>1 DEF AcquireSlot, Goto, row, runner, go, side
  <2>2. CASE Abandon(w) BY <2>2 DEF Abandon, Leave, Gone, Unregister, row, runner, go, side
  <2>3. CASE Claim(w) BY <2>3 DEF Advances
  <2>4. CASE NotClaimed(w) BY <2>4 DEF NotClaimed, Leave, Gone, Unregister, row, runner, go, side
  <2>5. CASE Fetch(w) BY <2>5 DEF Advances
  <2>6. CASE FetchFails(w) BY <2>6 DEF FetchFails, Leave, Gone, Unregister, row, runner, go, side
  <2>7. CASE Register(w) BY <2>7 DEF Register, Goto, row, runner, go, side
  <2>8. CASE Recheck(w) BY <2>8 DEF Advances
  <2>9. CASE Batch(w) BY <2>9 DEF Batch, Goto, row, runner, go, side
  <2>10. CASE Checkpoint(w)
    <3>1. CASE SaveCursor(w) /\ Goto(w, "handler") BY <2>10, <3>1 DEF Checkpoint, SaveCursor, Goto, row, runner, go, side
    <3>2. CASE UNCHANGED row /\ Goto(w, "erred") BY <2>10, <3>2 DEF Checkpoint, Goto, row, runner, go, side
    <3> QED BY <2>10, <3>1, <3>2 DEF Checkpoint
  <2>11. CASE StopEarly(w)
    <3>1. CASE SaveCursor(w) BY <2>11, <3>1 DEF StopEarly, SaveCursor, Goto, row, runner, go, side
    <3>2. CASE UNCHANGED row BY <2>11, <3>2 DEF StopEarly, Goto, row, runner, go, side
    <3> QED BY <2>11, <3>1, <3>2 DEF StopEarly
  <2>12. CASE Finish(w) BY <2>12 DEF Finish, Goto, row, runner, go, side
  <2>13. CASE HandlerErrs(w) BY <2>13 DEF HandlerErrs, Goto, row, runner, go, side
  <2>14. CASE HandlerPanics(w) BY <2>14 DEF HandlerPanics, Goto, Unregister, row, runner, go, side
  <2>15. CASE Complete(w) BY <2>15 DEF Complete, Leave, Gone, Unregister, SetRow, row, runner, go, side
  <2>16. CASE ErrCheck(w) BY <2>16 DEF ErrCheck, Goto, row, runner, go, side
  <2>17. CASE Fail(w) BY <2>17 DEF Fail, Leave, Gone, Unregister, SetRow, row, runner, go, side
  <2>18. CASE Refused(w) BY <2>18 DEF Refused, Goto, row, runner, go, side
  <2>19. CASE GivesUp(w) BY <2>19 DEF GivesUp, Leave, Gone, Unregister, row, runner, go, side
  <2>20. CASE Settle(w)
    <3>1. CASE Goto(w, "finalize") /\ UNCHANGED <<runner, on, job, ticket, cur, dead, blind>> BY <2>20, <3>1 DEF Settle, Goto, row, runner, go, side
    <3>2. CASE Leave(w) BY <2>20, <3>2 DEF Settle, Leave, Gone, Unregister, row, runner, go, side
    <3> QED BY <2>20, <3>1, <3>2 DEF Settle
  <2>21. CASE Finalize(w)
    <3>1. CASE SetRow(job[w], "cancelled", cur[w]) BY <2>21, <3>1 DEF Finalize, SetRow, Leave, Gone, Unregister, row, runner, go, side
    <3>2. CASE UNCHANGED row BY <2>21, <3>2 DEF Finalize, Leave, Gone, Unregister, row, runner, go, side
    <3> QED BY <2>21, <3>1, <3>2 DEF Finalize
  <2>22. CASE LookAround(w) BY <2>22 DEF LookAround, Goto, row, runner, go, side
  <2> QED BY <1>2, <2>1, <2>2, <2>3, <2>4, <2>5, <2>6, <2>7, <2>8, <2>9, <2>10, <2>11, <2>12, <2>13, <2>14, <2>15, <2>16, <2>17, <2>18, <2>19, <2>20, <2>21, <2>22 DEF Execute
<1>3. ASSUME NEW w \in Gos, Heartbeat(w) PROVE Fewer \/ Advances
  BY <1>3 DEF Heartbeat, row, runner, go, side
<1>4. ASSUME NEW r \in Runners, Scan(r) \/ Dispatcher(r) \/ Shutdown(r) \/ Stopped(r) \/ Crash(r) \/ Restart(r) PROVE Fewer \/ Advances
  <2>1. CASE Scan(r) BY <2>1 DEF Scan, row, runner, go, side
  <2>2. CASE Skip(r) BY <2>2 DEF Skip, First, row, runner, go, side
  <2>3. CASE Full(r) BY <2>3 DEF Full, First, row, runner, go, side
  <2>4. CASE Dispatch(r)
    <3>1. PICK j \in JobIds, w \in Gos : First(r, j) /\ Begin(w, r, j, "claim") BY <2>4 DEF Dispatch, Start
    <3> QED BY <2>4, <3>1 DEF Dispatch, Start, Begin, row, runner, go, side
  <2>5. CASE Shutdown(r) BY <2>5 DEF Shutdown, Busy, row, runner, go, side
  <2>6. CASE Stopped(r) BY <2>6 DEF Stopped, row, runner, go, side
  <2>7. CASE Crash(r) BY <2>7 DEF Crash, Gone, Busy, row, runner, go, side
  <2>8. CASE Restart(r) BY <2>8 DEF Restart, row, runner, go, side
  <2> QED BY <1>4, <2>1, <2>2, <2>3, <2>4, <2>5, <2>6, <2>7, <2>8 DEF Dispatcher
<1>5. ASSUME NEW j \in JobIds, CheckInFlight(j) \/ Stamp(j) \/ Lapse(j) PROVE Fewer \/ Advances
  <2>1. CASE CheckInFlight(j) BY <2>1 DEF CheckInFlight, row, runner, go, side
  <2>2. CASE Lapse(j) BY <2>2 DEF Lapse, row, runner, go, side
  <2>3. CASE Stamp(j) BY <2>3 DEF Stamp, row, runner, go, side
  <2> QED BY <1>5, <2>1, <2>2, <2>3
<1>6. ASSUME NEW r \in Runners, NEW j \in JobIds, Enqueue(r, j) \/ Spawn(r, j) \/ Cancel(r, j) \/ CancelLocal(r, j) PROVE Fewer \/ Advances
  <2>1. CASE Enqueue(r, j) BY <2>1 DEF Enqueue, row, runner, go, side
  <2>2. CASE Cancel(r, j) BY <2>2 DEF Cancel, row, runner, go, side
  <2>3. CASE CancelLocal(r, j) BY <2>3 DEF CancelLocal, row, runner, go, side
  <2>4. CASE Spawn(r, j)
    <3>1. CASE UNCHANGED <<go, blind, up, inflight, jobCancels>> BY <2>4, <3>1 DEF Spawn, row, runner, go, side
    <3>3. entering' = entering \ {<<r, j>>} /\ UNCHANGED <<row, sem, listed, runnerID, slots, born, clock, ahead, cancelling, asked, told, lapsed, shared, starts, trouble>> BY <2>4 DEF Spawn
    <3>2. ASSUME NEW w \in Gos, j \notin inflight[r], Begin(w, r, j, "wait") PROVE Fewer \/ Advances
      BY <3>2, <3>3 DEF Begin, row, runner, go, side
    <3> QED BY <2>4, <3>1, <3>2 DEF Spawn
  <2> QED BY <1>6, <2>1, <2>2, <2>3, <2>4
<1> QED BY <1>1, <1>2, <1>3, <1>4, <1>5, <1>6 DEF Next

LEMMA CountedStep == TypeOK /\ Placing /\ Counted /\ [Next]_vars => Counted'
<1> SUFFICES ASSUME TypeOK, Placing, Counted, [Next]_vars PROVE Counted'
  OBVIOUS
<1>0. starts' \in [JobIds -> Nat]
  <2>1. CASE starts' = starts BY <2>1 DEF Counted
  <2>2. ASSUME NEW w \in Gos, Recheck(w) PROVE starts' \in [JobIds -> Nat]
    <3>1. job[w] \in JobIds /\ starts' = [starts EXCEPT ![job[w]] = @ + 1]
      BY <2>2 DEF Recheck, Placing, Placed
    <3> QED BY <3>1 DEF Counted
  <2> QED BY <2>1, <2>2, FewerStep DEF Fewer, Advances, Claim, Fetch
<1> SUFFICES ASSUME NEW j \in JobIds
             PROVE /\ starts'[j] \in Nat /\ IsFiniteSet(Trying(j)')
                   /\ starts'[j] + Cardinality(Trying(j)') <= attempts'[j]
                   /\ starts'[j] + Cardinality(Admitted(j)') < MaxAttempts
  BY <1>0 DEF Counted
<1> DEFINE T == Trying(j)   A == Admitted(j)
<1>1. /\ starts[j] \in Nat /\ attempts[j] \in Nat /\ MaxAttempts \in Nat /\ IsFiniteSet(T)
      /\ starts[j] + Cardinality(T) <= attempts[j] /\ starts[j] + Cardinality(A) < MaxAttempts
  BY JobsAssumption DEF Counted, TypeOK
<1>2. A \in SUBSET T BY DEF Trying, Admitted
<1>3. IsFiniteSet(A) /\ Cardinality(A) \in Nat /\ Cardinality(T) \in Nat /\ Cardinality(A) <= Cardinality(T)
  BY <1>1, <1>2, FS_Subset, FS_CardinalityType
<1>4. CASE Fewer
  <2>1. T' \in SUBSET T /\ A' \in SUBSET A BY <1>4 DEF Fewer
  <2>2. IsFiniteSet(T') /\ Cardinality(T') <= Cardinality(T) /\ Cardinality(A') <= Cardinality(A)
    BY <1>1, <1>3, <2>1, FS_Subset
  <2>3. IsFiniteSet(A') BY <1>3, <2>1, FS_Subset
  <2>4. Cardinality(T') \in Nat /\ Cardinality(A') \in Nat BY <2>2, <2>3, FS_CardinalityType
  <2>5. starts'[j] = starts[j] /\ attempts'[j] = attempts[j] BY <1>4 DEF Fewer
  <2> HIDE DEF T, A
  <2>6. /\ starts'[j] \in Nat /\ IsFiniteSet(T')
        /\ starts'[j] + Cardinality(T') <= attempts'[j] /\ starts'[j] + Cardinality(A') < MaxAttempts
    BY <1>1, <1>3, <2>2, <2>4, <2>5
  <2> QED BY <2>6 DEF T, A
<1>5. ASSUME NEW w \in Gos, Claim(w) \/ Fetch(w) \/ Recheck(w)
      PROVE /\ starts'[j] \in Nat /\ IsFiniteSet(T')
            /\ starts'[j] + Cardinality(T') <= attempts'[j] /\ starts'[j] + Cardinality(A') < MaxAttempts
  <2>1. job[w] \in JobIds /\ job' = job BY <1>5 DEF Claim, Claiming, Fetch, Recheck, Placing, Placed, runner
  <2>2. CASE Claim(w)
    <3>1. starts' = starts /\ attempts' = [attempts EXCEPT ![job[w]] = @ + 1] BY <2>2 DEF Claim
    <3>2. A' = A BY <2>1, <2>2 DEF Claim, Claiming, Goto, Admitted, TypeOK
    <3>3. CASE job[w] = j
      <4>1. T' = T \cup {w} /\ w \notin T BY <2>1, <2>2, <3>3 DEF Claim, Claiming, Goto, Trying, TypeOK
      <4>2. IsFiniteSet(T') /\ Cardinality(T') = Cardinality(T) + 1 BY <1>1, <4>1, FS_AddElement
      <4>3. attempts'[j] = attempts[j] + 1 BY <3>1, <3>3 DEF TypeOK
      <4> HIDE DEF T, A
      <4> QED BY <1>1, <1>3, <3>1, <3>2, <4>2, <4>3
    <3>4. CASE job[w] # j
      <4>1. T' = T BY <2>1, <2>2, <3>4 DEF Claim, Claiming, Goto, Trying, TypeOK
      <4>2. attempts'[j] = attempts[j] BY <3>1, <3>4 DEF TypeOK
      <4> HIDE DEF T, A
      <4> QED BY <1>1, <1>3, <3>1, <3>2, <4>1, <4>2
    <3> QED BY <3>3, <3>4
  <2>3. CASE Fetch(w)
    <3>1. starts' = starts /\ attempts' = attempts BY <2>3 DEF Fetch, row
    <3>2. CASE Exhausted(attempts[job[w]])
      <4>1. Goto(w, "exhaust") BY <2>3, <3>2 DEF Fetch
      <4>2. T' \in SUBSET T /\ A' = A BY <2>1, <2>3, <4>1 DEF Fetch, Goto, Trying, Admitted, TypeOK
      <4>3. IsFiniteSet(T') /\ Cardinality(T') <= Cardinality(T) BY <1>1, <4>2, FS_Subset
      <4>4. Cardinality(T') \in Nat BY <4>3, FS_CardinalityType
      <4> HIDE DEF T, A
      <4> QED BY <1>1, <1>3, <3>1, <4>2, <4>3, <4>4
    <3>3. CASE ~Exhausted(attempts[job[w]])
      <4>1. Goto(w, "register") BY <2>3, <3>3 DEF Fetch
      <4>2. T' = T BY <2>1, <2>3, <4>1 DEF Fetch, Goto, Trying, TypeOK
      <4>3. CASE job[w] # j
        <5>1. A' = A BY <2>1, <2>3, <4>1, <4>3 DEF Fetch, Goto, Admitted, TypeOK
        <5> HIDE DEF T, A
        <5> QED BY <1>1, <1>3, <3>1, <4>2, <5>1
      <4>4. CASE job[w] = j
        <5>1. A' = A \cup {w} /\ A' \in SUBSET T BY <2>1, <2>3, <4>1, <4>4 DEF Fetch, Goto, Admitted, Trying, TypeOK
        <5>2. Cardinality(A') <= Cardinality(T) /\ IsFiniteSet(A') BY <1>1, <5>1, FS_Subset
        <5>3. Cardinality(A') \in Nat BY <5>2, FS_CardinalityType
        <5>4. attempts[j] < MaxAttempts BY <1>1, <3>3, <4>4 DEF Exhausted
        <5> HIDE DEF T, A
        <5> QED BY <1>1, <1>3, <3>1, <4>2, <5>2, <5>3, <5>4
      <4> QED BY <4>3, <4>4
    <3> QED BY <3>2, <3>3
  <2>4. CASE Recheck(w)
    <3>1. starts' = [starts EXCEPT ![job[w]] = @ + 1] /\ attempts' = attempts /\ Goto(w, "handler")
      BY <2>4 DEF Recheck, row
    <3>2. CASE job[w] = j
      <4>1. T' = T \ {w} /\ A' = A \ {w} /\ w \in T /\ w \in A
        BY <2>1, <2>4, <3>1, <3>2 DEF Recheck, Goto, Trying, Admitted, TypeOK
      <4>2. IsFiniteSet(T') /\ Cardinality(T') = Cardinality(T) - 1 /\ Cardinality(A') = Cardinality(A) - 1
        BY <1>1, <1>3, <4>1, FS_RemoveElement, ZenonT(60)
      <4>3. starts'[j] = starts[j] + 1 BY <3>1, <3>2 DEF Counted
      <4> HIDE DEF T, A
      <4> QED BY <1>1, <1>3, <3>1, <4>2, <4>3
    <3>3. CASE job[w] # j
      <4>1. T' = T /\ A' = A BY <2>1, <2>4, <3>1, <3>3 DEF Recheck, Goto, Trying, Admitted, TypeOK
      <4>2. starts'[j] = starts[j] BY <3>1, <3>3
      <4> HIDE DEF T, A
      <4> QED BY <1>1, <1>3, <3>1, <4>1, <4>2
    <3> QED BY <3>2, <3>3
  <2> QED BY <1>5, <2>2, <2>3, <2>4
<1> QED BY <1>4, <1>5, FewerStep DEF Advances

LEMMA CountedInit == Init => Counted
<1> SUFFICES ASSUME Init, NEW j \in JobIds
             PROVE /\ IsFiniteSet(Trying(j))
                   /\ starts[j] + Cardinality(Trying(j)) <= attempts[j]
                   /\ starts[j] + Cardinality(Admitted(j)) < MaxAttempts
  BY DEF Counted, Init
<1>1. Trying(j) = {} /\ Admitted(j) = {} BY DEF Init, Trying, Admitted
<1>2. IsFiniteSet({}) /\ Cardinality({}) = 0 BY FS_EmptySet
<1> QED BY <1>1, <1>2, JobsAssumption DEF Init

LEMMA CountedBounds == Counted /\ TypeOK => PoisonBounded
<1> SUFFICES ASSUME Counted, TypeOK, NEW j \in JobIds PROVE starts[j] < MaxAttempts
  BY DEF PoisonBounded
<1>1. Admitted(j) \in SUBSET Trying(j) BY DEF Trying, Admitted
<1>2. IsFiniteSet(Admitted(j)) BY <1>1, FS_Subset DEF Counted
<1>3. Cardinality(Admitted(j)) \in Nat BY <1>2, FS_CardinalityType
<1> QED BY <1>3, JobsAssumption DEF Counted

IInv ==
  /\ TypeOK /\ Placing /\ Begun /\ Tickets /\ FenceExact /\ CurAhead /\ StaleLapsed /\ Looked
  /\ StartedInOrder /\ OverlapOnlyAfterLapse /\ Reachable /\ CancelReaches /\ Counted

LEMMA IInvInit == Init => IInv
<1> SUFFICES ASSUME Init PROVE IInv
  OBVIOUS
<1> USE JobsAssumption DEF Init
<1>1. TypeOK BY DEF TypeOK, InFlight, Terminal
<1>2. Placing /\ Begun BY DEF Placing, Placed, OnePerJob, Begun
<1>3. Tickets /\ FenceExact /\ CurAhead BY DEF Tickets, FenceExact, CurAhead, Fetched, Claimed, Holding
<1>4. StartedInOrder /\ StaleLapsed /\ Looked /\ OverlapOnlyAfterLapse
  BY DEF StartedInOrder, StaleLapsed, Looked, OverlapOnlyAfterLapse
<1>5. Reachable /\ CancelReaches BY DEF Reachable, CancelReaches, Beating, Registered
<1> QED BY <1>1, <1>2, <1>3, <1>4, <1>5, CountedInit DEF IInv

LEMMA IInvStep == IInv /\ [Next]_vars => IInv'
  BY TypesStep, PlacingStep, BegunStep, TicketsStep, LookedStep, FenceStep, CurStep, OrderStep, StaleStep, OverlapStep,
     ReachStep, CancelStep, CountedStep DEF IInv, Placing

LEMMA IInvAlways == Spec => []IInv
  BY IInvInit, IInvStep, PTL DEF Spec

\* The sidekiq rows, the runners and their goroutines keep their types.
THEOREM JobTypes == Spec => []TypeOK
<1>1. IInv => TypeOK BY DEF IInv
<1> QED BY <1>1, IInvAlways, PTL

\* sidekiq.go execute with the store's runner_id fences, for any number of runners, jobs
\* and goroutines and any runner_ids: a goroutine whose runner_id is in the row made the
\* row's latest claim, unless the job was taken over from a process at work that has the
\* same runner_id.
THEOREM FenceIsExact == Spec => []FenceExact
<1>1. IInv => FenceExact BY DEF IInv
<1> QED BY <1>1, IInvAlways, PTL

\* sidekiq.New with a node id per process, as its doc asks of a cluster: the fences of
\* configstore/sidekiq.go let nobody but the latest claimant write.
THEOREM NodeIdsFence ==
  Spec => []((\A r, s \in Runners : runnerID[r] = runnerID[s] => r = s)
             => \A w \in Gos : pc[w] \in Claimed /\ Named(w) => ticket[w] = attempts[job[w]])
<1>1. IInv => ((\A r, s \in Runners : runnerID[r] = runnerID[s] => r = s)
               => \A w \in Gos : pc[w] \in Claimed /\ Named(w) => ticket[w] = attempts[job[w]])
  BY DEF IInv, FenceExact
<1> QED BY <1>1, IInvAlways, PTL

\* ClaimPartitionedSidekiqJob: the jobs of a key whose rows appeared in the order of
\* their created_at are first claimed in that order, whatever runners compete for them
\* and although a claim reads the other rows before it writes its own.
THEOREM KeysStartInOrder == Spec => []StartedInOrder
<1>1. IInv => StartedInOrder BY DEF IInv
<1> QED BY <1>1, IInvAlways, PTL

\* ClaimPartitionedSidekiqJob: two jobs of a key whose rows appeared in the order of
\* their created_at run together only when the heartbeat of one of them has lapsed.
THEOREM OverlapNeedsLapse == Spec => []OverlapOnlyAfterLapse
<1>1. IInv => OverlapOnlyAfterLapse BY DEF IInv
<1> QED BY <1>1, IInvAlways, PTL

\* Runner.Cancel against execute: the registration, the row's re-read and cancelLocal
\* together miss no cancellation on the job's own runner.
THEOREM CancelIsHeard == Spec => []CancelReaches
<1>1. IInv => CancelReaches BY DEF IInv
<1> QED BY <1>1, IInvAlways, PTL

\* The store's conditional UPDATEs: no status is ever written over a terminal one.
THEOREM TerminalForGood == Spec => TerminalIsFinal
<1>1. IInv /\ [Next]_vars => [\A j \in JobIds : status[j] \in Terminal => status'[j] = status[j]]_vars
  BY TerminalStep DEF IInv, EndsStay
<1> QED BY <1>1, IInvAlways, PTL DEF Spec, TerminalIsFinal

\* Checkpoints: what is stored for a job only moves forward, across takeovers, retries
\* and the late snapshot of a cancelled run, unless the job was taken over from a process
\* at work that has the same runner_id.
THEOREM CursorForward == Spec => CursorNeverBack
<1>1. IInv /\ [Next]_vars => [\A j \in JobIds \ shared : cursor'[j] >= cursor[j]]_vars
  BY CursorStep DEF IInv, CursorsAdvance
<1> QED BY <1>1, IInvAlways, PTL DEF Spec, CursorNeverBack

\* execute's check of the row's attempts against MaxAttempts: whatever crashes, lapses
\* and takeovers come between, a job's handler is started less than MaxAttempts times.
THEOREM PoisonIsBounded == Spec => []PoisonBounded
<1>1. IInv => PoisonBounded BY CountedBounds DEF IInv
<1> QED BY <1>1, IInvAlways, PTL
====
