----------------------- MODULE ProviderLifecycleProofs -----------------------
(***************************************************************************)
(* Proofs about the lifecycle of a provider's queues: which generations    *)
(* have workers, who waits for them and who sweeps their queues, when      *)
(* updates, removals, creations on demand and Shutdown interleave.         *)
(***************************************************************************)
EXTENDS ProviderQueueProofs

USE ConstantsAssumption

(***************************************************************************)
(* The workers of a generation.                                            *)
(***************************************************************************)
Born(g) == \E w \in Workers : wst[<<g, w>>] # "unborn"
Live(g) == \E w \in Workers : wst[<<g, w>>] \in {"idle", "busy", "draining"}

\* prepareProvider has published a queue and is building its Provider.
Preparing ==
  \/ \E r \in Requests : pc[r] = "prepare"
  \/ \E a \in Admins : apc[a] \in {"uprepare", "gprepare"}

LEMMA LiveAlive == \A g : (Alive(g) # {} <=> Live(g)) /\ (Live(g) => Born(g))
BY DEF Alive, Live, Born

LEMMA SameWorkers ==
  ASSUME UNCHANGED wst
  PROVE  \A g : (Born(g)' <=> Born(g)) /\ (Live(g)' <=> Live(g))
BY DEF Born, Live

\* A worker moves on: none is born, none comes back to life.
LEMMA MovedWorker ==
  ASSUME TypeOK, NEW g \in Gens, NEW w \in Workers, NEW to,
         wst' = [wst EXCEPT ![<<g, w>>] = to], to # "unborn", wst[<<g, w>>] # "unborn",
         to \in {"idle", "busy", "draining"} => wst[<<g, w>>] \in {"idle", "busy", "draining"}
  PROVE  \A h \in Gens : (Born(h)' <=> Born(h)) /\ (Live(h)' => Live(h))
<1>1. wst \in [Gens \X Workers -> WorkerStates] BY DEF TypeOK, TypeWork
<1>2. \A h \in Gens, v \in Workers : wst'[<<h, v>>] = IF <<h, v>> = <<g, w>> THEN to ELSE wst[<<h, v>>]
  BY <1>1
<1>3. \A h \in Gens : Born(h)' <=> Born(h) BY <1>2 DEF Born
<1>4. \A h \in Gens : Live(h)' => Live(h) BY <1>2 DEF Live
<1> QED BY <1>3, <1>4

\* The workers of generation h are started.
LEMMA StartedWorkers ==
  ASSUME TypeOK, NEW h \in Gens, StartWorkers(h)
  PROVE  \A g \in Gens : g # h => (Born(g)' <=> Born(g)) /\ (Live(g)' <=> Live(g))
<1>1. wst \in [Gens \X Workers -> WorkerStates] BY DEF TypeOK, TypeWork
<1>2. \A g \in Gens, v \in Workers : g # h => wst'[<<g, v>>] = wst[<<g, v>>]
  BY <1>1 DEF StartWorkers
<1> QED BY <1>2 DEF Born, Live

(***************************************************************************)
(* Who waits for the workers of a generation.                              *)
(***************************************************************************)
\* Only generations that were created have workers.
BornBounded == \A g \in Gens : Born(g) => g <= ngen

\* The workers of a generation that is no longer published are waited for, by
\* its cleanup goroutine or by the UpdateProvider that is replacing it.
Retiring ==
  \A g \in Gens : Live(g) /\ g # requestQueues =>
    \/ cleanup[g] = "waiting"
    \/ \E a \in Admins : apc[a] \in ReplacePcs /\ old[a] = g

\* A published queue whose workers were started has its Provider listed, so
\* getProviderByKey does not create another one over it.
Instanced == \A g \in Gens : g = requestQueues /\ Born(g) => g \in instances

\* RemoveProvider has waited for the workers it drains after.
RemovalWaited == \A a \in Admins : apc[a] \in {"rdrain", "rretired"} => ~Live(old[a])

\* Workers are started once.
PreparedOnce == \A g \in Gens : Preparing /\ g = requestQueues => ~Born(g)

Stopped == requestQueues = 0 => \A g \in Gens : ~Live(g)

WorkInv == BornBounded /\ Retiring /\ Instanced /\ RemovalWaited /\ PreparedOnce /\ Stopped

\* A step that publishes nothing and starts no worker, and ends no wait for
\* workers before they are gone.
Steady ==
  /\ UNCHANGED <<requestQueues, ngen, instances>>
  /\ \A g \in Gens : (Born(g)' <=> Born(g)) /\ (Live(g)' => Live(g))
  /\ \A g \in Gens : cleanup[g] = "waiting" => cleanup'[g] = "waiting" \/ ~Live(g)
  /\ \A a \in Admins : apc[a] \in ReplacePcs =>
       \/ apc'[a] \in ReplacePcs /\ old'[a] = old[a]
       \/ cleanup'[old[a]] = "waiting"
  /\ \A a \in Admins : apc'[a] \in {"rdrain", "rretired"} => old'[a] \in Gens /\ ~Live(old'[a])
  /\ Preparing' => Preparing

LEMMA SteadyWork == ASSUME TypeOK, WorkInv, Steady PROVE WorkInv'
<1>1. BornBounded' BY DEF WorkInv, BornBounded, Steady
<1>2. Retiring' BY DEF WorkInv, Retiring, Steady
<1>3. Instanced' BY DEF WorkInv, Instanced, Steady
<1>4. RemovalWaited' BY DEF RemovalWaited, Steady
<1>5. PreparedOnce' BY DEF WorkInv, PreparedOnce, Steady
<1>6. Stopped' BY DEF WorkInv, Stopped, Steady
<1> QED BY <1>1, <1>2, <1>3, <1>4, <1>5, <1>6 DEF WorkInv

(***************************************************************************)
(* The steps that leave the lifecycle of the queues alone: those of the    *)
(* callers, but for the creation of a queue, of the workers and of the     *)
(* drain loops.                                                            *)
(***************************************************************************)
lifeVars == <<requestQueues, ngen, instances, cleanup, closing, swept, shutVars, apc, old>>

Calm ==
  /\ UNCHANGED lifeVars
  /\ \A g \in Gens : (Born(g)' <=> Born(g)) /\ (Live(g)' => Live(g))
  /\ Preparing' => Preparing

\* A caller creates the queue, or starts its workers.
CallerPublishes(r) == CreateProviderQueue(r) /\ PublishQueue /\ lock' = r
CallerStarts(r) == PrepareForRequest(r) /\ PrepareOK

\* The other steps.
LifeStep ==
  \/ \E r \in Requests : CallerPublishes(r) \/ CallerStarts(r)
  \/ \E g \in Gens : CleanupWait(g) \/ CleanupFinish(g)
  \/ \E a \in Admins :
       \/ AdminBegin(a)
       \/ UpdatePrepare(a) \/ UpdateConstructFails(a) \/ UpdatePublish(a)
       \/ TransferTake(a) \/ TransferPut(a) \/ TransferFull(a) \/ TransferDone(a)
       \/ RetireOld(a) \/ PrepareForAdmin(a)
       \/ RemoveWait(a) \/ RemoveDrained(a) \/ RemoveFinish(a)
  \/ ShutdownBegin \/ ShutdownSignal \/ ShutdownRange \/ ShutdownWait
  \/ ShutdownCleanups \/ ShutdownFinish

\* A step of a caller that does not enter prepareProvider.
LEMMA CallerCalm ==
  ASSUME TypeOK, NEW r \in Requests, NEW l, pc' = [pc EXCEPT ![r] = l], l # "prepare",
         UNCHANGED <<lifeVars, wst>>
  PROVE  Calm
<1>1. pc \in [Requests -> ReqPcs] BY DEF TypeOK, TypeReq
<1>2. Preparing' => Preparing BY <1>1 DEF Preparing, lifeVars
<1> QED BY <1>2, SameWorkers DEF Calm

\* Every step is calm or one of the others.
LEMMA CalmOrLife == ASSUME TypeOK, [Next]_vars PROVE Calm \/ LifeStep
<1> SUFFICES ASSUME ~LifeStep PROVE Calm OBVIOUS
<1> USE DEF lifeVars, genVars, workVars, admVars, shutVars, histVars
<1>0. ASSUME UNCHANGED <<pc, wst, lifeVars>> PROVE Calm
  BY <1>0, SameWorkers DEF Calm, Preparing
<1>1. CASE UNCHANGED vars BY <1>1, <1>0 DEF vars, reqVars
<1>2. ASSUME NEW r \in Requests, Cancel(r) PROVE Calm BY <1>2, <1>0 DEF Cancel
<1>3. ASSUME NEW r \in Requests, GetProviderQueue(r) PROVE Calm
  <2>1. \E l : l # "prepare" /\ pc' = [pc EXCEPT ![r] = l]
    BY <1>3 DEF GetProviderQueue, Goto
  <2>2. UNCHANGED <<lifeVars, wst>> BY <1>3 DEF GetProviderQueue, Goto
  <2> QED BY <2>1, <2>2, CallerCalm
<1>4. ASSUME NEW r \in Requests, ShortCircuit(r) PROVE Calm
  <2>1. \E l : l # "prepare" /\ pc' = [pc EXCEPT ![r] = l]
    BY <1>4 DEF ShortCircuit, Return, Goto
  <2>2. UNCHANGED <<lifeVars, wst>> BY <1>4 DEF ShortCircuit, Return, Goto
  <2> QED BY <2>1, <2>2, CallerCalm
<1>5. ASSUME NEW r \in Requests, GetChannelMessage(r) PROVE Calm
  <2>1. \E l : l # "prepare" /\ pc' = [pc EXCEPT ![r] = l]
    BY <1>5 DEF GetChannelMessage, Goto
  <2>2. UNCHANGED <<lifeVars, wst>> BY <1>5 DEF GetChannelMessage, Goto
  <2> QED BY <2>1, <2>2, CallerCalm
<1>6. ASSUME NEW r \in Requests, Reroute(r) PROVE Calm
  <2>1. \E l : l # "prepare" /\ pc' = [pc EXCEPT ![r] = l]
    BY <1>6 DEF Reroute, Goto
  <2>2. UNCHANGED <<lifeVars, wst>> BY <1>6 DEF Reroute, Goto
  <2> QED BY <2>1, <2>2, CallerCalm
<1>7. ASSUME NEW r \in Requests, NoReroute(r) PROVE Calm
  <2>1. \E l : l # "prepare" /\ pc' = [pc EXCEPT ![r] = l]
    BY <1>7 DEF NoReroute, Fail, Return, Goto
  <2>2. UNCHANGED <<lifeVars, wst>> BY <1>7 DEF NoReroute, Fail, Return, Goto
  <2> QED BY <2>1, <2>2, CallerCalm
<1>8. ASSUME NEW r \in Requests, CheckCandidate(r) PROVE Calm
  <2>1. \E l : l # "prepare" /\ pc' = [pc EXCEPT ![r] = l]
    BY <1>8 DEF CheckCandidate, Fail, Return, Goto
  <2>2. UNCHANGED <<lifeVars, wst>> BY <1>8 DEF CheckCandidate, Fail, Return, Goto
  <2> QED BY <2>1, <2>2, CallerCalm
<1>9. ASSUME NEW r \in Requests, Enqueue(r) PROVE Calm
  <2>1. \E l : l # "prepare" /\ pc' = [pc EXCEPT ![r] = l]
    BY <1>9 DEF Enqueue, Goto
  <2>2. UNCHANGED <<lifeVars, wst>> BY <1>9 DEF Enqueue, Goto
  <2> QED BY <2>1, <2>2, CallerCalm
<1>10. ASSUME NEW r \in Requests, SeeDone(r) PROVE Calm
  <2>1. \E l : l # "prepare" /\ pc' = [pc EXCEPT ![r] = l]
    BY <1>10 DEF SeeDone, Fail, Return, Goto
  <2>2. UNCHANGED <<lifeVars, wst>> BY <1>10 DEF SeeDone, Fail, Return, Goto
  <2> QED BY <2>1, <2>2, CallerCalm
<1>11. ASSUME NEW r \in Requests, GiveUpSend(r) PROVE Calm
  <2>1. \E l : l # "prepare" /\ pc' = [pc EXCEPT ![r] = l]
    BY <1>11 DEF GiveUpSend, Fail, Return, Goto
  <2>2. UNCHANGED <<lifeVars, wst>> BY <1>11 DEF GiveUpSend, Fail, Return, Goto
  <2> QED BY <2>1, <2>2, CallerCalm
<1>12. ASSUME NEW r \in Requests, QueueFull(r) PROVE Calm
  <2>1. \E l : l # "prepare" /\ pc' = [pc EXCEPT ![r] = l]
    BY <1>12 DEF QueueFull, Fail, Return, Goto
  <2>2. UNCHANGED <<lifeVars, wst>> BY <1>12 DEF QueueFull, Fail, Return, Goto
  <2> QED BY <2>1, <2>2, CallerCalm
<1>13. ASSUME NEW r \in Requests, Recheck(r) PROVE Calm
  <2>1. \E l : l # "prepare" /\ pc' = [pc EXCEPT ![r] = l]
    BY <1>13 DEF Recheck, Fail, Return, Goto
  <2>2. UNCHANGED <<lifeVars, wst>> BY <1>13 DEF Recheck, Fail, Return, Goto
  <2> QED BY <2>1, <2>2, CallerCalm
<1>14. ASSUME NEW r \in Requests, Receive(r) PROVE Calm
  <2>1. \E l : l # "prepare" /\ pc' = [pc EXCEPT ![r] = l]
    BY <1>14 DEF Receive, Return, Goto
  <2>2. UNCHANGED <<lifeVars, wst>> BY <1>14 DEF Receive, Return, Goto
  <2> QED BY <2>1, <2>2, CallerCalm
<1>15. ASSUME NEW r \in Requests, LeaveOnCtx(r) PROVE Calm
  <2>1. \E l : l # "prepare" /\ pc' = [pc EXCEPT ![r] = l]
    BY <1>15 DEF LeaveOnCtx, Return, Goto
  <2>2. UNCHANGED <<lifeVars, wst>> BY <1>15 DEF LeaveOnCtx, Return, Goto
  <2> QED BY <2>1, <2>2, CallerCalm
<1>16. ASSUME NEW r \in Requests, CreateProviderQueue(r) PROVE Calm
  <2>1. ~CallerPublishes(r) BY DEF LifeStep
  <2>2. \E l : l # "prepare" /\ pc' = [pc EXCEPT ![r] = l]
    BY <1>16, <2>1 DEF CreateProviderQueue, CallerPublishes, Goto, Return
  <2>3. UNCHANGED <<lifeVars, wst>> BY <1>16, <2>1 DEF CreateProviderQueue, CallerPublishes
  <2> QED BY <2>2, <2>3, CallerCalm
<1>17. ASSUME NEW r \in Requests, PrepareForRequest(r) PROVE Calm
  <2>1. ~CallerStarts(r) BY DEF LifeStep
  <2>2. \E l : l # "prepare" /\ pc' = [pc EXCEPT ![r] = l]
    BY <1>17, <2>1 DEF PrepareForRequest, CallerStarts, Goto, Return
  <2>3. UNCHANGED <<lifeVars, wst>> BY <1>17, <2>1 DEF PrepareForRequest, CallerStarts
  <2> QED BY <2>2, <2>3, CallerCalm
<1>18. ASSUME NEW g \in Gens, NEW w \in Workers, WorkerTake(g, w) PROVE Calm
  <2>1. wst[<<g, w>>] = "idle" /\ wst' = [wst EXCEPT ![<<g, w>>] = "busy"] BY <1>18 DEF WorkerTake
  <2>2. \A h \in Gens : (Born(h)' <=> Born(h)) /\ (Live(h)' => Live(h)) BY <2>1, MovedWorker
  <2> QED BY <1>18, <2>2 DEF WorkerTake, Calm, Preparing, reqVars
<1>19. ASSUME NEW g \in Gens, NEW w \in Workers, KeyError(g, w) PROVE Calm
  <2>1. wst[<<g, w>>] = "busy" /\ wst' = [wst EXCEPT ![<<g, w>>] = "idle"] BY <1>19 DEF KeyError, WorkerIdle
  <2>2. \A h \in Gens : (Born(h)' <=> Born(h)) /\ (Live(h)' => Live(h)) BY <2>1, MovedWorker
  <2> QED BY <1>19, <2>2 DEF KeyError, WorkerIdle, Calm, Preparing, reqVars
<1>20. ASSUME NEW g \in Gens, NEW w \in Workers, Deliver(g, w) PROVE Calm
  <2>1. wst[<<g, w>>] = "busy" /\ wst' = [wst EXCEPT ![<<g, w>>] = "idle"] BY <1>20 DEF Deliver, WorkerIdle
  <2>2. \A h \in Gens : (Born(h)' <=> Born(h)) /\ (Live(h)' => Live(h)) BY <2>1, MovedWorker
  <2> QED BY <1>20, <2>2 DEF Deliver, WorkerIdle, Calm, Preparing, reqVars
<1>21. ASSUME NEW g \in Gens, NEW w \in Workers, Abandon(g, w) PROVE Calm
  <2>1. wst[<<g, w>>] = "busy" /\ wst' = [wst EXCEPT ![<<g, w>>] = "idle"] BY <1>21 DEF Abandon, WorkerIdle
  <2>2. \A h \in Gens : (Born(h)' <=> Born(h)) /\ (Live(h)' => Live(h)) BY <2>1, MovedWorker
  <2> QED BY <1>21, <2>2 DEF Abandon, WorkerIdle, Calm, Preparing, reqVars
<1>22. ASSUME NEW g \in Gens, NEW w \in Workers, WorkerSeesDone(g, w) PROVE Calm
  <2>1. wst[<<g, w>>] = "idle" /\ wst' = [wst EXCEPT ![<<g, w>>] = "draining"] BY <1>22 DEF WorkerSeesDone
  <2>2. \A h \in Gens : (Born(h)' <=> Born(h)) /\ (Live(h)' => Live(h)) BY <2>1, MovedWorker
  <2> QED BY <1>22, <2>2 DEF WorkerSeesDone, Calm, Preparing, reqVars
<1>23. ASSUME NEW g \in Gens, NEW w \in Workers, WorkerExit(g, w) PROVE Calm
  <2>1. wst[<<g, w>>] = "draining" /\ wst' = [wst EXCEPT ![<<g, w>>] = "exited"] BY <1>23 DEF WorkerExit
  <2>2. \A h \in Gens : (Born(h)' <=> Born(h)) /\ (Live(h)' => Live(h)) BY <2>1, MovedWorker
  <2> QED BY <1>23, <2>2 DEF WorkerExit, Calm, Preparing, reqVars
<1>24. ASSUME NEW g \in Gens, NEW w \in Workers, WorkerDrain(g, w) PROVE Calm
  BY <1>24, <1>0 DEF WorkerDrain, DrainOne, reqVars
<1>25. ASSUME NEW g \in Gens, CleanupDrain(g) PROVE Calm BY <1>25, <1>0 DEF CleanupDrain, DrainOne, reqVars
<1>26. ASSUME NEW a \in Admins, CancelRest(a) PROVE Calm BY <1>26, <1>0 DEF CancelRest, DrainOne, reqVars
<1>27. ASSUME NEW a \in Admins, RemoveDrain(a) PROVE Calm BY <1>27, <1>0 DEF RemoveDrain, DrainOne, reqVars
<1>28. CASE ShutdownDrain BY <1>28, <1>0 DEF ShutdownDrain, DrainOne, reqVars
<1>29. CASE Quiescent BY <1>29, <1>0 DEF Quiescent, vars, reqVars
<1> QED
  BY <1>1, <1>2, <1>3, <1>4, <1>5, <1>6, <1>7, <1>8, <1>9, <1>10, <1>11, <1>12, <1>13, <1>14,
     <1>15, <1>16, <1>17, <1>18, <1>19, <1>20, <1>21, <1>22, <1>23, <1>24, <1>25, <1>26, <1>27,
     <1>28, <1>29 DEF Next, RequestStep, WorkerStep, CleanupStep, AdminStep, UpdateStep,
     RemoveStep, ShutdownStep, LifeStep

(***************************************************************************)
(* The workers.                                                            *)
(***************************************************************************)
\* prepareProvider publishes a queue where none is served.
LEMMA PublishWork ==
  ASSUME TypeOK, LockInv, WorkInv, PublishQueue, UNCHANGED <<wst, cleanup>>,
         lock = NoActor, requestQueues = 0 \/ instances = {},
         \A a \in Admins : apc'[a] # apc[a] => apc'[a] \in {"uprepare", "gprepare"}
  PROVE  WorkInv'
<1>1. /\ ngen' = ngen + 1 /\ requestQueues' = ngen + 1 /\ ngen \in Nat
      /\ instances' = instances /\ Gens \subseteq Nat
  BY DEF PublishQueue, TypeOK, TypeGen, Gens
<1>2. \A g : (Born(g)' <=> Born(g)) /\ (Live(g)' <=> Live(g)) BY SameWorkers
<1>3. \A g \in Gens : g = ngen + 1 => ~Born(g) BY <1>1 DEF WorkInv, BornBounded
<1>4. BornBounded' BY <1>1, <1>2 DEF WorkInv, BornBounded
<1>5. \A g \in Gens : Live(g) => g # requestQueues
  BY LiveAlive DEF WorkInv, Instanced, Gens
<1>6. \A a \in Admins : apc[a] \notin LockPcs BY DEF LockInv, TypeOK, TypeLock
<1>7. Retiring'
  BY <1>1, <1>2, <1>5, <1>6 DEF WorkInv, Retiring, LockPcs, ReplacePcs, UpdatePcs
<1>8. Instanced' BY <1>1, <1>2, <1>3 DEF Instanced
<1>9. RemovalWaited' BY <1>6 DEF RemovalWaited, LockPcs, RemovePcs
<1>10. PreparedOnce' BY <1>1, <1>2, <1>3 DEF PreparedOnce
<1>11. Stopped' BY <1>1 DEF Stopped
<1> QED BY <1>4, <1>7, <1>8, <1>9, <1>10, <1>11 DEF WorkInv

\* prepareProvider starts the workers of the queue it published.
LEMMA StartWork ==
  ASSUME TypeOK, LockInv, WorkInv, PrepareOK, lock # NoActor, ~Preparing',
         \A a \in Admins : apc'[a] \in ReplacePcs \cup {"rdrain", "rretired"} <=>
                           apc[a] \in ReplacePcs \cup {"rdrain", "rretired"},
         \A a \in Admins : apc[a] \notin ReplacePcs \cup RemovePcs
  PROVE  WorkInv'
<1>1. /\ requestQueues \in Gens /\ requestQueues <= ngen
      /\ UNCHANGED <<requestQueues, ngen, cleanup>> /\ instances' = instances \cup {requestQueues}
      /\ StartWorkers(requestQueues)
  BY DEF PrepareOK, LockInv, TypeOK, TypeGen, Gens
<1>2. \A g \in Gens : g # requestQueues => (Born(g)' <=> Born(g)) /\ (Live(g)' <=> Live(g))
  BY <1>1, StartedWorkers
<1>3. BornBounded' BY <1>1, <1>2 DEF WorkInv, BornBounded
<1>4. Retiring' BY <1>1, <1>2 DEF WorkInv, Retiring
<1>5. Instanced' BY <1>1 DEF Instanced
<1>6. RemovalWaited' BY DEF RemovalWaited, RemovePcs
<1>7. PreparedOnce' BY DEF PreparedOnce
<1>8. Stopped' BY <1>1 DEF Stopped, Gens
<1> QED BY <1>3, <1>4, <1>5, <1>6, <1>7, <1>8 DEF WorkInv

\* UpdateProvider replaces the queue.
LEMMA ReplaceWork ==
  ASSUME TypeOK, LockInv, WorkInv, NEW a \in Admins, UpdatePublish(a)
  PROVE  WorkInv'
<1>1. /\ ngen' = ngen + 1 /\ requestQueues' = ngen + 1 /\ ngen + 1 \in Gens /\ ngen \in Nat
      /\ instances' = {ngen + 1} /\ UNCHANGED cleanup /\ Gens \subseteq Nat
      /\ StartWorkers(ngen + 1) /\ requestQueues # ngen + 1
  BY DEF UpdatePublish, TypeOK, TypeGen, Gens
<1>2. \A g \in Gens : g # ngen + 1 => (Born(g)' <=> Born(g)) /\ (Live(g)' <=> Live(g))
  BY <1>1, StartedWorkers
<1>3. apc' = [apc EXCEPT ![a] = "transfer"] /\ old' = [old EXCEPT ![a] = requestQueues]
  BY DEF UpdatePublish, AGoto
<1>4. apc'[a] = "transfer" /\ old'[a] = requestQueues
  BY <1>3 DEF TypeOK, TypeAdm
<1>5. \A b \in Admins : apc[b] \notin LockPcs
  BY DEF UpdatePublish, LockInv, TypeOK, TypeLock
<1>6. \A b \in Admins : apc'[b] \in LockPcs => b = a
  BY <1>3, <1>5 DEF TypeOK, TypeAdm
<1>7. BornBounded' BY <1>1, <1>2 DEF WorkInv, BornBounded
<1>8. Retiring'
  <2> SUFFICES ASSUME NEW g \in Gens, Live(g)', g # ngen + 1
               PROVE  cleanup'[g] = "waiting" \/ \E b \in Admins : apc'[b] \in ReplacePcs /\ old'[b] = g
    BY <1>1 DEF Retiring
  <2>1. Live(g) BY <1>2
  <2>2. CASE g = requestQueues BY <2>2, <1>4 DEF ReplacePcs
  <2>3. CASE g # requestQueues
    BY <2>1, <2>3, <1>1, <1>5 DEF WorkInv, Retiring, LockPcs, ReplacePcs, UpdatePcs
  <2> QED BY <2>2, <2>3
<1>9. Instanced' BY <1>1 DEF Instanced
<1>10. RemovalWaited' BY <1>4, <1>6 DEF RemovalWaited, LockPcs, RemovePcs
<1>11. ~Preparing'
  <2>1. \A b \in Admins : apc'[b] \notin {"uprepare", "gprepare"}
    BY <1>4, <1>6 DEF LockPcs, UpdatePcs
  <2>2. UNCHANGED pc /\ \A r \in Requests : pc[r] # "prepare"
    BY DEF UpdatePublish, LockInv, reqVars
  <2> QED BY <2>1, <2>2 DEF Preparing
<1>12. PreparedOnce' BY <1>11 DEF PreparedOnce
<1>13. Stopped' BY <1>1 DEF Stopped
<1> QED BY <1>7, <1>8, <1>9, <1>10, <1>12, <1>13 DEF WorkInv

\* RemoveProvider unpublishes a queue whose workers, and those of every
\* generation before it, are gone.
LEMMA RemoveWork ==
  ASSUME TypeOK, LockInv, WorkInv, NEW a \in Admins, RemoveFinish(a)
  PROVE  WorkInv'
<1>1. /\ requestQueues' = 0 /\ CleanupPending = {} /\ apc[a] = "rretired"
      /\ apc' = [apc EXCEPT ![a] = "done"]
      /\ UNCHANGED <<wst, cleanup, ngen, pc, old>> /\ lock = a
  BY DEF RemoveFinish, AGoto, LockInv, LockPcs, RemovePcs, workVars, reqVars
<1>2. \A g : (Born(g)' <=> Born(g)) /\ (Live(g)' <=> Live(g)) BY <1>1, SameWorkers
<1>3. \A b \in Admins : apc[b] \in LockPcs => b = a BY <1>1 DEF LockInv
<1>4. \A b \in Admins : apc'[b] \notin LockPcs
  BY <1>1, <1>3 DEF TypeOK, TypeAdm, LockPcs, UpdatePcs, RemovePcs
<1>5. \A g \in Gens : ~Live(g)
  <2> SUFFICES ASSUME NEW g \in Gens, Live(g) PROVE FALSE OBVIOUS
  <2>1. old[a] = requestQueues /\ ~Live(old[a])
    BY <1>1 DEF LockInv, RemovePcs, WorkInv, RemovalWaited
  <2>2. cleanup[g] # "waiting" BY <1>1 DEF CleanupPending
  <2>3. \A b \in Admins : apc[b] \notin ReplacePcs
    BY <1>1, <1>3 DEF ReplacePcs, LockPcs, UpdatePcs
  <2> QED BY <2>1, <2>2, <2>3 DEF WorkInv, Retiring
<1>6. BornBounded' BY <1>1, <1>2 DEF WorkInv, BornBounded
<1>7. Retiring' /\ Stopped' BY <1>2, <1>5 DEF Retiring, Stopped
<1>8. Instanced' /\ PreparedOnce' BY <1>1 DEF Instanced, PreparedOnce, Gens
<1>9. RemovalWaited' BY <1>4 DEF RemovalWaited, LockPcs, RemovePcs
<1> QED BY <1>6, <1>7, <1>8, <1>9 DEF WorkInv

\* A step of one lifecycle call that publishes nothing, starts no worker and,
\* unless it hands its old queue to a cleanup goroutine, goes on with it.
LEMMA AdminSteady ==
  ASSUME TypeOK, LockInv, WorkInv, NEW a \in Admins, NEW l \in AdmPcs,
         apc' = [apc EXCEPT ![a] = l], l \notin {"uprepare", "gprepare"},
         UNCHANGED <<wst, requestQueues, ngen, instances, pc>>,
         \A b \in Admins : old'[b] = old[b] \/ b = a,
         \A g \in Gens : cleanup'[g] = cleanup[g] \/ cleanup'[g] = "waiting",
         apc[a] \in ReplacePcs =>
           (l \in ReplacePcs /\ old'[a] = old[a]) \/ cleanup'[old[a]] = "waiting",
         l \in {"rdrain", "rretired"} => old'[a] \in Gens /\ ~Live(old'[a])
  PROVE  WorkInv'
<1>1. \A b \in Admins : apc'[b] = IF b = a THEN l ELSE apc[b] BY DEF TypeOK, TypeAdm
<1>2. \A g \in Gens : (Born(g)' <=> Born(g)) /\ (Live(g)' => Live(g)) BY SameWorkers
<1>3. Preparing' => Preparing BY <1>1 DEF Preparing
<1>4. \A b \in Admins : apc[b] \in ReplacePcs =>
        \/ apc'[b] \in ReplacePcs /\ old'[b] = old[b]
        \/ cleanup'[old[b]] = "waiting"
  BY <1>1
<1>5. \A b \in Admins : apc'[b] \in {"rdrain", "rretired"} => old'[b] \in Gens /\ ~Live(old'[b])
  <2> SUFFICES ASSUME NEW b \in Admins, b # a, apc[b] \in {"rdrain", "rretired"}
               PROVE  old[b] \in Gens /\ ~Live(old[b])
    BY <1>1
  <2>1. old[b] \in 1..ngen BY DEF LockInv, RemovePcs
  <2>2. ngen \in 0..MaxGen BY DEF TypeOK, TypeGen
  <2> QED BY <2>1, <2>2 DEF WorkInv, RemovalWaited, Gens
<1> QED BY <1>1, <1>2, <1>3, <1>4, <1>5, SteadyWork DEF Steady

\* Steps of Shutdown and of the cleanup goroutines.
LEMMA OthersSteady ==
  ASSUME TypeOK, LockInv, WorkInv,
         UNCHANGED <<wst, requestQueues, ngen, instances, pc, apc, old>>,
         \A g \in Gens : cleanup[g] = "waiting" => cleanup'[g] = "waiting" \/ ~Live(g)
  PROVE  WorkInv'
<1>1. \A g \in Gens : (Born(g)' <=> Born(g)) /\ (Live(g)' => Live(g)) BY SameWorkers
<1>2. Preparing' => Preparing BY DEF Preparing
<1>3. \A b \in Admins : apc[b] \in {"rdrain", "rretired"} => old[b] \in Gens /\ ~Live(old[b])
  <2> SUFFICES ASSUME NEW b \in Admins, apc[b] \in {"rdrain", "rretired"}
               PROVE  old[b] \in Gens /\ ~Live(old[b])
    OBVIOUS
  <2>1. old[b] \in 1..ngen BY DEF LockInv, RemovePcs
  <2>2. ngen \in 0..MaxGen BY DEF TypeOK, TypeGen
  <2> QED BY <2>1, <2>2 DEF WorkInv, RemovalWaited, Gens
<1> QED BY <1>1, <1>2, <1>3, SteadyWork DEF Steady

LEMMA WorkStep == ASSUME TypeOK, LockInv, WorkInv, [Next]_vars PROVE WorkInv'
<1> USE DEF genVars, workVars, admVars, shutVars, histVars, reqVars
<1>rem. \A b \in Admins : apc[b] \in {"rdrain", "rretired"} => old[b] \in Gens /\ ~Live(old[b])
  <2> SUFFICES ASSUME NEW b \in Admins, apc[b] \in {"rdrain", "rretired"}
               PROVE  old[b] \in Gens /\ ~Live(old[b])
    OBVIOUS
  <2>1. old[b] \in 1..ngen BY DEF LockInv, RemovePcs
  <2>2. ngen \in 0..MaxGen BY DEF TypeOK, TypeGen
  <2> QED BY <2>1, <2>2 DEF WorkInv, RemovalWaited, Gens
<1>1. CASE Calm BY <1>1, <1>rem, SteadyWork DEF Calm, Steady, lifeVars
<1>2. ASSUME NEW r \in Requests, CallerPublishes(r) PROVE WorkInv'
  <2>1. requestQueues = 0 /\ lock = NoActor /\ UNCHANGED <<wst, cleanup, apc>> /\ PublishQueue
    BY <1>2 DEF CallerPublishes, CreateProviderQueue
  <2> QED BY <2>1, PublishWork
<1>3. ASSUME NEW r \in Requests, CallerStarts(r) PROVE WorkInv'
  <2>1. pc[r] = "prepare" /\ PrepareOK /\ UNCHANGED apc /\ pc' = [pc EXCEPT ![r] = pc'[r]]
        /\ pc'[r] # "prepare"
    BY <1>3 DEF CallerStarts, PrepareForRequest, Goto, Return, TypeOK, TypeReq
  <2>2. lock = r BY <2>1 DEF LockInv
  <2>3. \A a \in Admins : apc[a] \notin LockPcs BY <2>2 DEF LockInv
  <2>4. ~Preparing' BY <2>1, <2>2, <2>3 DEF Preparing, LockInv, LockPcs, UpdatePcs, TypeOK, TypeReq
  <2> QED BY <2>1, <2>2, <2>3, <2>4, StartWork DEF LockPcs, UpdatePcs, RemovePcs, ReplacePcs
<1>4. ASSUME NEW g \in Gens, CleanupWait(g) PROVE WorkInv'
  BY <1>4, LiveAlive, OthersSteady DEF CleanupWait, TypeOK, TypeWork
<1>5. ASSUME NEW g \in Gens, CleanupFinish(g) PROVE WorkInv'
  BY <1>5, OthersSteady DEF CleanupFinish, TypeOK, TypeWork
<1>6. ASSUME NEW a \in Admins, UpdateBegin(a) PROVE WorkInv'
  <2>1. PICK l \in {"ulock", "done"} : apc' = [apc EXCEPT ![a] = l] BY <1>6 DEF UpdateBegin, AGoto
  <2>2. /\ apc[a] = "idle" /\ UNCHANGED <<wst, requestQueues, ngen, instances, pc, old, cleanup>>
        /\ l \in AdmPcs
    BY <1>6 DEF UpdateBegin, AdmPcs, UpdatePcs
  <2> QED BY <2>1, <2>2, AdminSteady DEF ReplacePcs
<1>7. ASSUME NEW a \in Admins, GetProviderByKey(a) PROVE WorkInv'
  <2>1. CASE PublishQueue /\ instances = {} /\ lock = NoActor /\ AGoto(a, "gprepare")
    <3>1. \A b \in Admins : apc'[b] # apc[b] => apc'[b] \in {"uprepare", "gprepare"}
      BY <2>1 DEF AGoto, TypeOK, TypeAdm
    <3> QED BY <1>7, <2>1, <3>1, PublishWork DEF GetProviderByKey
  <2>2. CASE AGoto(a, "done") /\ UNCHANGED <<genVars, lock>>
    <3>1. /\ apc' = [apc EXCEPT ![a] = "done"] /\ apc[a] = "idle" /\ "done" \in AdmPcs
          /\ UNCHANGED <<wst, requestQueues, ngen, instances, pc, old, cleanup>>
      BY <1>7, <2>2 DEF GetProviderByKey, AGoto, AdmPcs
    <3> QED BY <3>1, AdminSteady DEF ReplacePcs
  <2> QED BY <1>7, <2>1, <2>2 DEF GetProviderByKey
<1>8. ASSUME NEW a \in Admins, RemoveBegin(a) PROVE WorkInv'
  <2>1. PICK l \in {"done", "rwait"} : apc' = [apc EXCEPT ![a] = l]
    BY <1>8 DEF RemoveBegin, AGoto
  <2>2. \A b \in Admins : old'[b] = old[b] \/ b = a
    BY <1>8 DEF RemoveBegin, TypeOK, TypeAdm
  <2>3. /\ apc[a] = "idle" /\ UNCHANGED <<wst, requestQueues, ngen, instances, pc, cleanup>>
        /\ l \in AdmPcs
    BY <1>8 DEF RemoveBegin, AdmPcs, RemovePcs
  <2> QED BY <2>1, <2>2, <2>3, AdminSteady DEF ReplacePcs
<1>9. ASSUME NEW a \in Admins, UpdatePrepare(a) PROVE WorkInv'
  <2>1. \A b \in Admins : apc'[b] # apc[b] => apc'[b] \in {"uprepare", "gprepare"}
    BY <1>9 DEF UpdatePrepare, AGoto, TypeOK, TypeAdm
  <2> QED BY <1>9, <2>1, PublishWork DEF UpdatePrepare
<1>10. ASSUME NEW a \in Admins, UpdateConstructFails(a) PROVE WorkInv'
  <2>a. /\ apc' = [apc EXCEPT ![a] = "done"] /\ UNCHANGED <<wst, requestQueues, ngen, instances, pc, old>>
        /\ apc[a] = "ulock" /\ "done" \in AdmPcs /\ UNCHANGED cleanup
    BY <1>10 DEF UpdateConstructFails, AGoto, AdmPcs, UpdatePcs, RemovePcs
  <2> QED BY <2>a, AdminSteady DEF ReplacePcs
<1>11. ASSUME NEW a \in Admins, UpdatePublish(a) PROVE WorkInv' BY <1>11, ReplaceWork
<1>12. ASSUME NEW a \in Admins, TransferTake(a) PROVE WorkInv'
  <2>a. /\ apc' = [apc EXCEPT ![a] = "put"] /\ UNCHANGED <<wst, requestQueues, ngen, instances, pc, old>>
        /\ apc[a] = "transfer" /\ "put" \in AdmPcs /\ UNCHANGED cleanup
    BY <1>12 DEF TransferTake, AGoto, AdmPcs, UpdatePcs, RemovePcs
  <2> QED BY <2>a, AdminSteady DEF ReplacePcs
<1>13. ASSUME NEW a \in Admins, TransferPut(a) PROVE WorkInv'
  <2>a. /\ apc' = [apc EXCEPT ![a] = "transfer"] /\ UNCHANGED <<wst, requestQueues, ngen, instances, pc, old>>
        /\ apc[a] = "put" /\ "transfer" \in AdmPcs /\ UNCHANGED cleanup
    BY <1>13 DEF TransferPut, AGoto, AdmPcs, UpdatePcs, RemovePcs
  <2> QED BY <2>a, AdminSteady DEF ReplacePcs
<1>14. ASSUME NEW a \in Admins, TransferFull(a) PROVE WorkInv'
  <2>a. /\ apc' = [apc EXCEPT ![a] = "cancel"] /\ UNCHANGED <<wst, requestQueues, ngen, instances, pc, old>>
        /\ apc[a] = "put" /\ "cancel" \in AdmPcs /\ UNCHANGED cleanup
    BY <1>14 DEF TransferFull, AGoto, AdmPcs, UpdatePcs, RemovePcs
  <2> QED BY <2>a, AdminSteady DEF ReplacePcs
<1>15. ASSUME NEW a \in Admins, TransferDone(a) PROVE WorkInv'
  <2>a. /\ apc' = [apc EXCEPT ![a] = "retire"] /\ UNCHANGED <<wst, requestQueues, ngen, instances, pc, old>>
        /\ apc[a] \in {"transfer", "cancel"} /\ "retire" \in AdmPcs /\ UNCHANGED cleanup
    BY <1>15 DEF TransferDone, AGoto, AdmPcs, UpdatePcs, RemovePcs
  <2> QED BY <2>a, AdminSteady DEF ReplacePcs
<1>16. ASSUME NEW a \in Admins, RetireOld(a) PROVE WorkInv'
  <2>1. old[a] \in Gens
    BY <1>16 DEF RetireOld, LockInv, ReplacePcs, TypeOK, TypeGen, Gens
  <2>2. \A g \in Gens : cleanup'[g] = IF g = old[a] THEN "waiting" ELSE cleanup[g]
    BY <1>16 DEF RetireOld, TypeOK, TypeWork
  <2>a. /\ apc' = [apc EXCEPT ![a] = "done"] /\ UNCHANGED <<wst, requestQueues, ngen, instances, pc, old>>
        /\ apc[a] = "retire" /\ "done" \in AdmPcs /\ TRUE
    BY <1>16 DEF RetireOld, AGoto, AdmPcs, UpdatePcs, RemovePcs
  <2> QED BY <2>1, <2>2, <2>a, AdminSteady DEF ReplacePcs
<1>17. ASSUME NEW a \in Admins, PrepareForAdmin(a) PROVE WorkInv'
  <2>1. lock = a /\ apc[a] \in {"uprepare", "gprepare"} /\ apc' = [apc EXCEPT ![a] = "done"]
        /\ UNCHANGED <<pc, old>>
    BY <1>17 DEF PrepareForAdmin, AGoto, LockInv, LockPcs, UpdatePcs
  <2>2. CASE PrepareOK
    <3>1. \A b \in Admins : apc[b] \in LockPcs => b = a BY <2>1 DEF LockInv
    <3>2. \A r \in Requests : pc[r] # "prepare" BY <2>1 DEF LockInv
    <3>3. \A b \in Admins : apc'[b] = IF b = a THEN "done" ELSE apc[b] BY <2>1 DEF TypeOK, TypeAdm
    <3>4. ~Preparing' BY <2>1, <3>1, <3>2, <3>3 DEF Preparing, LockPcs, UpdatePcs
    <3>5. \A b \in Admins : apc[b] \notin ReplacePcs \cup RemovePcs
      BY <2>1, <3>1 DEF LockPcs, UpdatePcs, RemovePcs, ReplacePcs
    <3> QED BY <2>1, <2>2, <3>3, <3>4, <3>5, StartWork DEF ReplacePcs, RemovePcs
  <2>3. CASE UNCHANGED <<genVars, workVars>>
    <3>1. "done" \in AdmPcs BY DEF AdmPcs
    <3> QED BY <2>1, <2>3, <3>1, AdminSteady DEF ReplacePcs
  <2> QED BY <1>17, <2>2, <2>3 DEF PrepareForAdmin
<1>18. ASSUME NEW a \in Admins, RemoveWait(a) PROVE WorkInv'
  <2>1. old[a] \in Gens
    BY <1>18 DEF RemoveWait, LockInv, RemovePcs, TypeOK, TypeGen, Gens
  <2>a. /\ apc' = [apc EXCEPT ![a] = "rdrain"] /\ UNCHANGED <<wst, requestQueues, ngen, instances, pc, old>>
        /\ apc[a] = "rwait" /\ Alive(old[a]) = {} /\ "rdrain" \in AdmPcs /\ UNCHANGED cleanup
    BY <1>18 DEF RemoveWait, AGoto, AdmPcs, UpdatePcs, RemovePcs
  <2> QED BY <2>1, LiveAlive, <2>a, AdminSteady DEF ReplacePcs
<1>19. ASSUME NEW a \in Admins, RemoveDrained(a) PROVE WorkInv'
  <2>a. /\ apc' = [apc EXCEPT ![a] = "rretired"] /\ UNCHANGED <<wst, requestQueues, ngen, instances, pc, old>>
        /\ apc[a] = "rdrain" /\ "rretired" \in AdmPcs /\ UNCHANGED cleanup
    BY <1>19 DEF RemoveDrained, AGoto, AdmPcs, UpdatePcs, RemovePcs
  <2> QED BY <1>rem, <2>a, AdminSteady DEF ReplacePcs
<1>20. ASSUME NEW a \in Admins, RemoveFinish(a) PROVE WorkInv' BY <1>20, RemoveWork
<1>21. CASE ShutdownBegin BY <1>21, OthersSteady DEF ShutdownBegin
<1>22. CASE ShutdownSignal BY <1>22, OthersSteady DEF ShutdownSignal
<1>23. CASE ShutdownRange BY <1>23, OthersSteady DEF ShutdownRange
<1>24. CASE ShutdownWait BY <1>24, OthersSteady DEF ShutdownWait
<1>25. CASE ShutdownCleanups BY <1>25, OthersSteady DEF ShutdownCleanups
<1>26. CASE ShutdownFinish BY <1>26, OthersSteady DEF ShutdownFinish
<1> QED
  BY <1>1, <1>2, <1>3, <1>4, <1>5, <1>6, <1>7, <1>8, <1>9, <1>10, <1>11, <1>12, <1>13, <1>14,
     <1>15, <1>16, <1>17, <1>18, <1>19, <1>20, <1>21, <1>22, <1>23, <1>24, <1>25, <1>26,
     CalmOrLife DEF LifeStep, AdminBegin

LEMMA WorkInit == Init => WorkInv
<1> SUFFICES ASSUME NEW how \in Startup, InitState(how) PROVE WorkInv BY DEF Init
<1>1. \A g \in Gens, w \in Workers :
        wst[<<g, w>>] = IF how = "ready" /\ g = 1 THEN "idle" ELSE "unborn"
  BY DEF InitState
<1>2. \A g \in Gens : Born(g) \/ Live(g) => g = 1 /\ how = "ready" BY <1>1 DEF Born, Live
<1>3. how = "ready" => requestQueues = 1 /\ ngen = 1 /\ instances = {1} BY DEF InitState
<1>4. \A a \in Admins : apc[a] = "idle" BY DEF InitState
<1>5. ~Preparing BY DEF InitState, Preparing
<1>6. BornBounded /\ Retiring /\ Instanced /\ PreparedOnce /\ Stopped
  BY <1>2, <1>3, <1>5 DEF BornBounded, Retiring, Instanced, PreparedOnce, Stopped
<1>7. RemovalWaited BY <1>4 DEF RemovalWaited
<1> QED BY <1>6, <1>7 DEF WorkInv

\* The workers of every generation that ever ran are waited for, whatever
\* updates, removals, creations on demand and Shutdown interleave.
THEOREM WorkersWaitedFor == Spec => []WorkInv
<1>1. Init => WorkInv BY WorkInit
<1>2. IndInv /\ WorkInv /\ [Next]_vars => WorkInv'
  BY WorkStep DEF IndInv
<1> QED BY <1>1, <1>2, Invariance, PTL DEF Spec

\* Once RemoveProvider has unpublished the provider, no worker of any of its
\* generations is left running.
THEOREM RemovalStopsWorkers == Spec => []RemovedMeansStopped
<1>1. WorkInv => RemovedMeansStopped BY LiveAlive DEF WorkInv, Stopped, RemovedMeansStopped
<1> QED BY <1>1, WorkersWaitedFor, PTL

(***************************************************************************)
(* Shutdown.                                                               *)
(***************************************************************************)
\* providerLifecycleMu keeps UpdateProvider out while Shutdown runs.
NoUpdates == spc # "idle" => \A a \in Admins : apc[a] \notin UpdatePcs

\* What was running when Shutdown began was created before.
Counted == sgen <= ngen /\ \A g \in atShutdown : g <= ngen /\ Born(g)

\* Shutdown waits for what was running: for the published generation first,
\* then, through the cleanup goroutines, for the retired ones.
Waits ==
  \A g \in atShutdown :
    /\ spc = "wait" /\ g = requestQueues => sgen = g
    /\ spc = "cleanups" /\ g = requestQueues => ~Live(g)
    /\ spc \in {"drain", "done"} => ~Live(g)

ShutInv == NoUpdates /\ Counted /\ Waits

\* A step of somebody else.
LEMMA ShutSteady ==
  ASSUME TypeOK, ShutInv, UNCHANGED shutVars, ngen' \in Nat, ngen' >= ngen,
         \A g \in atShutdown : (Born(g) => Born(g)') /\ (Live(g)' => Live(g)),
         \A g \in atShutdown : g = requestQueues' => g = requestQueues,
         \A a \in Admins : spc # "idle" /\ apc'[a] \in UpdatePcs => apc[a] \in UpdatePcs
  PROVE  ShutInv'
<1>1. atShutdown \subseteq Gens /\ ngen \in Nat /\ Gens \subseteq Nat /\ sgen \in Nat
  BY DEF TypeOK, TypeShut, TypeGen, Gens
<1>2. NoUpdates' BY DEF ShutInv, NoUpdates, shutVars
<1>3. Counted' BY <1>1 DEF ShutInv, Counted, shutVars
<1>4. Waits' BY DEF ShutInv, Waits, shutVars
<1> QED BY <1>2, <1>3, <1>4 DEF ShutInv

\* A step of a lifecycle call that leaves the queues and their workers alone.
LEMMA ShutAdmin ==
  ASSUME TypeOK, ShutInv, NEW a \in Admins, NEW l \in AdmPcs, apc' = [apc EXCEPT ![a] = l],
         l \in UpdatePcs => apc[a] \in UpdatePcs \/ spc = "idle",
         UNCHANGED <<shutVars, ngen, requestQueues, wst>>
  PROVE  ShutInv'
<1>1. \A b \in Admins : spc # "idle" /\ apc'[b] \in UpdatePcs => apc[b] \in UpdatePcs
  BY DEF TypeOK, TypeAdm
<1>2. ngen' \in Nat /\ ngen' >= ngen BY DEF TypeOK, TypeGen
<1> QED BY <1>1, <1>2, SameWorkers, ShutSteady

\* A queue is published while Shutdown may be running.
LEMMA ShutPublish ==
  ASSUME TypeOK, ShutInv, PublishQueue, UNCHANGED <<shutVars, wst>>,
         \A a \in Admins : spc # "idle" /\ apc'[a] \in UpdatePcs => apc[a] \in UpdatePcs
  PROVE  ShutInv'
<1>1. ngen \in Nat /\ ngen' = ngen + 1 /\ requestQueues' = ngen + 1
  BY DEF PublishQueue, TypeOK, TypeGen
<1>2. \A g \in atShutdown : g \in Nat /\ g <= ngen
  BY DEF ShutInv, Counted, TypeOK, TypeShut, Gens
<1>3. \A g \in atShutdown : g = requestQueues' => g = requestQueues
  BY <1>1, <1>2
<1> QED BY <1>1, <1>3, SameWorkers, ShutSteady

\* Workers are started while Shutdown may be running: none that it counted.
LEMMA ShutStart ==
  ASSUME TypeOK, LockInv, WorkInv, ShutInv, PrepareOK, Preparing, UNCHANGED shutVars,
         \A a \in Admins : spc # "idle" /\ apc'[a] \in UpdatePcs => apc[a] \in UpdatePcs
  PROVE  ShutInv'
<1>1. requestQueues \in Gens
  BY DEF Preparing, LockInv, LockPcs, UpdatePcs, TypeOK, TypeGen, Gens
<1>2. ~Born(requestQueues) BY <1>1 DEF WorkInv, PreparedOnce
<1>3. \A g \in atShutdown : g \in Gens /\ g # requestQueues
  BY <1>2 DEF ShutInv, Counted, TypeOK, TypeShut
<1>4. \A g \in atShutdown : (Born(g) => Born(g)') /\ (Live(g)' => Live(g))
  BY <1>1, <1>3, StartedWorkers DEF PrepareOK
<1>5. ngen' \in Nat /\ ngen' >= ngen /\ requestQueues' = requestQueues
  BY DEF PrepareOK, TypeOK, TypeGen
<1> QED BY <1>4, <1>5, ShutSteady

LEMMA ShutStep == ASSUME TypeOK, LockInv, WorkInv, ShutInv, [Next]_vars PROVE ShutInv'
<1> USE DEF genVars, workVars, admVars, shutVars, histVars, reqVars
<1>nat. ngen \in Nat /\ ngen >= ngen BY DEF TypeOK, TypeGen
<1>pcs. AdmPcs = {"idle", "gprepare", "done", "ulock", "uprepare", "transfer", "put", "cancel",
                  "retire", "rwait", "rdrain", "rretired"}
  BY DEF AdmPcs, UpdatePcs, RemovePcs
<1>1. CASE Calm
  <2>1. atShutdown \subseteq Gens BY DEF TypeOK, TypeShut
  <2> QED BY <1>1, <1>nat, <2>1, ShutSteady DEF Calm, lifeVars
<1>2. ASSUME NEW r \in Requests, CallerPublishes(r) PROVE ShutInv'
  <2>1. PublishQueue /\ UNCHANGED <<shutVars, wst, apc>>
    BY <1>2 DEF CallerPublishes, CreateProviderQueue
  <2> QED BY <2>1, ShutPublish
<1>3. ASSUME NEW r \in Requests, CallerStarts(r) PROVE ShutInv'
  <2>1. PrepareOK /\ Preparing /\ UNCHANGED <<shutVars, apc>>
    BY <1>3 DEF CallerStarts, PrepareForRequest, Preparing
  <2> QED BY <2>1, ShutStart
<1>4. ASSUME NEW g \in Gens, CleanupWait(g) \/ CleanupFinish(g) PROVE ShutInv'
  <2>1. UNCHANGED <<shutVars, ngen, requestQueues, wst, apc>>
    BY <1>4 DEF CleanupWait, CleanupFinish
  <2> QED BY <2>1, <1>nat, SameWorkers, ShutSteady
<1>5. ASSUME NEW a \in Admins, UpdateBegin(a) PROVE ShutInv'
  <2>1. PICK l \in {"ulock", "done"} : apc' = [apc EXCEPT ![a] = l] /\ (l = "ulock" => spc = "idle")
    BY <1>5 DEF UpdateBegin, AGoto
  <2>2. UNCHANGED <<shutVars, ngen, requestQueues, wst>> /\ l \in AdmPcs
    BY <1>5, <1>pcs DEF UpdateBegin
  <2> QED BY <2>1, <2>2, ShutAdmin DEF UpdatePcs
<1>6. ASSUME NEW a \in Admins, GetProviderByKey(a) PROVE ShutInv'
  <2>1. PICK l \in {"gprepare", "done"} : apc' = [apc EXCEPT ![a] = l]
    BY <1>6 DEF GetProviderByKey, AGoto
  <2>2. UNCHANGED <<shutVars, wst>> /\ l \in AdmPcs /\ l \notin UpdatePcs
    BY <1>6, <1>pcs DEF GetProviderByKey, UpdatePcs
  <2>3. CASE PublishQueue
    <3>1. \A b \in Admins : apc'[b] \in UpdatePcs => apc[b] \in UpdatePcs
      BY <2>1, <2>2 DEF TypeOK, TypeAdm
    <3> QED BY <2>2, <2>3, <3>1, ShutPublish
  <2>4. CASE UNCHANGED genVars BY <2>1, <2>2, <2>4, ShutAdmin
  <2> QED BY <1>6, <2>3, <2>4 DEF GetProviderByKey
<1>7. ASSUME NEW a \in Admins, RemoveBegin(a) PROVE ShutInv'
  <2>1. PICK l \in {"rwait", "done"} : apc' = [apc EXCEPT ![a] = l]
    BY <1>7 DEF RemoveBegin, AGoto
  <2>2. UNCHANGED <<shutVars, ngen, requestQueues, wst>> /\ l \in AdmPcs /\ l \notin UpdatePcs
    BY <1>7, <1>pcs DEF RemoveBegin, UpdatePcs
  <2> QED BY <2>1, <2>2, ShutAdmin
<1>8. ASSUME NEW a \in Admins, UpdatePrepare(a) PROVE ShutInv'
  <2>1. apc' = [apc EXCEPT ![a] = "uprepare"] /\ apc[a] = "ulock" /\ PublishQueue
        /\ UNCHANGED <<shutVars, wst>>
    BY <1>8 DEF UpdatePrepare, AGoto
  <2>2. \A b \in Admins : apc'[b] \in UpdatePcs => apc[b] \in UpdatePcs
    BY <2>1 DEF TypeOK, TypeAdm, UpdatePcs
  <2> QED BY <2>1, <2>2, ShutPublish
<1>9. ASSUME NEW a \in Admins, UpdatePublish(a) PROVE ShutInv'
  <2>1. spc = "idle" /\ UNCHANGED <<spc, sgen, atShutdown>> /\ sgen \in Nat /\ sgen <= ngen
    BY <1>9 DEF UpdatePublish, ShutInv, NoUpdates, UpdatePcs, Counted, TypeOK, TypeShut
  <2>2. ngen \in Nat /\ ngen' = ngen + 1 /\ ngen + 1 \in Gens /\ StartWorkers(ngen + 1)
    BY <1>9 DEF UpdatePublish, TypeOK, TypeGen, Gens
  <2>3. \A g \in atShutdown : g \in Gens /\ g <= ngen /\ Born(g)
    BY DEF ShutInv, Counted, TypeOK, TypeShut
  <2>4. Gens \subseteq Nat BY DEF Gens
  <2>5. \A g \in atShutdown : g # ngen + 1 /\ g <= ngen'
    <3>1. ngen \in Nat /\ ngen' = ngen + 1 BY <2>2
    <3>2. SUFFICES ASSUME NEW g \in atShutdown PROVE g # ngen + 1 /\ g <= ngen' OBVIOUS
    <3>3. g \in Nat /\ g <= ngen BY <2>3, <2>4
    <3> QED BY <3>1, <3>3
  <2>6. \A g \in atShutdown : Born(g)' BY <2>2, <2>3, <2>5, StartedWorkers
  <2>7. Counted' BY <2>1, <2>2, <2>5, <2>6 DEF Counted
  <2> QED BY <2>1, <2>7 DEF ShutInv, NoUpdates, Waits
<1>10. ASSUME NEW a \in Admins, \/ TransferTake(a) \/ TransferPut(a) \/ TransferFull(a)
                               \/ TransferDone(a)
       PROVE  ShutInv'
  <2>1. PICK l \in {"transfer", "put", "cancel", "retire"} : apc' = [apc EXCEPT ![a] = l]
    BY <1>10 DEF TransferTake, TransferPut, TransferFull, TransferDone, AGoto
  <2>2. UNCHANGED <<shutVars, ngen, requestQueues, wst>> /\ apc[a] \in UpdatePcs
    BY <1>10 DEF TransferTake, TransferPut, TransferFull, TransferDone, UpdatePcs
  <2>3. l \in AdmPcs BY <1>pcs
  <2> QED BY <2>1, <2>2, <2>3, ShutAdmin
<1>11. ASSUME NEW a \in Admins,
              RetireOld(a) \/ UpdateConstructFails(a) \/ RemoveWait(a) \/ RemoveDrained(a)
       PROVE  ShutInv'
  <2>1. PICK l \in {"done", "rdrain", "rretired"} : apc' = [apc EXCEPT ![a] = l]
    BY <1>11 DEF RetireOld, UpdateConstructFails, RemoveWait, RemoveDrained, AGoto
  <2>2. UNCHANGED <<shutVars, ngen, requestQueues, wst>>
    BY <1>11 DEF RetireOld, UpdateConstructFails, RemoveWait, RemoveDrained
  <2>3. l \in AdmPcs /\ l \notin UpdatePcs BY <1>pcs DEF UpdatePcs
  <2> QED BY <2>1, <2>2, <2>3, ShutAdmin
<1>12. ASSUME NEW a \in Admins, PrepareForAdmin(a) PROVE ShutInv'
  <2>1. apc' = [apc EXCEPT ![a] = "done"] /\ UNCHANGED shutVars /\ Preparing /\ "done" \in AdmPcs
        /\ "done" \notin UpdatePcs
    BY <1>12, <1>pcs DEF PrepareForAdmin, AGoto, Preparing, UpdatePcs
  <2>2. \A b \in Admins : apc'[b] \in UpdatePcs => apc[b] \in UpdatePcs
    BY <2>1 DEF TypeOK, TypeAdm
  <2>3. CASE PrepareOK BY <2>1, <2>2, <2>3, ShutStart
  <2>4. CASE UNCHANGED <<genVars, workVars>> BY <2>1, <2>4, ShutAdmin
  <2> QED BY <1>12, <2>3, <2>4 DEF PrepareForAdmin
<1>13. ASSUME NEW a \in Admins, RemoveFinish(a) PROVE ShutInv'
  <2>1. apc' = [apc EXCEPT ![a] = "done"] /\ UNCHANGED <<shutVars, ngen, wst>> /\ requestQueues' = 0
    BY <1>13 DEF RemoveFinish, AGoto
  <2>2. \A b \in Admins : apc'[b] \in UpdatePcs => apc[b] \in UpdatePcs
    BY <2>1 DEF TypeOK, TypeAdm, UpdatePcs
  <2>3. 0 \notin atShutdown BY DEF TypeOK, TypeShut, Gens
  <2> QED BY <2>1, <2>2, <2>3, <1>nat, SameWorkers, ShutSteady
<1>14. CASE ShutdownBegin
  <2>1. /\ spc' = "signal" /\ atShutdown' = {g \in Gens : Alive(g) # {}}
        /\ \A a \in Admins : apc[a] \notin UpdatePcs
        /\ UNCHANGED <<ngen, wst, apc, sgen>>
    BY <1>14 DEF ShutdownBegin, SGoto
  <2>2. NoUpdates' BY <2>1 DEF NoUpdates
  <2>3. Counted' BY <2>1, LiveAlive, SameWorkers DEF Counted, WorkInv, BornBounded, ShutInv
  <2>4. Waits' BY <2>1 DEF Waits
  <2> QED BY <2>2, <2>3, <2>4 DEF ShutInv
<1>15. ASSUME spc # "idle", UNCHANGED <<atShutdown, requestQueues, ngen, wst, apc>>, Waits',
              sgen' \in {sgen, requestQueues}
       PROVE  ShutInv'
  <2>1. NoUpdates' BY <1>15 DEF ShutInv, NoUpdates
  <2>2. requestQueues <= ngen BY DEF TypeOK, TypeGen
  <2>3. Counted' BY <1>15, <2>2, SameWorkers DEF ShutInv, Counted
  <2> QED BY <1>15, <2>1, <2>3 DEF ShutInv
<1>16. CASE ShutdownSignal
  <2>1. Waits' BY <1>16 DEF ShutdownSignal, SGoto, Waits
  <2> QED BY <1>16, <2>1, <1>15 DEF ShutdownSignal
<1>17. CASE ShutdownRange
  <2>1. Waits' BY <1>17 DEF ShutdownRange, SGoto, Waits
  <2> QED BY <1>17, <2>1, <1>15 DEF ShutdownRange
<1>18. CASE ShutdownWait
  <2>1. /\ spc = "wait" /\ spc' = "cleanups" /\ (sgen # 0 => Alive(sgen) = {})
        /\ UNCHANGED <<atShutdown, requestQueues, wst>>
    BY <1>18 DEF ShutdownWait, SGoto
  <2>2. \A g \in atShutdown : g = requestQueues => g # 0 /\ sgen = g
    BY <2>1 DEF ShutInv, Waits, TypeOK, TypeShut, Gens
  <2>3. Waits' BY <2>1, <2>2, LiveAlive, SameWorkers DEF Waits
  <2> QED BY <1>18, <2>3, <1>15 DEF ShutdownWait
<1>19. CASE ShutdownCleanups
  <2>1. /\ spc = "cleanups" /\ spc' = "drain" /\ CleanupPending = {}
        /\ UNCHANGED <<atShutdown, requestQueues, wst>>
    BY <1>19 DEF ShutdownCleanups, SGoto
  <2>2. \A a \in Admins : apc[a] \notin ReplacePcs
    BY <2>1 DEF ShutInv, NoUpdates, ReplacePcs, UpdatePcs
  <2>3. \A g \in Gens : cleanup[g] # "waiting" BY <2>1 DEF CleanupPending
  <2>4. \A g \in atShutdown : g \in Gens /\ ~Live(g)
    BY <2>1, <2>2, <2>3 DEF ShutInv, Waits, TypeOK, TypeShut, WorkInv, Retiring
  <2>5. Waits' BY <2>1, <2>4, SameWorkers DEF Waits
  <2> QED BY <1>19, <2>5, <1>15 DEF ShutdownCleanups
<1>20. CASE ShutdownFinish
  <2>1. Waits' BY <1>20, SameWorkers DEF ShutdownFinish, SGoto, Waits, ShutInv
  <2> QED BY <1>20, <2>1, <1>15 DEF ShutdownFinish
<1> QED
  BY <1>1, <1>2, <1>3, <1>4, <1>5, <1>6, <1>7, <1>8, <1>9, <1>10, <1>11, <1>12, <1>13, <1>14,
     <1>16, <1>17, <1>18, <1>19, <1>20, CalmOrLife DEF LifeStep, AdminBegin

\* Shutdown keeps track of the workers that ran when it began, although it
\* takes no provider lock and the published queue changes under it.
THEOREM ShutdownTracks == Spec => []ShutInv
<1>1. Init => ShutInv BY DEF Init, InitState, ShutInv, NoUpdates, Counted, Waits
<1>2. IndInv /\ WorkInv /\ ShutInv /\ [Next]_vars => ShutInv' BY ShutStep DEF IndInv
<1> QED BY <1>1, <1>2, Invariance, WorkersWaitedFor, PTL DEF Spec

\* When Shutdown returns, every worker that ran when it began has exited.
THEOREM ShutdownStopsWorkers == Spec => []ShutdownWaits
<1>1. ShutInv => ShutdownWaits BY LiveAlive DEF ShutInv, Waits, ShutdownWaits
<1> QED BY <1>1, ShutdownTracks, PTL

(***************************************************************************)
(* The sweeps.                                                             *)
(***************************************************************************)
\* Somebody will still sweep the queue of g.
Sweeper(g) ==
  \/ g \in CleanupPending
  \/ \E a \in Admins : old[a] = g /\ apc[a] \in {"rwait", "rdrain"}
  \/ spc \in {"range", "wait", "cleanups"} /\ g = requestQueues
  \/ spc = "drain" /\ g = sgen

ClosedKnown == \A g \in closing \cup swept : g <= ngen
CleanupKnown == \A g \in Gens : cleanup[g] # "none" => g <= ngen /\ g # requestQueues

\* A signalled queue whose workers ran, or may still be started, is swept or
\* has a sweeper.
WillSweep == \A g \in closing \ swept : Born(g) \/ g = requestQueues => Sweeper(g)

RemovalSwept == \A a \in Admins : apc[a] = "rretired" => old[a] \in swept

\* The published queue is swept only as the last thing that is done to it.
SweptLast == requestQueues \in swept => spc = "done" \/ \E a \in Admins : apc[a] = "rretired"

SweepInv == ClosedKnown /\ CleanupKnown /\ WillSweep /\ RemovalSwept /\ SweptLast

\* A step that publishes nothing: who sweeps goes on to, or has swept.
LEMMA SweepSteady ==
  ASSUME TypeOK, TypeOK', SweepInv, UNCHANGED <<requestQueues, ngen>>,
         \A g \in Gens : Born(g)' => Born(g) \/ g = requestQueues,
         closing \subseteq closing', swept \subseteq swept',
         \A g \in closing' : g \in closing \/ (g <= ngen /\ Sweeper(g)'),
         \A g \in swept' : \/ g \in swept
                           \/ /\ g <= ngen
                              /\ \/ g # requestQueues \/ spc' = "done"
                                 \/ \E a \in Admins : apc'[a] = "rretired",
         \A g \in Gens : Sweeper(g) => Sweeper(g)' \/ g \in swept',
         \A g \in Gens : cleanup'[g] # "none" =>
           cleanup[g] # "none" \/ (g <= ngen /\ g # requestQueues),
         \A a \in Admins : apc'[a] = "rretired" => old'[a] \in swept',
         spc = "done" => spc' = "done",
         \A a \in Admins : apc[a] = "rretired" => \E b \in Admins : apc'[b] = "rretired"
  PROVE  SweepInv'
<1>1. closing \subseteq Gens /\ closing' \subseteq Gens BY DEF TypeOK, TypeGen
<1>2. ClosedKnown' BY DEF SweepInv, ClosedKnown
<1>3. CleanupKnown' BY DEF SweepInv, CleanupKnown
<1>4. WillSweep' BY <1>1 DEF SweepInv, WillSweep
<1>5. RemovalSwept' BY DEF RemovalSwept
<1>6. SweptLast' BY DEF SweepInv, SweptLast
<1> QED BY <1>2, <1>3, <1>4, <1>5, <1>6 DEF SweepInv

\* A queue is published: what was published had no workers, or Shutdown is
\* not running.
LEMMA SweepPublish ==
  ASSUME TypeOK, LockInv, SweepInv, lock = NoActor,
         ngen' = ngen + 1, requestQueues' = ngen + 1,
         UNCHANGED <<closing, swept, cleanup, shutVars>>,
         \A g \in Gens : Born(g)' => Born(g) \/ g = ngen + 1,
         \A g \in Gens : Born(g) /\ g = requestQueues => spc = "idle",
         \A a \in Admins : apc'[a] # "rretired"
  PROVE  SweepInv'
<1>1. /\ ngen \in Nat /\ closing \subseteq Gens /\ swept \subseteq Gens /\ Gens \subseteq Nat
      /\ cleanup \in [Gens -> {"none", "waiting", "draining", "finished"}]
  BY DEF TypeOK, TypeGen, TypeHist, TypeWork, Gens
<1>2. \A g \in closing \cup swept : g \in Nat /\ g <= ngen BY <1>1 DEF SweepInv, ClosedKnown
<1>3. ClosedKnown' BY <1>1, <1>2 DEF ClosedKnown
<1>4. CleanupKnown' BY <1>1 DEF SweepInv, CleanupKnown
<1>5. \A a \in Admins : apc[a] \notin LockPcs BY DEF LockInv, TypeOK, TypeLock
<1>6. WillSweep'
  <2> SUFFICES ASSUME NEW g \in closing \ swept, Born(g)' \/ g = ngen + 1
               PROVE  Sweeper(g)'
    BY DEF WillSweep
  <2>1. g # ngen + 1 /\ g \in Gens BY <1>1, <1>2
  <2>2. Born(g) BY <2>1
  <2>3. Sweeper(g) BY <2>2 DEF SweepInv, WillSweep
  <2>4. ~\E a \in Admins : old[a] = g /\ apc[a] \in {"rwait", "rdrain"}
    BY <1>5 DEF LockPcs, RemovePcs
  <2> QED BY <2>1, <2>2, <2>3, <2>4 DEF Sweeper, CleanupPending, shutVars
<1>7. RemovalSwept' BY DEF RemovalSwept
<1>8. SweptLast' BY <1>1, <1>2 DEF SweptLast
<1> QED BY <1>3, <1>4, <1>6, <1>7, <1>8 DEF SweepInv

\* RemoveProvider unpublishes a queue that was swept.
LEMMA SweepRemove ==
  ASSUME TypeOK, LockInv, SweepInv, NEW a \in Admins, RemoveFinish(a)
  PROVE  SweepInv'
<1>1. /\ requestQueues' = 0 /\ CleanupPending = {} /\ apc[a] = "rretired"
      /\ apc' = [apc EXCEPT ![a] = "done"]
      /\ UNCHANGED <<wst, cleanup, ngen, old, closing, swept, spc, sgen>> /\ lock = a
  BY DEF RemoveFinish, AGoto, LockInv, LockPcs, RemovePcs, workVars, shutVars, histVars
<1>2. \A g : Born(g)' <=> Born(g) BY <1>1, SameWorkers
<1>3. \A b \in Admins : apc[b] \in LockPcs => b = a BY <1>1 DEF LockInv
<1>4. \A b \in Admins : apc'[b] \notin LockPcs
  BY <1>1, <1>3 DEF TypeOK, TypeAdm, LockPcs, UpdatePcs, RemovePcs
<1>5. requestQueues \in swept BY <1>1 DEF SweepInv, RemovalSwept, LockInv, RemovePcs
<1>6. 0 \notin closing \cup swept /\ 0 \notin Gens BY DEF TypeOK, TypeGen, TypeHist, Gens
<1>7. ClosedKnown' BY <1>1 DEF SweepInv, ClosedKnown
<1>8. CleanupKnown' BY <1>1, <1>6 DEF SweepInv, CleanupKnown
<1>9. WillSweep'
  <2> SUFFICES ASSUME NEW g \in closing \ swept, Born(g) \/ g = 0 PROVE Sweeper(g)'
    BY <1>1, <1>2 DEF WillSweep
  <2>1. Sweeper(g) BY <1>6 DEF SweepInv, WillSweep
  <2>2. ~\E b \in Admins : old[b] = g /\ apc[b] \in {"rwait", "rdrain"}
    BY <1>1, <1>3 DEF LockPcs, RemovePcs
  <2> QED BY <1>1, <1>5, <2>1, <2>2 DEF Sweeper, CleanupPending
<1>10. RemovalSwept' BY <1>4 DEF RemovalSwept, LockPcs, RemovePcs
<1>11. SweptLast' BY <1>1, <1>6 DEF SweptLast
<1> QED BY <1>7, <1>8, <1>9, <1>10, <1>11 DEF SweepInv

\* A step of a lifecycle call that sweeps nothing.
LEMMA SweepAdmin ==
  ASSUME TypeOK, TypeOK', SweepInv, NEW a \in Admins, NEW l \in AdmPcs,
         apc' = [apc EXCEPT ![a] = l], apc[a] \notin RemovePcs, l # "rretired",
         UNCHANGED <<requestQueues, ngen, closing, swept, cleanup, spc, sgen, old>>,
         \A g \in Gens : Born(g)' => Born(g) \/ g = requestQueues
  PROVE  SweepInv'
<1>1. \A b \in Admins : apc'[b] = IF b = a THEN l ELSE apc[b] BY DEF TypeOK, TypeAdm
<1>2. \A g \in Gens : Sweeper(g) => Sweeper(g)'
  BY <1>1 DEF Sweeper, CleanupPending, RemovePcs
<1>3. \A b \in Admins : apc'[b] = "rretired" <=> apc[b] = "rretired"
  BY <1>1 DEF RemovePcs
<1>4. \A b \in Admins : apc'[b] = "rretired" => old'[b] \in swept'
  BY <1>3 DEF SweepInv, RemovalSwept
<1> QED BY <1>2, <1>3, <1>4, SweepSteady

LEMMA SweepStep ==
  ASSUME TypeOK, TypeOK', LockInv, WorkInv, ShutInv, SweepInv, [Next]_vars
  PROVE  SweepInv'
<1> USE DEF genVars, workVars, admVars, shutVars, histVars, reqVars
<1>pcs. AdmPcs = {"idle", "gprepare", "done", "ulock", "uprepare", "transfer", "put", "cancel",
                  "retire", "rwait", "rdrain", "rretired"}
  BY DEF AdmPcs, UpdatePcs, RemovePcs
<1>gen. closing \subseteq Gens /\ swept \subseteq Gens /\ (requestQueues # 0 => requestQueues \in Gens)
        /\ requestQueues <= ngen /\ ngen \in Nat
  BY DEF TypeOK, TypeGen, TypeHist, Gens
<1>ret. \A a \in Admins : apc[a] = "rretired" => old[a] \in swept BY DEF SweepInv, RemovalSwept
<1>known. \A g \in swept : g <= ngen BY DEF SweepInv, ClosedKnown
<1>idle. \A g \in Gens : Born(g) /\ g = requestQueues => instances # {}
  BY DEF WorkInv, Instanced
<1>1. CASE Calm
  <2>1. UNCHANGED <<requestQueues, ngen, cleanup, closing, swept, spc, sgen, apc, old>>
        /\ \A g \in Gens : Born(g)' => Born(g)
    BY <1>1 DEF Calm, lifeVars
  <2>2. \A g \in Gens : Sweeper(g) => Sweeper(g)' BY <2>1 DEF Sweeper, CleanupPending
  <2> QED BY <2>1, <2>2, <1>ret, SweepSteady
<1>2. ASSUME NEW r \in Requests, CallerPublishes(r) PROVE SweepInv'
  <2>1. /\ requestQueues = 0 /\ lock = NoActor /\ ngen' = ngen + 1 /\ requestQueues' = ngen + 1
        /\ UNCHANGED <<wst, cleanup, apc, closing, swept, shutVars>>
    BY <1>2 DEF CallerPublishes, CreateProviderQueue, PublishQueue
  <2>2. \A a \in Admins : apc'[a] # "rretired"
    BY <2>1 DEF LockInv, LockPcs, RemovePcs, TypeOK, TypeLock
  <2>3. 0 \notin Gens BY DEF Gens
  <2> QED BY <2>1, <2>2, <2>3, SameWorkers, SweepPublish
<1>3. ASSUME NEW r \in Requests, CallerStarts(r) PROVE SweepInv'
  <2>1. /\ StartWorkers(requestQueues) /\ requestQueues \in Gens
        /\ UNCHANGED <<requestQueues, ngen, cleanup, closing, swept, spc, sgen, apc, old>>
    BY <1>3, <1>gen DEF CallerStarts, PrepareForRequest, PrepareOK, LockInv
  <2>2. \A g \in Gens : Born(g)' => Born(g) \/ g = requestQueues BY <2>1, StartedWorkers
  <2>3. \A g \in Gens : Sweeper(g) => Sweeper(g)' BY <2>1 DEF Sweeper, CleanupPending
  <2> QED BY <2>1, <2>2, <2>3, <1>ret, SweepSteady
<1>4. ASSUME NEW g \in Gens, CleanupWait(g) PROVE SweepInv'
  <2>1. /\ cleanup[g] = "waiting" /\ cleanup' = [cleanup EXCEPT ![g] = "draining"]
        /\ UNCHANGED <<wst, requestQueues, ngen, closing, swept, spc, sgen, apc, old>>
    BY <1>4 DEF CleanupWait
  <2>2. \A h \in Gens : cleanup'[h] = IF h = g THEN "draining" ELSE cleanup[h]
    BY <2>1 DEF TypeOK, TypeWork
  <2>3. \A h \in Gens : Sweeper(h) => Sweeper(h)' BY <2>1, <2>2 DEF Sweeper, CleanupPending
  <2> QED BY <2>1, <2>2, <2>3, <1>ret, SameWorkers, SweepSteady
<1>5. ASSUME NEW g \in Gens, CleanupFinish(g) PROVE SweepInv'
  <2>1. /\ cleanup[g] = "draining" /\ cleanup' = [cleanup EXCEPT ![g] = "finished"]
        /\ swept' = swept \cup {g}
        /\ UNCHANGED <<wst, requestQueues, ngen, closing, spc, sgen, apc, old>>
    BY <1>5 DEF CleanupFinish
  <2>2. \A h \in Gens : cleanup'[h] = IF h = g THEN "finished" ELSE cleanup[h]
    BY <2>1 DEF TypeOK, TypeWork
  <2>3. \A h \in Gens : Sweeper(h) => Sweeper(h)' \/ h \in swept'
    BY <2>1, <2>2 DEF Sweeper, CleanupPending
  <2>4. g <= ngen /\ g # requestQueues BY <2>1 DEF SweepInv, CleanupKnown
  <2> QED BY <2>1, <2>2, <2>3, <2>4, <1>ret, SameWorkers, SweepSteady
<1>6. ASSUME NEW a \in Admins, UpdateBegin(a) PROVE SweepInv'
  <2>1. PICK l \in {"ulock", "done"} : apc' = [apc EXCEPT ![a] = l] BY <1>6 DEF UpdateBegin, AGoto
  <2>2. /\ apc[a] \notin RemovePcs /\ l \in AdmPcs
        /\ UNCHANGED <<wst, requestQueues, ngen, closing, swept, cleanup, spc, sgen, old>>
    BY <1>6, <1>pcs DEF UpdateBegin, RemovePcs
  <2> QED BY <2>1, <2>2, SameWorkers, SweepAdmin
<1>7. ASSUME NEW a \in Admins, GetProviderByKey(a) PROVE SweepInv'
  <2>1. CASE PublishQueue /\ instances = {} /\ lock = NoActor /\ AGoto(a, "gprepare")
    <3>1. /\ lock = NoActor /\ ngen' = ngen + 1 /\ requestQueues' = ngen + 1
          /\ UNCHANGED <<wst, cleanup, closing, swept, shutVars>>
      BY <1>7, <2>1 DEF GetProviderByKey, PublishQueue
    <3>2. \A b \in Admins : apc'[b] # "rretired"
      BY <2>1 DEF LockInv, LockPcs, RemovePcs, TypeOK, TypeLock, TypeAdm, AGoto
    <3> QED BY <2>1, <3>1, <3>2, <1>idle, SameWorkers, SweepPublish
  <2>2. CASE AGoto(a, "done") /\ UNCHANGED <<genVars, lock>>
    <3>1. /\ apc' = [apc EXCEPT ![a] = "done"] /\ apc[a] \notin RemovePcs /\ "done" \in AdmPcs
          /\ UNCHANGED <<wst, requestQueues, ngen, closing, swept, cleanup, spc, sgen, old>>
      BY <1>7, <2>2, <1>pcs DEF GetProviderByKey, AGoto, RemovePcs
    <3> QED BY <3>1, SameWorkers, SweepAdmin
  <2> QED BY <1>7, <2>1, <2>2 DEF GetProviderByKey
<1>8. ASSUME NEW a \in Admins, RemoveBegin(a) PROVE SweepInv'
  <2>0. apc[a] = "idle" /\ UNCHANGED <<wst, requestQueues, ngen, swept, cleanup, spc, sgen>>
    BY <1>8 DEF RemoveBegin
  <2>1. CASE requestQueues = 0
    <3>1. /\ apc' = [apc EXCEPT ![a] = "done"] /\ apc[a] \notin RemovePcs /\ "done" \in AdmPcs
          /\ UNCHANGED <<closing, old>>
      BY <1>8, <2>1, <1>pcs DEF RemoveBegin, AGoto, RemovePcs
    <3> QED BY <2>0, <3>1, SameWorkers, SweepAdmin
  <2>2. CASE requestQueues # 0
    <3>1. /\ apc' = [apc EXCEPT ![a] = "rwait"] /\ old' = [old EXCEPT ![a] = requestQueues]
          /\ closing' = closing \cup {requestQueues}
      BY <1>8, <2>2 DEF RemoveBegin, AGoto
    <3>2. \A b \in Admins : /\ apc'[b] = IF b = a THEN "rwait" ELSE apc[b]
                            /\ old'[b] = IF b = a THEN requestQueues ELSE old[b]
      BY <3>1 DEF TypeOK, TypeAdm
    <3>3. \A g \in Gens : Sweeper(g) => Sweeper(g)'
      BY <2>0, <3>2 DEF Sweeper, CleanupPending
    <3>4. Sweeper(requestQueues)' BY <2>0, <3>2 DEF Sweeper
    <3>5. \A g \in closing' : g \in closing \/ (g <= ngen /\ Sweeper(g)')
      BY <2>0, <3>1, <3>4, <1>gen
    <3>6. \A b \in Admins : (apc'[b] = "rretired" => apc[b] = "rretired" /\ old'[b] \in swept')
                            /\ (apc[b] = "rretired" => apc'[b] = "rretired")
      BY <2>0, <3>2, <1>ret
    <3> QED BY <2>0, <3>1, <3>3, <3>5, <3>6, SameWorkers, SweepSteady
  <2> QED BY <2>1, <2>2
<1>9. ASSUME NEW a \in Admins, UpdatePrepare(a) PROVE SweepInv'
  <2>1. /\ requestQueues = 0 /\ lock = NoActor /\ ngen' = ngen + 1 /\ requestQueues' = ngen + 1
        /\ UNCHANGED <<wst, cleanup, closing, swept, shutVars>>
        /\ apc' = [apc EXCEPT ![a] = "uprepare"]
    BY <1>9 DEF UpdatePrepare, PublishQueue, AGoto
  <2>2. \A b \in Admins : apc'[b] # "rretired"
    BY <2>1 DEF LockInv, LockPcs, RemovePcs, TypeOK, TypeLock, TypeAdm
  <2>3. 0 \notin Gens BY DEF Gens
  <2> QED BY <2>1, <2>2, <2>3, SameWorkers, SweepPublish
<1>10. ASSUME NEW a \in Admins,
              \/ UpdateConstructFails(a)
              \/ TransferTake(a) \/ TransferPut(a) \/ TransferFull(a) \/ TransferDone(a)
       PROVE  SweepInv'
  <2>1. PICK l \in {"transfer", "put", "cancel", "retire", "done"} : apc' = [apc EXCEPT ![a] = l]
    BY <1>10 DEF UpdateConstructFails, TransferTake, TransferPut, TransferFull, TransferDone, AGoto
  <2>2. /\ UNCHANGED <<wst, requestQueues, ngen, closing, swept, cleanup, spc, sgen, old>>
        /\ apc[a] \notin RemovePcs
    BY <1>10 DEF UpdateConstructFails, TransferTake, TransferPut, TransferFull, TransferDone, RemovePcs
  <2>3. l \in AdmPcs BY <1>pcs
  <2> QED BY <2>1, <2>2, <2>3, SameWorkers, SweepAdmin
<1>11. ASSUME NEW a \in Admins, UpdatePublish(a) PROVE SweepInv'
  <2>1. /\ lock = NoActor /\ ngen' = ngen + 1 /\ requestQueues' = ngen + 1
        /\ UNCHANGED <<cleanup, closing, swept, shutVars>> /\ ngen + 1 \in Gens
        /\ apc' = [apc EXCEPT ![a] = "transfer"] /\ StartWorkers(ngen + 1) /\ apc[a] = "ulock"
    BY <1>11 DEF UpdatePublish, AGoto, TypeOK, TypeGen, Gens
  <2>2. \A b \in Admins : apc'[b] # "rretired"
    BY <2>1 DEF LockInv, LockPcs, RemovePcs, TypeOK, TypeLock, TypeAdm
  <2>3. spc = "idle" BY <2>1 DEF ShutInv, NoUpdates, UpdatePcs
  <2>4. \A g \in Gens : Born(g)' => Born(g) \/ g = ngen + 1 BY <2>1, StartedWorkers
  <2> QED BY <2>1, <2>2, <2>3, <2>4, SweepPublish
<1>12. ASSUME NEW a \in Admins, RetireOld(a) PROVE SweepInv'
  <2>1. /\ apc[a] = "retire" /\ cleanup' = [cleanup EXCEPT ![old[a]] = "waiting"]
        /\ closing' = closing \cup {old[a]} /\ apc' = [apc EXCEPT ![a] = "done"]
        /\ UNCHANGED <<requestQueues, ngen, wst, old, spc, sgen, swept>>
    BY <1>12 DEF RetireOld, AGoto
  <2>2. old[a] \in 1..ngen /\ old[a] \in Gens /\ old[a] # requestQueues
    BY <2>1 DEF LockInv, ReplacePcs, TypeOK, TypeGen, Gens
  <2>3. \A g \in Gens : cleanup'[g] = IF g = old[a] THEN "waiting" ELSE cleanup[g]
    BY <2>1 DEF TypeOK, TypeWork
  <2>4. \A b \in Admins : apc'[b] = IF b = a THEN "done" ELSE apc[b] BY <2>1 DEF TypeOK, TypeAdm
  <2>5. \A g \in Gens : Sweeper(g) => Sweeper(g)'
    BY <2>1, <2>3, <2>4 DEF Sweeper, CleanupPending
  <2>6. Sweeper(old[a])' BY <2>1, <2>2, <2>3 DEF Sweeper, CleanupPending
  <2>7. \A g \in closing' : g \in closing \/ (g <= ngen /\ Sweeper(g)')
    BY <2>1, <2>2, <2>6
  <2>8. \A g \in Gens : cleanup'[g] # "none" => cleanup[g] # "none" \/ (g <= ngen /\ g # requestQueues)
    BY <2>2, <2>3
  <2>9. \A b \in Admins : (apc'[b] = "rretired" => apc[b] = "rretired" /\ old'[b] \in swept')
                          /\ (apc[b] = "rretired" => apc'[b] = "rretired")
    BY <2>1, <2>4, <1>ret
  <2> QED BY <2>1, <2>5, <2>7, <2>8, <2>9, SameWorkers, SweepSteady
<1>13. ASSUME NEW a \in Admins, PrepareForAdmin(a) PROVE SweepInv'
  <2>1. /\ apc' = [apc EXCEPT ![a] = "done"] /\ UNCHANGED <<spc, sgen, swept, old>>
        /\ apc[a] \in {"uprepare", "gprepare"} /\ lock = a
    BY <1>13 DEF PrepareForAdmin, AGoto, LockInv, LockPcs, UpdatePcs
  <2>2. apc[a] \notin RemovePcs /\ "done" \in AdmPcs BY <2>1, <1>pcs DEF RemovePcs
  <2>3. CASE PrepareOK
    <3>1. /\ StartWorkers(requestQueues) /\ requestQueues \in Gens
          /\ UNCHANGED <<requestQueues, ngen, cleanup, closing>>
      BY <2>1, <2>3, <1>gen DEF PrepareOK, LockInv, TypeOK, TypeLock
    <3>2. \A g \in Gens : Born(g)' => Born(g) \/ g = requestQueues BY <3>1, StartedWorkers
    <3> QED BY <2>1, <2>2, <3>1, <3>2, SweepAdmin
  <2>4. CASE UNCHANGED <<genVars, workVars>> BY <2>1, <2>2, <2>4, SameWorkers, SweepAdmin
  <2> QED BY <1>13, <2>3, <2>4 DEF PrepareForAdmin
<1>14. ASSUME NEW a \in Admins, RemoveWait(a) PROVE SweepInv'
  <2>1. /\ apc[a] = "rwait" /\ apc' = [apc EXCEPT ![a] = "rdrain"]
        /\ UNCHANGED <<wst, requestQueues, ngen, closing, swept, cleanup, spc, sgen, old>>
    BY <1>14 DEF RemoveWait, AGoto
  <2>2. \A b \in Admins : apc'[b] = IF b = a THEN "rdrain" ELSE apc[b] BY <2>1 DEF TypeOK, TypeAdm
  <2>3. \A g \in Gens : Sweeper(g) => Sweeper(g)' BY <2>1, <2>2 DEF Sweeper, CleanupPending
  <2>4. \A b \in Admins : (apc'[b] = "rretired" => apc[b] = "rretired" /\ old'[b] \in swept')
                          /\ (apc[b] = "rretired" => apc'[b] = "rretired")
    BY <2>1, <2>2, <1>ret
  <2> QED BY <2>1, <2>3, <2>4, SameWorkers, SweepSteady
<1>15. ASSUME NEW a \in Admins, RemoveDrained(a) PROVE SweepInv'
  <2>1. /\ apc[a] = "rdrain" /\ apc' = [apc EXCEPT ![a] = "rretired"]
        /\ swept' = swept \cup {old[a]}
        /\ UNCHANGED <<wst, requestQueues, ngen, closing, cleanup, spc, sgen, old>>
    BY <1>15 DEF RemoveDrained, AGoto
  <2>2. \A b \in Admins : apc'[b] = IF b = a THEN "rretired" ELSE apc[b] BY <2>1 DEF TypeOK, TypeAdm
  <2>3. \A g \in Gens : Sweeper(g) => Sweeper(g)' \/ g \in swept'
    BY <2>1, <2>2 DEF Sweeper, CleanupPending
  <2>4. \A b \in Admins : (apc'[b] = "rretired" => old'[b] \in swept')
                          /\ (apc[b] = "rretired" => apc'[b] = "rretired")
    BY <2>1, <2>2, <1>ret
  <2>5. old[a] <= ngen BY <2>1, <1>gen DEF LockInv, RemovePcs
  <2>6. apc'[a] = "rretired" BY <2>2
  <2> QED BY <2>1, <2>3, <2>4, <2>5, <2>6, SameWorkers, SweepSteady
<1>16. ASSUME NEW a \in Admins, RemoveFinish(a) PROVE SweepInv' BY <1>16, SweepRemove
<1>17. CASE ShutdownBegin
  <2>1. /\ spc = "idle" /\ spc' = "signal"
        /\ UNCHANGED <<wst, requestQueues, ngen, closing, swept, cleanup, sgen, apc, old>>
    BY <1>17 DEF ShutdownBegin, SGoto
  <2>2. \A g \in Gens : Sweeper(g) => Sweeper(g)' BY <2>1 DEF Sweeper, CleanupPending
  <2> QED BY <2>1, <2>2, <1>ret, SameWorkers, SweepSteady
<1>18. CASE ShutdownSignal
  <2>1. /\ spc = "signal" /\ spc' = "range" /\ closing' = closing \cup ({requestQueues} \ {0})
        /\ UNCHANGED <<wst, requestQueues, ngen, swept, cleanup, sgen, apc, old>>
    BY <1>18 DEF ShutdownSignal, SGoto
  <2>2. \A g \in Gens : Sweeper(g) => Sweeper(g)' BY <2>1 DEF Sweeper, CleanupPending
  <2>3. \A g \in closing' : g \in closing \/ (g <= ngen /\ Sweeper(g)')
    BY <2>1, <1>gen DEF Sweeper
  <2> QED BY <2>1, <2>2, <2>3, <1>ret, SameWorkers, SweepSteady
<1>19. CASE ShutdownRange \/ ShutdownWait \/ ShutdownCleanups
  <2>1. /\ spc \in {"range", "wait", "cleanups"} /\ spc' \in {"wait", "cleanups", "drain"}
        /\ spc' = "drain" => sgen' = requestQueues
        /\ UNCHANGED <<wst, requestQueues, ngen, swept, closing, cleanup, apc, old>>
    BY <1>19 DEF ShutdownRange, ShutdownWait, ShutdownCleanups, SGoto
  <2>2. \A g \in Gens : Sweeper(g) => Sweeper(g)' BY <2>1 DEF Sweeper, CleanupPending
  <2> QED BY <2>1, <2>2, <1>ret, SameWorkers, SweepSteady
<1>20. CASE ShutdownFinish
  <2>1. /\ spc = "drain" /\ spc' = "done" /\ swept' = swept \cup ({sgen} \ {0})
        /\ UNCHANGED <<wst, requestQueues, ngen, closing, cleanup, sgen, apc, old>>
    BY <1>20 DEF ShutdownFinish, SGoto
  <2>2. \A g \in Gens : Sweeper(g) => Sweeper(g)' \/ g \in swept'
    BY <2>1 DEF Sweeper, CleanupPending, Gens
  <2>3. sgen <= ngen BY DEF ShutInv, Counted
  <2> QED BY <2>1, <2>2, <2>3, <1>ret, SameWorkers, SweepSteady
<1> QED
  BY <1>1, <1>2, <1>3, <1>4, <1>5, <1>6, <1>7, <1>8, <1>9, <1>10, <1>11, <1>12, <1>13, <1>14,
     <1>15, <1>16, <1>17, <1>18, <1>19, <1>20, CalmOrLife DEF LifeStep, AdminBegin

(***************************************************************************)
(* What is left in the queues.                                             *)
(***************************************************************************)
\* Workers drain and exit on the signal only.
DrainedClosed ==
  \A g \in Gens, w \in Workers : wst[<<g, w>>] \in {"draining", "exited"} => g \in closing

\* What a swept queue holds was deposited after the sweep.
SweptLate == \A g \in swept : \A i \in 1..Len(queue[g]) : queue[g][i] \in late

\* A worker moves, or the workers of a generation are started; a queue that is
\* signalled stays so.
LEMMA DrainedStep == ASSUME TypeOK, DrainedClosed, [Next]_vars PROVE DrainedClosed'
<1> USE DEF genVars, workVars, reqVars
<1>t. wst \in [Gens \X Workers -> WorkerStates] BY DEF TypeOK, TypeWork
<1>0. ASSUME UNCHANGED wst, closing \subseteq closing' PROVE DrainedClosed'
  BY <1>0 DEF DrainedClosed
<1>1. ASSUME NEW h, StartWorkers(h), UNCHANGED closing PROVE DrainedClosed'
  <2>1. \A g \in Gens, w \in Workers : wst'[<<g, w>>] = IF g = h THEN "idle" ELSE wst[<<g, w>>]
    BY <1>1, <1>t DEF StartWorkers
  <2> QED BY <1>1, <2>1 DEF DrainedClosed
<1>2. ASSUME NEW h \in Gens, NEW v \in Workers, NEW to, UNCHANGED closing,
             wst' = [wst EXCEPT ![<<h, v>>] = to], to \in {"idle", "busy"} \/ h \in closing
      PROVE  DrainedClosed'
  <2>1. \A g \in Gens, w \in Workers :
          wst'[<<g, w>>] = IF <<g, w>> = <<h, v>> THEN to ELSE wst[<<g, w>>]
    BY <1>2, <1>t
  <2> QED BY <1>2, <2>1 DEF DrainedClosed
<1>3. CASE UNCHANGED vars BY <1>3, <1>0 DEF vars
<1>4. ASSUME NEW r \in Requests, RequestStep(r) \/ Cancel(r), ~PrepareForRequest(r) PROVE DrainedClosed'
  BY <1>4, <1>0 DEF RequestStep, Cancel, GetProviderQueue, CreateProviderQueue, PublishQueue,
     ShortCircuit, GetChannelMessage, Reroute, NoReroute, CheckCandidate, Enqueue, SeeDone,
     GiveUpSend, QueueFull, Recheck, Receive, LeaveOnCtx, Fail
<1>5. ASSUME NEW r \in Requests, PrepareForRequest(r) PROVE DrainedClosed'
  BY <1>5, <1>0, <1>1 DEF PrepareForRequest, PrepareOK
<1>6. ASSUME NEW g \in Gens, NEW w \in Workers, WorkerTake(g, w) PROVE DrainedClosed'
  BY <1>6, <1>2 DEF WorkerTake
<1>7. ASSUME NEW g \in Gens, NEW w \in Workers, KeyError(g, w) \/ Deliver(g, w) \/ Abandon(g, w)
      PROVE  DrainedClosed'
  BY <1>7, <1>2 DEF KeyError, Deliver, Abandon, WorkerIdle
<1>8. ASSUME NEW g \in Gens, NEW w \in Workers, WorkerSeesDone(g, w) PROVE DrainedClosed'
  BY <1>8, <1>2 DEF WorkerSeesDone
<1>9. ASSUME NEW g \in Gens, NEW w \in Workers, WorkerExit(g, w) PROVE DrainedClosed'
  BY <1>9, <1>2 DEF WorkerExit, DrainedClosed
<1>10. ASSUME NEW g \in Gens, NEW w \in Workers, WorkerDrain(g, w) PROVE DrainedClosed'
  BY <1>10, <1>0 DEF WorkerDrain, DrainOne
<1>11. ASSUME NEW g \in Gens, CleanupStep(g) PROVE DrainedClosed'
  BY <1>11, <1>0 DEF CleanupStep, CleanupWait, CleanupDrain, CleanupFinish, DrainOne
<1>12. ASSUME NEW a \in Admins, UpdatePublish(a) PROVE DrainedClosed'
  BY <1>12, <1>1 DEF UpdatePublish
<1>13. ASSUME NEW a \in Admins, PrepareForAdmin(a) PROVE DrainedClosed'
  BY <1>13, <1>0, <1>1 DEF PrepareForAdmin, PrepareOK
<1>14. ASSUME NEW a \in Admins, UpdateStep(a), ~UpdatePublish(a), ~PrepareForAdmin(a)
       PROVE  DrainedClosed'
  BY <1>14, <1>0 DEF UpdateStep, UpdatePrepare, PublishQueue, UpdateConstructFails, TransferTake,
     TransferPut, TransferFull, CancelRest, DrainOne, TransferDone, RetireOld
<1>15. ASSUME NEW a \in Admins, RemoveStep(a) \/ AdminBegin(a) PROVE DrainedClosed'
  BY <1>15, <1>0 DEF RemoveStep, RemoveWait, RemoveDrain, DrainOne, RemoveDrained, RemoveFinish,
     AdminBegin, UpdateBegin, GetProviderByKey, PublishQueue, RemoveBegin
<1>16. CASE ShutdownBegin \/ ShutdownStep
  BY <1>16, <1>0 DEF ShutdownBegin, ShutdownStep, ShutdownSignal, ShutdownRange, ShutdownWait,
     ShutdownCleanups, ShutdownDrain, DrainOne, ShutdownFinish
<1>17. CASE Quiescent BY <1>17, <1>3 DEF Quiescent
<1> QED
  BY <1>3, <1>4, <1>5, <1>6, <1>7, <1>8, <1>9, <1>10, <1>11, <1>12, <1>13, <1>14, <1>15,
     <1>16, <1>17 DEF Next, WorkerStep, AdminStep

\* How the queues change: not at all, with empty queues swept; by one message
\* taken; by a caller's deposit; by UpdateProvider's transfer.
LEMMA QueueCases ==
  ASSUME TypeOK, LockInv, [Next]_vars
  PROVE  \/ /\ UNCHANGED <<queue, late>>
            /\ \A g \in swept' : g \in swept \/ queue[g] = <<>>
         \/ /\ UNCHANGED <<swept, late>>
            /\ \E g \in Gens : queue[g] # <<>> /\ queue' = [queue EXCEPT ![g] = Tail(@)]
         \/ \E r \in Requests : Enqueue(r)
         \/ \E a \in Admins : TransferPut(a)
<1> DEFINE Same == UNCHANGED <<queue, late>> /\ \A g \in swept' : g \in swept \/ queue[g] = <<>>
           Took == /\ UNCHANGED <<swept, late>>
                   /\ \E g \in Gens : queue[g] # <<>> /\ queue' = [queue EXCEPT ![g] = Tail(@)]
<1> USE DEF genVars, histVars
<1>0. ngen \in 0..MaxGen BY DEF TypeOK, TypeGen
<1>1. CASE UNCHANGED vars BY <1>1 DEF vars
<1>2. ASSUME NEW r \in Requests, RequestStep(r) \/ Cancel(r), ~Enqueue(r) PROVE Same
  BY <1>2 DEF RequestStep, Cancel, GetProviderQueue, CreateProviderQueue, PublishQueue,
     PrepareForRequest, PrepareOK, ShortCircuit, GetChannelMessage, Reroute, NoReroute,
     CheckCandidate, SeeDone, GiveUpSend, QueueFull, Recheck, Receive, LeaveOnCtx, Fail
<1>3. ASSUME NEW g \in Gens, NEW w \in Workers, WorkerTake(g, w) \/ WorkerDrain(g, w) PROVE Took
  BY <1>3 DEF WorkerTake, WorkerDrain, DrainOne
<1>4. ASSUME NEW g \in Gens, NEW w \in Workers, \/ KeyError(g, w) \/ Deliver(g, w) \/ Abandon(g, w)
                                               \/ WorkerSeesDone(g, w) \/ WorkerExit(g, w)
      PROVE  Same
  BY <1>4 DEF KeyError, Deliver, Abandon, WorkerSeesDone, WorkerExit
<1>5. ASSUME NEW g \in Gens, CleanupWait(g) \/ CleanupFinish(g) PROVE Same
  BY <1>5 DEF CleanupWait, CleanupFinish
<1>6. ASSUME NEW g \in Gens, CleanupDrain(g) PROVE Took BY <1>6 DEF CleanupDrain, DrainOne
<1>7. ASSUME NEW a \in Admins, TransferTake(a) \/ CancelRest(a) PROVE Took
  <2>1. old[a] \in Gens
    BY <1>0, <1>7 DEF TransferTake, CancelRest, LockInv, ReplacePcs, Gens
  <2> QED BY <1>7, <2>1 DEF TransferTake, CancelRest, DrainOne
<1>8. ASSUME NEW a \in Admins, RemoveDrain(a) PROVE Took
  <2>1. old[a] \in Gens BY <1>0, <1>8 DEF RemoveDrain, LockInv, RemovePcs, Gens
  <2> QED BY <1>8, <2>1 DEF RemoveDrain, DrainOne
<1>9. ASSUME NEW a \in Admins, UpdateStep(a), ~TransferTake(a), ~TransferPut(a), ~CancelRest(a)
      PROVE  Same
  BY <1>9 DEF UpdateStep, UpdatePrepare, PublishQueue, UpdateConstructFails, UpdatePublish,
     TransferFull, TransferDone, RetireOld, PrepareForAdmin, PrepareOK
<1>10. ASSUME NEW a \in Admins, RemoveStep(a) \/ AdminBegin(a), ~RemoveDrain(a) PROVE Same
  BY <1>10 DEF RemoveStep, RemoveWait, RemoveDrained, RemoveFinish,
     AdminBegin, UpdateBegin, GetProviderByKey, PublishQueue, RemoveBegin
<1>11. CASE ShutdownDrain
  <2>1. sgen \in Gens BY <1>11 DEF ShutdownDrain, TypeOK, TypeShut, Gens
  <2> QED BY <1>11, <2>1 DEF ShutdownDrain, DrainOne
<1>12. ASSUME ShutdownBegin \/ ShutdownStep, ~ShutdownDrain PROVE Same
  BY <1>12 DEF ShutdownBegin, ShutdownStep, ShutdownSignal, ShutdownRange, ShutdownWait,
     ShutdownCleanups, ShutdownFinish
<1>13. CASE Quiescent BY <1>13, <1>1 DEF Quiescent
<1> QED
  BY <1>1, <1>2, <1>3, <1>4, <1>5, <1>6, <1>7, <1>8, <1>9, <1>10, <1>11, <1>12, <1>13
     DEF Next, WorkerStep, CleanupStep, AdminStep, RemoveStep

LEMMA LateStep ==
  ASSUME IndInv, ShutInv, SweepInv, SweptLate, [Next]_vars
  PROVE  SweptLate'
<1> USE DEF IndInv
<1>0. queue \in [Gens -> Seq(Slots)] /\ swept \subseteq Gens /\ ngen \in 0..MaxGen
  BY DEF TypeOK, TypeGen, TypeHist
<1>1. CASE UNCHANGED <<queue, late>> /\ \A g \in swept' : g \in swept \/ queue[g] = <<>>
  BY <1>1 DEF SweptLate
<1>2. CASE /\ UNCHANGED <<swept, late>>
           /\ \E g \in Gens : queue[g] # <<>> /\ queue' = [queue EXCEPT ![g] = Tail(@)]
  <2>1. PICK g \in Gens : queue[g] # <<>> /\ queue' = [queue EXCEPT ![g] = Tail(@)] BY <1>2
  <2>2. queue[g] \in Seq(Slots) BY <1>0
  <2>3. /\ queue'[g] = Tail(queue[g]) /\ \A h \in Gens : h # g => queue'[h] = queue[h]
        /\ \A i \in 1..Len(Tail(queue[g])) :
             i + 1 \in 1..Len(queue[g]) /\ Tail(queue[g])[i] = queue[g][i + 1]
    BY <1>0, <2>1, <2>2, HeadTail
  <2> QED BY <1>0, <1>2, <2>3 DEF SweptLate
<1>3. ASSUME NEW r \in Requests, Enqueue(r) PROVE SweptLate'
  <2>1. pc[r] \in HoldPcs BY <1>3 DEF Enqueue, HoldPcs
  <2>2. slot[r] \in Slots /\ pq[r] \in Gens /\ ~InQueue(slot[r])
    BY <1>0, <2>1 DEF HoldInv, Gens, Places, MsgInv, HeldNowhere, Outstanding
  <2>3. queue[pq[r]] \in Seq(Slots) BY <1>0, <2>2
  <2>4. /\ queue'[pq[r]] = Append(queue[pq[r]], slot[r])
        /\ \A h \in Gens : h # pq[r] => queue'[h] = queue[h]
    BY <1>0, <1>3, <2>2 DEF Enqueue
  <2>5. /\ Len(queue'[pq[r]]) = Len(queue[pq[r]]) + 1 /\ Len(queue[pq[r]]) \in Nat
        /\ queue'[pq[r]][Len(queue[pq[r]]) + 1] = slot[r]
        /\ \A i \in 1..Len(queue[pq[r]]) : queue'[pq[r]][i] = queue[pq[r]][i]
    BY <2>2, <2>3, <2>4, AppendElements
  <2>6. swept' = swept /\ late' = IF pq[r] \in swept THEN late \cup {slot[r]} ELSE late \ {slot[r]}
    BY <1>3 DEF Enqueue
  <2>7. \A h \in swept : \A i \in 1..Len(queue[h]) : queue[h][i] # slot[r] /\ queue[h][i] \in late'
    BY <1>0, <2>2, <2>6 DEF SweptLate, InQueue
  <2>8. ASSUME NEW h \in swept, NEW i \in 1..Len(queue'[h]) PROVE queue'[h][i] \in late'
    <3>1. CASE h # pq[r] BY <1>0, <2>4, <2>7, <2>8, <3>1
    <3>2. CASE h = pq[r] /\ i = Len(queue[pq[r]]) + 1 BY <2>5, <2>6, <2>8, <3>2
    <3>3. CASE h = pq[r] /\ i # Len(queue[pq[r]]) + 1
      <4>1. i \in 1..Len(queue[h]) BY <2>5, <2>8, <3>3
      <4> QED BY <2>5, <2>7, <2>8, <3>3, <4>1
    <3> QED BY <3>1, <3>2, <3>3
  <2> QED BY <2>6, <2>8 DEF SweptLate
<1>4. ASSUME NEW a \in Admins, TransferPut(a) PROVE SweptLate'
  <2>1. /\ apc[a] = "put" /\ queue' = [queue EXCEPT ![requestQueues] = Append(@, hand[a])]
        /\ UNCHANGED <<swept, late>>
    BY <1>4 DEF TransferPut, histVars
  <2>2. spc = "idle" BY <2>1 DEF ShutInv, NoUpdates, UpdatePcs
  <2>3. lock = a BY <2>1 DEF LockInv, LockPcs, UpdatePcs
  <2>4. \A b \in Admins : apc[b] # "rretired"
    BY <2>1, <2>3 DEF LockInv, LockPcs, RemovePcs
  <2>5. requestQueues \notin swept BY <2>2, <2>4 DEF SweepInv, SweptLast
  <2>6. \A h \in swept : queue'[h] = queue[h] BY <1>0, <2>1, <2>5
  <2>7. \A h \in swept : \A i \in 1..Len(queue'[h]) : queue'[h][i] \in late
    <3> SUFFICES ASSUME NEW h \in swept, NEW i \in 1..Len(queue'[h]) PROVE queue'[h][i] \in late
      OBVIOUS
    <3>1. queue'[h] = queue[h] BY <2>6
    <3> QED BY <3>1 DEF SweptLate
  <2> QED BY <2>1, <2>7 DEF SweptLate
<1> QED BY <1>1, <1>2, <1>3, <1>4, QueueCases

\* Of the queues whose workers ran, only what was deposited after the sweep is
\* ever left behind.
THEOREM SweepInvariance == Spec => [](SweepInv /\ DrainedClosed /\ SweptLate)
<1>1. Init => SweepInv /\ DrainedClosed /\ SweptLate
  BY DEF Init, InitState, SweepInv, ClosedKnown, CleanupKnown, WillSweep, RemovalSwept, SweptLast,
     DrainedClosed, SweptLate
<1>2. IndInv /\ IndInv' /\ WorkInv /\ ShutInv /\ SweepInv /\ DrainedClosed /\ SweptLate
      /\ [Next]_vars => (SweepInv /\ DrainedClosed /\ SweptLate)'
  BY SweepStep, DrainedStep, LateStep DEF IndInv
<1> QED BY <1>1, <1>2, Invariance, WorkersWaitedFor, ShutdownTracks, PTL DEF Spec

\* drainQueueWithErrors' residual window is the only one: a message left in a
\* queue that nobody serves any more, and whose workers ran, was deposited
\* after the final sweep.
THEOREM OnlyResidualWindow == Spec => []ResidualWindowOnly
<1>1. TypeOK /\ SweepInv /\ DrainedClosed /\ SweptLate => ResidualWindowOnly
  <2> SUFFICES ASSUME TypeOK, SweepInv, DrainedClosed, SweptLate,
                      NEW g \in Gens, Unserved(g), ~Unprepared(g)
               PROVE  g \in swept
    BY DEF ResidualWindowOnly, SweptLate
  <2>1. PICK w \in Workers : wst[<<g, w>>] # "unborn" BY DEF Unprepared
  <2>2. wst[<<g, w>>] \in WorkerStates BY DEF TypeOK, TypeWork
  <2>3. w \notin Alive(g) BY DEF Unserved
  <2>4. wst[<<g, w>>] = "exited" BY <2>1, <2>2, <2>3 DEF Alive, WorkerStates
  <2>5. g \in closing /\ Born(g) BY <2>4 DEF DrainedClosed, Born
  <2>6. ~Sweeper(g)
    BY DEF Unserved, Sweeper
  <2> QED BY <2>5, <2>6 DEF SweepInv, WillSweep
<1>2. IndInv => TypeOK BY DEF IndInv
<1> QED BY <1>1, <1>2, Invariance, SweepInvariance, PTL

(***************************************************************************)
(* What a step may do to a message: one that is somewhere stays somewhere, *)
(* or is answered, or its caller's context is done; only a caller that     *)
(* holds a message brings it out; only a message that is somewhere is      *)
(* answered; an answer stays until the message changes hands.              *)
(***************************************************************************)
Effects ==
  \A s \in Slots :
    /\ Outstanding(s) => Outstanding(s)' \/ reply'[s] # {} \/ owner[s] \in ctxDone
    /\ Outstanding(s)' => Outstanding(s) \/ \E r \in Requests : pc[r] \in HoldPcs /\ slot[r] = s
    /\ reply'[s] # {} => reply[s] # {} \/ Outstanding(s)
    /\ reply[s] # {} => reply'[s] # {} \/ owner'[s] # owner[s]

\* At most one message moves, which is somewhere.
LEMMA OneMoves ==
  ASSUME TypeOK, NEW m \in Slots, Outstanding(m), UNCHANGED owner,
         \A s \in Slots : s # m => (Outstanding(s)' <=> Outstanding(s)),
         \/ UNCHANGED reply /\ (Outstanding(m)' \/ owner[m] \in ctxDone)
         \/ \E v : reply' = [reply EXCEPT ![m] = @ \cup {v}]
  PROVE  Effects
<1>1. \A s \in Slots : s # m => reply'[s] = reply[s] BY DEF TypeOK, TypeChan
<1>2. \/ UNCHANGED reply /\ (Outstanding(m)' \/ owner[m] \in ctxDone)
      \/ reply'[m] # {}
  BY DEF TypeOK, TypeChan
<1> QED BY <1>1, <1>2 DEF Effects

\* No message moves.
LEMMA NoneMoves ==
  ASSUME UNCHANGED <<queue, hand, reply>>,
         \A x \in Gens \X Workers : /\ wst'[x] = "busy" <=> wst[x] = "busy"
                                    /\ wst[x] = "busy" => wmsg'[x] = wmsg[x]
  PROVE  Effects
<1>1. \A s : InQueue(s)' <=> InQueue(s) BY DEF InQueue
<1>2. \A s : InHand(s)' <=> InHand(s) BY DEF InHand
<1>3. \A s : AtWorker(s)' <=> AtWorker(s) BY DEF AtWorker
<1> QED BY <1>1, <1>2, <1>3 DEF Effects, Outstanding

\* A caller gives its message back.
LEMMA ReleaseEffects ==
  ASSUME TypeOK, HoldInv, NEW r \in Requests, pc[r] \in HoldPcs \cup {"wait"}, Release(r),
         UNCHANGED <<queue, hand, wst, wmsg>>
  PROVE  Effects
<1>1. slot[r] \in Slots /\ owner[slot[r]] = r BY DEF HoldInv
<1>2. \A s \in Slots : /\ owner'[s] = IF s = slot[r] THEN NoReq ELSE owner[s]
                       /\ reply'[s] = IF s = slot[r] THEN {} ELSE reply[s]
  BY <1>1 DEF Release, TypeOK, TypeChan
<1>3. \A s : Outstanding(s)' <=> Outstanding(s) BY DEF Outstanding, InQueue, InHand, AtWorker
<1>4. r # NoReq OBVIOUS
<1> QED BY <1>1, <1>2, <1>3, <1>4 DEF Effects

\* A caller gets a message from the pool.
LEMMA AcquireEffects ==
  ASSUME TypeOK, NEW r \in Requests, GetChannelMessage(r) PROVE Effects
<1>1. PICK s \in Slots : /\ owner[s] = NoReq /\ owner' = [owner EXCEPT ![s] = r]
                         /\ reply' = [reply EXCEPT ![s] = {}]
  BY DEF GetChannelMessage
<1>2. \A t \in Slots : /\ owner'[t] = IF t = s THEN r ELSE owner[t]
                       /\ reply'[t] = IF t = s THEN {} ELSE reply[t]
  BY <1>1 DEF TypeOK, TypeChan
<1>3. \A t : Outstanding(t)' <=> Outstanding(t)
  BY DEF GetChannelMessage, genVars, admVars, workVars, Outstanding, InQueue, InHand, AtWorker
<1>4. r # NoReq OBVIOUS
<1> QED BY <1>1, <1>2, <1>3, <1>4 DEF Effects

\* The head of a queue is taken: the other messages stay in the queues.
LEMMA OthersStay ==
  ASSUME TypeGen, NEW g \in Gens, queue[g] # <<>>, queue' = [queue EXCEPT ![g] = Tail(@)]
  PROVE  \A s : InQueue(s) => InQueue(s)' \/ s = Head(queue[g])
<1> SUFFICES ASSUME NEW s, InQueue(s), s # Head(queue[g]) PROVE InQueue(s)' OBVIOUS
<1>1. PICK h \in Gens : \E i \in 1..Len(queue[h]) : queue[h][i] = s BY DEF InQueue
<1>2. PICK i \in 1..Len(queue[h]) : queue[h][i] = s BY <1>1
<1>3. queue'[g] = Tail(queue[g]) /\ \A k \in Gens : k # g => queue'[k] = queue[k] BY DEF TypeGen
<1>4. CASE h # g BY <1>2, <1>3, <1>4 DEF InQueue
<1>5. CASE h = g
  <2>1. queue[g] \in Seq(Slots) BY DEF TypeGen
  <2>2. /\ Head(queue[g]) = queue[g][1] /\ Len(queue[g]) \in Nat
        /\ Len(Tail(queue[g])) = Len(queue[g]) - 1
        /\ \A k \in 1..Len(Tail(queue[g])) : Tail(queue[g])[k] = queue[g][k + 1]
    BY <2>1, HeadTail
  <2>3. i # 1 BY <1>2, <1>5, <2>2
  <2>4. i - 1 \in 1..Len(Tail(queue[g])) /\ i = (i - 1) + 1 BY <1>2, <1>5, <2>2, <2>3
  <2>5. queue'[g][i - 1] = s BY <1>2, <1>3, <1>5, <2>2, <2>4
  <2> QED BY <1>3, <2>4, <2>5 DEF InQueue
<1> QED BY <1>4, <1>5

\* A message is appended: the others stay.
LEMMA AppendStays ==
  ASSUME TypeGen, NEW g \in Gens, NEW x \in Slots, queue' = [queue EXCEPT ![g] = Append(@, x)]
  PROVE  InQueue(x)' /\ \A s : InQueue(s) => InQueue(s)'
<1>1. queue[g] \in Seq(Slots) BY DEF TypeGen
<1>2. queue'[g] = Append(queue[g], x) /\ \A k \in Gens : k # g => queue'[k] = queue[k] BY DEF TypeGen
<1>3. /\ Len(queue'[g]) = Len(queue[g]) + 1 /\ Len(queue[g]) \in Nat
      /\ queue'[g][Len(queue[g]) + 1] = x
      /\ \A i \in 1..Len(queue[g]) : queue'[g][i] = queue[g][i]
  BY <1>1, <1>2, AppendElements
<1>4. InQueue(x)'
  <2>1. Len(queue[g]) + 1 \in 1..Len(queue'[g]) BY <1>3
  <2> QED BY <1>3, <2>1 DEF InQueue
<1>5. ASSUME NEW s, InQueue(s) PROVE InQueue(s)'
  <2>1. PICK h \in Gens : \E i \in 1..Len(queue[h]) : queue[h][i] = s BY <1>5 DEF InQueue
  <2>2. PICK i \in 1..Len(queue[h]) : queue[h][i] = s BY <2>1
  <2>3. i \in 1..Len(queue'[h]) /\ queue'[h][i] = s BY <1>2, <1>3, <2>2
  <2> QED BY <2>3 DEF InQueue
<1> QED BY <1>4, <1>5

\* A drain loop.
LEMMA DrainEffects ==
  ASSUME IndInv, NEW g \in Gens, NEW why, DrainOne(g, why), UNCHANGED <<wst, wmsg, hand>>
  PROVE  Effects
<1> USE DEF IndInv
<1>0. PICK m : m = Head(queue[g]) OBVIOUS
<1>1. /\ queue[g] # <<>> /\ queue' = [queue EXCEPT ![g] = Tail(@)] /\ owner' = owner
      /\ (\/ UNCHANGED reply /\ owner[m] \in ctxDone
          \/ reply' = [reply EXCEPT ![m] = @ \cup {[req |-> owner[m], why |-> why]}])
  BY <1>0 DEF DrainOne, Send
<1>2. m \in Slots /\ InQueue(m) /\ \A s \in Slots : InQueue(s)' => InQueue(s) /\ s # m
  BY <1>0, <1>1, TakeHead DEF Places, OnePlace, TypeOK
<1>3. \A s : InQueue(s) => InQueue(s)' \/ s = m BY <1>0, <1>1, OthersStay DEF TypeOK
<1>4. \A s : (InHand(s)' <=> InHand(s)) /\ (AtWorker(s)' <=> AtWorker(s)) BY DEF InHand, AtWorker
<1>5. Outstanding(m) /\ \A s \in Slots : s # m => (Outstanding(s)' <=> Outstanding(s))
  BY <1>2, <1>3, <1>4 DEF Outstanding
<1> QED BY <1>1, <1>2, <1>5, OneMoves

\* A worker takes a message.
LEMMA TakeEffects ==
  ASSUME IndInv, NEW g \in Gens, NEW w \in Workers, WorkerTake(g, w) PROVE Effects
<1> USE DEF IndInv
<1> DEFINE x == <<g, w>>
<1>0. PICK m, v : m = Head(queue[g]) /\ v = [slot |-> m, req |-> owner[m]] OBVIOUS
<1>1. /\ UNCHANGED <<hand, owner, reply>> /\ queue[g] # <<>> /\ wst[x] = "idle"
      /\ queue' = [queue EXCEPT ![g] = Tail(@)] /\ x \in Gens \X Workers
      /\ wst' = [wst EXCEPT ![x] = "busy"] /\ wmsg' = [wmsg EXCEPT ![x] = v] /\ v.slot = m
  BY <1>0 DEF WorkerTake, chanVars, admVars
<1>2. m \in Slots /\ InQueue(m) /\ \A s \in Slots : InQueue(s)' => InQueue(s) /\ s # m
  BY <1>0, <1>1, TakeHead DEF Places, OnePlace, TypeOK
<1>3. \A s : InQueue(s) => InQueue(s)' \/ s = m BY <1>0, <1>1, OthersStay DEF TypeOK
<1> HIDE DEF x
<1>4. /\ wst'[x] = "busy" /\ wmsg'[x] = v
      /\ \A y \in Gens \X Workers : y # x => wst'[y] = wst[y] /\ wmsg'[y] = wmsg[y]
  BY <1>1 DEF TypeOK, TypeWork
<1>5. AtWorker(m)' /\ \A s : s # m => (AtWorker(s)' <=> AtWorker(s))
  BY <1>1, <1>4 DEF AtWorker
<1>6. \A s : InHand(s)' <=> InHand(s) BY <1>1 DEF InHand
<1>7. Outstanding(m) /\ Outstanding(m)' /\ \A s \in Slots : s # m => (Outstanding(s)' <=> Outstanding(s))
  BY <1>2, <1>3, <1>5, <1>6 DEF Outstanding
<1> QED BY <1>1, <1>2, <1>7, OneMoves

\* A worker is done with its message, answered or abandoned.
LEMMA IdleEffects ==
  ASSUME IndInv, NEW g \in Gens, NEW w \in Workers, NEW m, m = wmsg[<<g, w>>].slot,
         wst[<<g, w>>] = "busy", WorkerIdle(g, w), UNCHANGED <<queue, hand, owner>>,
         \/ UNCHANGED reply /\ wmsg[<<g, w>>].req \in ctxDone
         \/ \E v : Send(m, v)
  PROVE  /\ Effects /\ m \in Slots /\ owner[m] = wmsg[<<g, w>>].req
         /\ Outstanding(m) /\ ~Outstanding(m)'
<1> USE DEF IndInv
<1> DEFINE x == <<g, w>>
<1>1. x \in Gens \X Workers /\ wst[x] = "busy"
      /\ wst' = [wst EXCEPT ![x] = "idle"] /\ wmsg' = [wmsg EXCEPT ![x] = NoMsg]
  BY DEF WorkerIdle
<1>2. m \in Slots /\ owner[m] = wmsg[x].req /\ m = wmsg[x].slot
  BY <1>1 DEF Places, MsgInv, WorkerCarries
<1>3. \/ UNCHANGED reply /\ owner[m] \in ctxDone
      \/ \E v : reply' = [reply EXCEPT ![m] = @ \cup {v}]
  BY <1>2 DEF Send
<1> HIDE DEF x
<1>4. AtWorker(m) /\ \A s \in Slots : AtWorker(s)' => AtWorker(s) /\ s # m
  BY <1>1, <1>2, WorkerGivesUp, ZenonT(60) DEF Places, OnePlace, TypeOK
<1>5. \A y \in Gens \X Workers : y # x => wst'[y] = wst[y] /\ wmsg'[y] = wmsg[y]
  BY <1>1 DEF TypeOK, TypeWork
<1>6. \A s : AtWorker(s) => AtWorker(s)' \/ s = m BY <1>2, <1>5 DEF AtWorker
<1>7. \A s : (InQueue(s)' <=> InQueue(s)) /\ (InHand(s)' <=> InHand(s)) BY DEF InQueue, InHand
<1>8. Outstanding(m) /\ ~Outstanding(m)'
  BY <1>2, <1>4, <1>7 DEF Places, OnePlace, PlacesDisjoint, Outstanding
<1>9. \A s \in Slots : s # m => (Outstanding(s)' <=> Outstanding(s))
  BY <1>4, <1>6, <1>7 DEF Outstanding
<1>10. Effects BY <1>2, <1>3, <1>8, <1>9, OneMoves
<1> QED BY <1>2, <1>8, <1>10 DEF x

\* A caller enqueues its message.
LEMMA EnqueueEffects ==
  ASSUME IndInv, NEW r \in Requests, Enqueue(r) PROVE Effects
<1> USE DEF IndInv
<1>1. /\ UNCHANGED <<hand, wst, wmsg, owner, reply>> /\ pc[r] \in HoldPcs
      /\ queue' = [queue EXCEPT ![pq[r]] = Append(@, slot[r])]
  BY DEF Enqueue, HoldPcs, chanVars, admVars, workVars
<1>2. slot[r] \in Slots /\ pq[r] \in Gens /\ ~InQueue(slot[r])
  BY <1>1 DEF HoldInv, TypeOK, TypeGen, Gens, Places, MsgInv, HeldNowhere, Outstanding
<1>3. \A s \in Slots : InQueue(s)' => InQueue(s) \/ s = slot[r]
  BY <1>1, <1>2, PutLast DEF Places, OnePlace, TypeOK
<1>4. \A s : InQueue(s) => InQueue(s)' BY <1>1, <1>2, AppendStays DEF TypeOK
<1>5. \A s : (InHand(s)' <=> InHand(s)) /\ (AtWorker(s)' <=> AtWorker(s))
  BY <1>1 DEF InHand, AtWorker
<1>6. \A s \in Slots : /\ Outstanding(s) => Outstanding(s)'
                       /\ Outstanding(s)' => Outstanding(s) \/ s = slot[r]
  BY <1>3, <1>4, <1>5 DEF Outstanding
<1> QED BY <1>1, <1>6 DEF Effects

\* UpdateProvider takes a message.
LEMMA TransferTakeEffects ==
  ASSUME IndInv, NEW a \in Admins, TransferTake(a) PROVE Effects
<1> USE DEF IndInv
<1>0. PICK m : m = Head(queue[old[a]]) OBVIOUS
<1>1. /\ queue[old[a]] # <<>> /\ queue' = [queue EXCEPT ![old[a]] = Tail(@)]
      /\ UNCHANGED <<wst, wmsg, owner, reply>> /\ hand' = [hand EXCEPT ![a] = m]
      /\ apc[a] = "transfer"
  BY <1>0 DEF TransferTake, chanVars, workVars
<1>2. old[a] \in Gens BY <1>1 DEF LockInv, ReplacePcs, TypeOK, TypeGen, Gens
<1>3. m \in Slots /\ InQueue(m) /\ \A s \in Slots : InQueue(s)' => InQueue(s) /\ s # m
  BY <1>0, <1>1, <1>2, TakeHead DEF Places, OnePlace, TypeOK
<1>4. \A s : InQueue(s) => InQueue(s)' \/ s = m BY <1>0, <1>1, <1>2, OthersStay DEF TypeOK
<1>5. \A s : AtWorker(s)' <=> AtWorker(s) BY <1>1 DEF AtWorker
<1>6. hand[a] = NoSlot BY <1>1 DEF HoldInv
<1>7. \A b \in Admins : hand'[b] = IF b = a THEN m ELSE hand[b] BY <1>1 DEF TypeOK, TypeAdm
<1>8. InHand(m)' /\ \A s \in Slots : s # m => (InHand(s)' <=> InHand(s))
  BY <1>6, <1>7 DEF InHand
<1>9. Outstanding(m) /\ Outstanding(m)' /\ \A s \in Slots : s # m => (Outstanding(s)' <=> Outstanding(s))
  BY <1>3, <1>4, <1>5, <1>8 DEF Outstanding
<1> QED BY <1>1, <1>3, <1>9, OneMoves

\* UpdateProvider places the message it has in hand, or answers it.
LEMMA TransferEffects ==
  ASSUME IndInv, NEW a \in Admins, TransferPut(a) \/ TransferFull(a) PROVE Effects
<1> USE DEF IndInv
<1>0. PICK m : m = hand[a] OBVIOUS
<1>1. /\ apc[a] = "put" /\ hand' = [hand EXCEPT ![a] = NoSlot] /\ UNCHANGED <<wst, wmsg, owner>>
  BY <1>0 DEF TransferPut, TransferFull, chanVars, workVars
<1>2. m \in Slots /\ InHand(m)
  BY <1>0, <1>1 DEF HoldInv, TypeOK, TypeAdm, InHand
<1>3. \A b \in Admins : hand'[b] = IF b = a THEN NoSlot ELSE hand[b] BY <1>1 DEF TypeOK, TypeAdm
<1>4. \A s \in Slots : s # m => (InHand(s)' <=> InHand(s)) BY <1>0, <1>3 DEF InHand
<1>5. \A s : AtWorker(s)' <=> AtWorker(s) BY <1>1 DEF AtWorker
<1>6. CASE TransferPut(a)
  <2>1. UNCHANGED reply /\ queue' = [queue EXCEPT ![requestQueues] = Append(@, m)]
    BY <1>0, <1>6 DEF TransferPut, chanVars
  <2>2. requestQueues \in Gens
    BY <1>1 DEF LockInv, LockPcs, UpdatePcs, TypeOK, TypeGen, Gens
  <2>3. ~InQueue(m) BY <1>2 DEF Places, OnePlace, PlacesDisjoint
  <2>4. \A s \in Slots : InQueue(s)' => InQueue(s) \/ s = m
    BY <1>2, <2>1, <2>2, <2>3, PutLast DEF Places, OnePlace, TypeOK
  <2>5. InQueue(m)' /\ \A s : InQueue(s) => InQueue(s)'
    BY <1>2, <2>1, <2>2, AppendStays DEF TypeOK
  <2>6. Outstanding(m) /\ Outstanding(m)'
        /\ \A s \in Slots : s # m => (Outstanding(s)' <=> Outstanding(s))
    BY <1>2, <1>4, <1>5, <2>4, <2>5 DEF Outstanding
  <2> QED BY <1>1, <1>2, <2>1, <2>6, OneMoves
<1>7. CASE TransferFull(a)
  <2>1. /\ UNCHANGED queue
        /\ (\/ UNCHANGED reply /\ owner[m] \in ctxDone
            \/ reply' = [reply EXCEPT ![m] = @ \cup {[req |-> owner[m], why |-> "full"]}])
    BY <1>0, <1>7 DEF TransferFull, Send, genVars
  <2>2. \A s : InQueue(s)' <=> InQueue(s) BY <2>1 DEF InQueue
  <2>3. Outstanding(m) /\ \A s \in Slots : s # m => (Outstanding(s)' <=> Outstanding(s))
    BY <1>2, <1>4, <1>5, <2>2 DEF Outstanding
  <2> QED BY <1>1, <1>2, <2>1, <2>3, OneMoves
<1> QED BY <1>6, <1>7

LEMMA EffectsStep == ASSUME IndInv, WorkInv, [Next]_vars PROVE Effects
<1> USE DEF IndInv, genVars, workVars, reqVars, chanVars, admVars
<1>t. wst \in [Gens \X Workers -> WorkerStates] /\ ngen \in 0..MaxGen BY DEF TypeOK, TypeWork, TypeGen
<1>0. ASSUME UNCHANGED <<queue, hand, reply, wst, wmsg>> PROVE Effects BY <1>0, NoneMoves
<1>s. ASSUME NEW h \in Gens, ~Born(h), StartWorkers(h), UNCHANGED <<queue, hand, reply, wmsg>>
      PROVE  Effects
  <2>1. \A x \in Gens \X Workers : wst'[x] = IF x[1] = h THEN "idle" ELSE wst[x]
    BY <1>t, <1>s DEF StartWorkers
  <2>2. \A x \in Gens \X Workers : x[1] = h => wst[x] = "unborn"
    BY <1>s DEF Born
  <2> QED BY <1>s, <2>1, <2>2, NoneMoves
<1>p. ASSUME PrepareOK, Preparing, UNCHANGED <<hand, reply>> PROVE Effects
  <2>1. requestQueues \in Gens
    BY <1>p DEF Preparing, LockInv, LockPcs, UpdatePcs, TypeOK, TypeGen, Gens
  <2>2. ~Born(requestQueues) BY <1>p, <2>1 DEF WorkInv, PreparedOnce
  <2> QED BY <1>p, <1>s, <2>1, <2>2 DEF PrepareOK
<1>f. ASSUME NEW r \in Requests, NEW what, pc[r] \in HoldPcs, Fail(r, what) PROVE Effects
  BY <1>f, ReleaseEffects DEF Fail
<1>1. CASE UNCHANGED vars BY <1>1, <1>0 DEF vars
<1>2. ASSUME NEW r \in Requests, \/ Cancel(r) \/ GetProviderQueue(r) \/ CreateProviderQueue(r)
                                 \/ ShortCircuit(r) \/ Reroute(r) \/ LeaveOnCtx(r)
      PROVE  Effects
  BY <1>2, <1>0 DEF Cancel, GetProviderQueue, CreateProviderQueue, PublishQueue, ShortCircuit,
     Reroute, LeaveOnCtx
<1>3. ASSUME NEW r \in Requests, PrepareForRequest(r) PROVE Effects
  BY <1>3, <1>0, <1>p DEF PrepareForRequest, Preparing
<1>4. ASSUME NEW r \in Requests, GetChannelMessage(r) PROVE Effects BY <1>4, AcquireEffects
<1>5. ASSUME NEW r \in Requests, \/ NoReroute(r) \/ CheckCandidate(r) \/ SeeDone(r)
                                 \/ GiveUpSend(r) \/ QueueFull(r) \/ Recheck(r)
      PROVE  Effects
  <2>1. pc[r] \in HoldPcs
    BY <1>5 DEF NoReroute, CheckCandidate, SeeDone, GiveUpSend, QueueFull, Recheck, HoldPcs
  <2>2. \/ \E what : Fail(r, what)
        \/ UNCHANGED <<queue, hand, reply, wst, wmsg>>
    BY <1>5 DEF NoReroute, CheckCandidate, SeeDone, GiveUpSend, QueueFull, Recheck
  <2> QED BY <2>1, <2>2, <1>0, <1>f
<1>6. ASSUME NEW r \in Requests, Enqueue(r) PROVE Effects BY <1>6, EnqueueEffects
<1>7. ASSUME NEW r \in Requests, Receive(r) PROVE Effects BY <1>7, ReleaseEffects DEF Receive
<1>8. ASSUME NEW g \in Gens, NEW w \in Workers, WorkerTake(g, w) PROVE Effects BY <1>8, TakeEffects
<1>9. ASSUME NEW g \in Gens, NEW w \in Workers, KeyError(g, w) \/ Deliver(g, w) \/ Abandon(g, w)
      PROVE  Effects
  <2>1. PICK m : m = wmsg[<<g, w>>].slot OBVIOUS
  <2>2. /\ wst[<<g, w>>] = "busy" /\ WorkerIdle(g, w) /\ UNCHANGED <<queue, hand, owner>>
        /\ \/ UNCHANGED reply /\ wmsg[<<g, w>>].req \in ctxDone
           \/ \E v : Send(m, v)
    BY <1>9, <2>1 DEF KeyError, Deliver, Abandon
  <2> QED BY <2>1, <2>2, IdleEffects
<1>10. ASSUME NEW g \in Gens, NEW w \in Workers, WorkerSeesDone(g, w) \/ WorkerExit(g, w) PROVE Effects
  <2>1. \E to : to # "busy" /\ wst' = [wst EXCEPT ![<<g, w>>] = to]
    BY <1>10 DEF WorkerSeesDone, WorkerExit
  <2>2. wst[<<g, w>>] # "busy" /\ UNCHANGED <<queue, hand, reply, wmsg>>
    BY <1>10 DEF WorkerSeesDone, WorkerExit
  <2>3. \A x \in Gens \X Workers : wst'[x] = "busy" <=> wst[x] = "busy" BY <1>t, <2>1, <2>2
  <2> QED BY <2>2, <2>3, NoneMoves
<1>11. ASSUME NEW g \in Gens, NEW w \in Workers, WorkerDrain(g, w) PROVE Effects
  BY <1>11, DrainEffects DEF WorkerDrain
<1>12. ASSUME NEW g \in Gens, CleanupDrain(g) PROVE Effects BY <1>12, DrainEffects DEF CleanupDrain
<1>13. ASSUME NEW g \in Gens, CleanupWait(g) \/ CleanupFinish(g) PROVE Effects
  BY <1>13, <1>0 DEF CleanupWait, CleanupFinish
<1>14. ASSUME NEW a \in Admins, TransferTake(a) PROVE Effects BY <1>14, TransferTakeEffects
<1>15. ASSUME NEW a \in Admins, TransferPut(a) \/ TransferFull(a) PROVE Effects
  BY <1>15, TransferEffects
<1>16. ASSUME NEW a \in Admins, CancelRest(a) PROVE Effects
  <2>1. old[a] \in Gens BY <1>t, <1>16 DEF CancelRest, LockInv, ReplacePcs, Gens
  <2> QED BY <1>16, <2>1, DrainEffects DEF CancelRest
<1>17. ASSUME NEW a \in Admins, RemoveDrain(a) PROVE Effects
  <2>1. old[a] \in Gens BY <1>t, <1>17 DEF RemoveDrain, LockInv, RemovePcs, Gens
  <2> QED BY <1>17, <2>1, DrainEffects DEF RemoveDrain
<1>18. ASSUME NEW a \in Admins, UpdatePublish(a) PROVE Effects
  <2>1. /\ ngen + 1 \in Gens /\ StartWorkers(ngen + 1) /\ UNCHANGED <<queue, hand, reply, wmsg>>
    BY <1>t, <1>18 DEF UpdatePublish, Gens
  <2>2. ~Born(ngen + 1) BY <1>t, <2>1 DEF WorkInv, BornBounded
  <2> QED BY <1>s, <2>1, <2>2
<1>19. ASSUME NEW a \in Admins, PrepareForAdmin(a) PROVE Effects
  BY <1>19, <1>0, <1>p DEF PrepareForAdmin, Preparing
<1>20. ASSUME NEW a \in Admins,
              \/ UpdatePrepare(a) \/ UpdateConstructFails(a) \/ TransferDone(a) \/ RetireOld(a)
              \/ RemoveWait(a) \/ RemoveDrained(a) \/ RemoveFinish(a) \/ AdminBegin(a)
       PROVE  Effects
  BY <1>20, <1>0 DEF UpdatePrepare, UpdateConstructFails, TransferDone, RetireOld, RemoveWait,
     RemoveDrained, RemoveFinish, AdminBegin, UpdateBegin, GetProviderByKey, PublishQueue, RemoveBegin
<1>21. CASE ShutdownDrain
  <2>1. sgen \in Gens BY <1>21 DEF ShutdownDrain, TypeOK, TypeShut, Gens
  <2> QED BY <1>21, <2>1, DrainEffects DEF ShutdownDrain
<1>22. ASSUME ShutdownBegin \/ ShutdownStep, ~ShutdownDrain PROVE Effects
  BY <1>22, <1>0 DEF ShutdownBegin, ShutdownStep, ShutdownSignal, ShutdownRange, ShutdownWait,
     ShutdownCleanups, ShutdownFinish
<1>23. CASE Quiescent BY <1>23, <1>1 DEF Quiescent
<1> QED
  BY <1>1, <1>2, <1>3, <1>4, <1>5, <1>6, <1>7, <1>8, <1>9, <1>10, <1>11, <1>12, <1>13, <1>14,
     <1>15, <1>16, <1>17, <1>18, <1>19, <1>20, <1>21, <1>22, <1>23
     DEF Next, RequestStep, WorkerStep, CleanupStep, AdminStep, UpdateStep, RemoveStep

(***************************************************************************)
(* Who holds a message.                                                    *)
(***************************************************************************)
EarlyPcs == {"lookup", "create", "prepare", "hooks"}

\* A message out of the pool is held by the request it carries and by no
\* other; a request that has not come to the queue holds none.
OwnInv ==
  /\ \A s \in Slots : owner[s] # NoReq => slot[owner[s]] = s
  /\ \A r \in Requests : slot[r] # NoSlot => owner[slot[r]] = r
  /\ \A r \in Requests : pc[r] \in EarlyPcs => slot[r] = NoSlot

\* The places in tryRequest a step may reach.
PcMoves ==
  \A q \in Requests :
    /\ pc'[q] \in EarlyPcs => pc[q] \in EarlyPcs
    /\ pc'[q] = "wait" => pc[q] = "wait" \/ Enqueue(q)
    /\ pc[q] \in {"wait", "done"} => pc'[q] \in {"wait", "done"}

\* A caller keeps its message, gives it back, or gets one.
HolderMoves ==
  \/ UNCHANGED <<owner, slot>>
  \/ \E r \in Requests : pc[r] \in HoldPcs \cup {"wait"} /\ Release(r)
  \/ \E r \in Requests : GetChannelMessage(r)

LEMMA CallerMoves == ASSUME TypeOK, [Next]_vars PROVE PcMoves /\ HolderMoves
<1> USE DEF reqVars, chanVars
<1>t. pc \in [Requests -> ReqPcs] BY DEF TypeOK, TypeReq
<1>0. ASSUME UNCHANGED <<pc, owner, slot>> PROVE PcMoves /\ HolderMoves
  BY <1>0 DEF PcMoves, HolderMoves
<1>m. ASSUME NEW r \in Requests, NEW l, pc' = [pc EXCEPT ![r] = l],
             pc[r] \notin {"wait", "done"} \/ l = "done",
             l \in EarlyPcs => pc[r] \in EarlyPcs, l = "wait" => Enqueue(r)
      PROVE  PcMoves
  <2>1. \A q \in Requests : pc'[q] = IF q = r THEN l ELSE pc[q] BY <1>t, <1>m
  <2> QED BY <1>m, <2>1 DEF PcMoves
<1>1. CASE UNCHANGED vars BY <1>1, <1>0 DEF vars
<1>2. ASSUME NEW r \in Requests, Cancel(r) PROVE PcMoves /\ HolderMoves BY <1>2, <1>0 DEF Cancel
<1>3. ASSUME NEW r \in Requests, GetProviderQueue(r) \/ CreateProviderQueue(r) \/ PrepareForRequest(r)
      PROVE  PcMoves /\ HolderMoves
  <2>1. PICK l \in {"hooks", "create", "done", "prepare"} : pc' = [pc EXCEPT ![r] = l]
    BY <1>3 DEF GetProviderQueue, CreateProviderQueue, PrepareForRequest, Goto, Return
  <2>2. pc[r] \in EarlyPcs /\ pc[r] \notin {"wait", "done"} /\ UNCHANGED <<owner, slot>>
    BY <1>3 DEF GetProviderQueue, CreateProviderQueue, PrepareForRequest, EarlyPcs
  <2> QED BY <2>1, <2>2, <1>m DEF HolderMoves
<1>4. ASSUME NEW r \in Requests, ShortCircuit(r) \/ LeaveOnCtx(r) PROVE PcMoves /\ HolderMoves
  <2>1. pc' = [pc EXCEPT ![r] = "done"] /\ UNCHANGED <<owner, slot>>
    BY <1>4 DEF ShortCircuit, LeaveOnCtx, Return
  <2> QED BY <2>1, <1>m DEF HolderMoves, EarlyPcs
<1>5. ASSUME NEW r \in Requests, GetChannelMessage(r) PROVE PcMoves /\ HolderMoves
  <2>1. PICK l \in {"reroute", "send"} : pc' = [pc EXCEPT ![r] = l]
    BY <1>5 DEF GetChannelMessage, Goto
  <2>2. pc[r] = "hooks" BY <1>5 DEF GetChannelMessage
  <2> QED BY <1>5, <2>1, <2>2, <1>m DEF HolderMoves, EarlyPcs
<1>6. ASSUME NEW r \in Requests, Reroute(r) PROVE PcMoves /\ HolderMoves
  BY <1>6, <1>m DEF Reroute, Goto, HolderMoves, EarlyPcs
<1>7. ASSUME NEW r \in Requests, \/ NoReroute(r) \/ CheckCandidate(r) \/ SeeDone(r)
                                 \/ GiveUpSend(r) \/ QueueFull(r) \/ Recheck(r)
      PROVE  PcMoves /\ HolderMoves
  <2>1. pc[r] \in HoldPcs
    BY <1>7 DEF NoReroute, CheckCandidate, SeeDone, GiveUpSend, QueueFull, Recheck, HoldPcs
  <2>2. \/ pc' = [pc EXCEPT ![r] = "done"] /\ Release(r)
        \/ \E l \in {"send", "recheck", "block"} :
             pc' = [pc EXCEPT ![r] = l] /\ UNCHANGED <<owner, slot>>
    BY <1>7 DEF NoReroute, CheckCandidate, SeeDone, GiveUpSend, QueueFull, Recheck, Fail, Return, Goto
  <2>3. pc[r] \notin {"wait", "done"} BY <2>1 DEF HoldPcs
  <2>4. PcMoves BY <2>2, <2>3, <1>m DEF EarlyPcs
  <2> QED BY <2>1, <2>2, <2>4 DEF HolderMoves
<1>8. ASSUME NEW r \in Requests, Enqueue(r) PROVE PcMoves /\ HolderMoves
  <2>1. pc' = [pc EXCEPT ![r] = "wait"] /\ pc[r] \in {"send", "block"} /\ UNCHANGED <<owner, slot>>
    BY <1>8 DEF Enqueue, Goto
  <2> QED BY <1>8, <2>1, <1>m DEF HolderMoves, EarlyPcs
<1>9. ASSUME NEW r \in Requests, Receive(r) PROVE PcMoves /\ HolderMoves
  <2>1. pc' = [pc EXCEPT ![r] = "done"] /\ pc[r] = "wait" /\ Release(r) BY <1>9 DEF Receive, Return
  <2> QED BY <2>1, <1>m DEF HolderMoves, EarlyPcs
<1>10. ASSUME NEW g \in Gens, NEW w \in Workers, WorkerStep(g, w) PROVE PcMoves /\ HolderMoves
  BY <1>10, <1>0 DEF WorkerStep, WorkerTake, KeyError, Deliver, Abandon, WorkerSeesDone,
     WorkerDrain, WorkerExit, DrainOne
<1>11. ASSUME NEW g \in Gens, CleanupStep(g) PROVE PcMoves /\ HolderMoves
  BY <1>11, <1>0 DEF CleanupStep, CleanupWait, CleanupDrain, CleanupFinish, DrainOne
<1>12. ASSUME NEW a \in Admins, UpdateStep(a) PROVE PcMoves /\ HolderMoves
  BY <1>12, <1>0 DEF UpdateStep, UpdatePrepare, UpdateConstructFails, UpdatePublish, TransferTake,
     TransferPut, TransferFull, CancelRest, DrainOne, TransferDone, RetireOld, PrepareForAdmin
<1>13. ASSUME NEW a \in Admins, RemoveStep(a) \/ AdminBegin(a) PROVE PcMoves /\ HolderMoves
  BY <1>13, <1>0 DEF RemoveStep, RemoveWait, RemoveDrain, DrainOne, RemoveDrained, RemoveFinish,
     AdminBegin, UpdateBegin, GetProviderByKey, RemoveBegin
<1>14. CASE ShutdownBegin \/ ShutdownStep
  BY <1>14, <1>0 DEF ShutdownBegin, ShutdownStep, ShutdownSignal, ShutdownRange, ShutdownWait,
     ShutdownCleanups, ShutdownDrain, DrainOne, ShutdownFinish
<1>15. CASE Quiescent BY <1>15, <1>1 DEF Quiescent
<1> QED
  BY <1>1, <1>2, <1>3, <1>4, <1>5, <1>6, <1>7, <1>8, <1>9, <1>10, <1>11, <1>12, <1>13, <1>14,
     <1>15 DEF Next, RequestStep, AdminStep

LEMMA OwnStep == ASSUME TypeOK, HoldInv, OwnInv, [Next]_vars PROVE OwnInv'
<1>0. PcMoves /\ HolderMoves BY CallerMoves
<1>t. /\ owner \in [Slots -> Requests \cup {NoReq}] /\ slot \in [Requests -> Slots \cup {NoSlot}]
      /\ NoReq \notin Requests /\ NoSlot \notin Slots
  BY DEF TypeOK, TypeChan, TypeReq
<1>1. CASE UNCHANGED <<owner, slot>> BY <1>0, <1>1 DEF OwnInv, PcMoves
<1>2. ASSUME NEW r \in Requests, pc[r] \in HoldPcs \cup {"wait"}, Release(r) PROVE OwnInv'
  <2>1. slot[r] \in Slots /\ owner[slot[r]] = r BY <1>2 DEF HoldInv
  <2>2. \A s \in Slots : owner'[s] = IF s = slot[r] THEN NoReq ELSE owner[s]
    BY <1>2, <1>t DEF Release
  <2>3. \A q \in Requests : slot'[q] = IF q = r THEN NoSlot ELSE slot[q] BY <1>2, <1>t DEF Release
  <2>4. \A s \in Slots : owner'[s] # NoReq => slot'[owner'[s]] = s
    BY <1>t, <2>1, <2>2, <2>3 DEF OwnInv
  <2>5. \A q \in Requests : slot'[q] # NoSlot => owner'[slot'[q]] = q
    BY <1>t, <2>1, <2>2, <2>3 DEF OwnInv
  <2>6. \A q \in Requests : pc'[q] \in EarlyPcs => slot'[q] = NoSlot
    BY <1>0, <2>3 DEF OwnInv, PcMoves
  <2> QED BY <2>4, <2>5, <2>6 DEF OwnInv
<1>3. ASSUME NEW r \in Requests, GetChannelMessage(r) PROVE OwnInv'
  <2>1. PICK m \in Slots : /\ owner[m] = NoReq /\ owner' = [owner EXCEPT ![m] = r]
                           /\ slot' = [slot EXCEPT ![r] = m]
    BY <1>3 DEF GetChannelMessage
  <2>2. slot[r] = NoSlot BY <1>3 DEF GetChannelMessage, OwnInv, EarlyPcs
  <2>3. \A s \in Slots : owner'[s] = IF s = m THEN r ELSE owner[s] BY <2>1, <1>t
  <2>4. \A q \in Requests : slot'[q] = IF q = r THEN m ELSE slot[q] BY <2>1, <1>t
  <2>5. \A s \in Slots : owner'[s] # NoReq => slot'[owner'[s]] = s
    BY <1>t, <2>2, <2>3, <2>4 DEF OwnInv
  <2>6. \A q \in Requests : slot'[q] # NoSlot => owner'[slot'[q]] = q
    <3> SUFFICES ASSUME NEW q \in Requests, q # r, slot[q] # NoSlot PROVE owner'[slot[q]] = q
      BY <1>t, <2>3, <2>4
    <3>1. slot[q] \in Slots /\ owner[slot[q]] = q BY <1>t DEF OwnInv
    <3>2. slot[q] # m BY <1>t, <2>1, <3>1
    <3> QED BY <2>3, <3>1, <3>2
  <2>7. pc'[r] \notin EarlyPcs
    BY <1>3 DEF GetChannelMessage, Goto, EarlyPcs, TypeOK, TypeReq
  <2>8. \A q \in Requests : pc'[q] \in EarlyPcs => slot'[q] = NoSlot
    BY <1>0, <2>4, <2>7 DEF OwnInv, PcMoves
  <2> QED BY <2>5, <2>6, <2>8 DEF OwnInv
<1> QED BY <1>0, <1>1, <1>2, <1>3 DEF HolderMoves

\* A message belongs to one request, and a request holds one message.
THEOREM MessagesOwned == Spec => []OwnInv
<1>1. Init => OwnInv BY DEF Init, InitState, OwnInv
<1>2. IndInv /\ OwnInv /\ [Next]_vars => OwnInv' BY OwnStep DEF IndInv
<1> QED BY <1>1, <1>2, Invariance, PTL DEF Spec

(***************************************************************************)
(* The waiting caller.                                                     *)
(***************************************************************************)
LEMMA ContextsKept == ASSUME [Next]_vars PROVE ctxDone \subseteq ctxDone'
<1> USE DEF reqVars
<1>1. CASE UNCHANGED vars BY <1>1 DEF vars
<1>2. ASSUME NEW r \in Requests, RequestStep(r) \/ Cancel(r) PROVE ctxDone \subseteq ctxDone'
  BY <1>2 DEF RequestStep, Cancel, GetProviderQueue, CreateProviderQueue, PrepareForRequest,
     ShortCircuit, GetChannelMessage, Reroute, NoReroute, CheckCandidate, Enqueue, SeeDone,
     GiveUpSend, QueueFull, Recheck, Receive, LeaveOnCtx, Fail
<1>3. ASSUME NEW g \in Gens, NEW w \in Workers, WorkerStep(g, w) PROVE UNCHANGED ctxDone
  BY <1>3 DEF WorkerStep, WorkerTake, KeyError, Deliver, Abandon, WorkerSeesDone,
     WorkerDrain, WorkerExit
<1>4. ASSUME NEW g \in Gens, CleanupStep(g) PROVE UNCHANGED ctxDone
  BY <1>4 DEF CleanupStep, CleanupWait, CleanupDrain, CleanupFinish
<1>5. ASSUME NEW a \in Admins, UpdateStep(a) PROVE UNCHANGED ctxDone
  BY <1>5 DEF UpdateStep, UpdatePrepare, UpdateConstructFails, UpdatePublish, TransferTake,
     TransferPut, TransferFull, CancelRest, TransferDone, RetireOld, PrepareForAdmin
<1>6. ASSUME NEW a \in Admins, RemoveStep(a) \/ AdminBegin(a) PROVE UNCHANGED ctxDone
  BY <1>6 DEF RemoveStep, RemoveWait, RemoveDrain, RemoveDrained, RemoveFinish,
     AdminBegin, UpdateBegin, GetProviderByKey, RemoveBegin
<1>7. ASSUME ShutdownBegin \/ ShutdownStep PROVE UNCHANGED ctxDone
  BY <1>7 DEF ShutdownBegin, ShutdownStep, ShutdownSignal, ShutdownRange, ShutdownWait,
     ShutdownCleanups, ShutdownDrain, ShutdownFinish
<1>8. CASE Quiescent BY <1>8, <1>1 DEF Quiescent
<1> QED BY <1>1, <1>2, <1>3, <1>4, <1>5, <1>6, <1>7, <1>8 DEF Next, AdminStep

\* A caller's message is its own while it waits: nobody releases it.
LEMMA WaiterKeeps ==
  ASSUME TypeOK, HoldInv, OwnInv, PcMoves, HolderMoves, HoldInv', NEW r \in Requests,
         pc[r] = "wait", pc'[r] = "wait"
  PROVE  slot'[r] = slot[r] /\ owner'[slot[r]] = r /\ owner[slot[r]] = r /\ slot[r] \in Slots
<1>1. slot[r] \in Slots /\ owner[slot[r]] = r BY DEF HoldInv
<1>2. slot'[r] \in Slots /\ owner'[slot'[r]] = r BY DEF HoldInv
<1>3. slot'[r] = slot[r]
  <2>1. CASE UNCHANGED <<owner, slot>> BY <2>1
  <2>2. ASSUME NEW q \in Requests, Release(q) PROVE slot'[r] = slot[r]
    <3>1. slot' = [slot EXCEPT ![q] = NoSlot] BY <2>2 DEF Release
    <3>2. q # r BY <1>2, <3>1 DEF TypeOK, TypeReq
    <3> QED BY <3>1, <3>2 DEF TypeOK, TypeReq
  <2>3. ASSUME NEW q \in Requests, GetChannelMessage(q) PROVE slot'[r] = slot[r]
    <3>1. \E m : slot' = [slot EXCEPT ![q] = m] BY <2>3 DEF GetChannelMessage
    <3>2. q # r BY <2>3 DEF GetChannelMessage
    <3> QED BY <3>1, <3>2 DEF TypeOK, TypeReq
  <2> QED BY <2>1, <2>2, <2>3 DEF HolderMoves
<1> QED BY <1>1, <1>2, <1>3

\* A caller waiting for its answer is never forgotten: its message is queued,
\* in process, in transfer or answered, or its context is done.
THEOREM WaitersRemembered == Spec => []WaiterNotForgotten
<1>1. Init => WaiterNotForgotten BY DEF Init, InitState, WaiterNotForgotten
<1>2. ASSUME IndInv, IndInv', WorkInv, OwnInv, WaiterNotForgotten, [Next]_vars
      PROVE  WaiterNotForgotten'
  <2> USE DEF IndInv
  <2>1. Effects /\ PcMoves /\ HolderMoves /\ ctxDone \subseteq ctxDone'
    BY <1>2, EffectsStep, CallerMoves, ContextsKept
  <2> SUFFICES ASSUME NEW r \in Requests, pc'[r] = "wait"
               PROVE  Outstanding(slot[r])' \/ reply'[slot'[r]] # {} \/ r \in ctxDone'
    BY DEF WaiterNotForgotten
  <2>2. CASE Enqueue(r)
    <3>1. /\ UNCHANGED slot /\ pc[r] \in HoldPcs
          /\ queue' = [queue EXCEPT ![pq[r]] = Append(@, slot[r])]
      BY <2>2 DEF Enqueue, HoldPcs
    <3>2. slot[r] \in Slots /\ pq[r] \in Gens
      BY <1>2, <3>1 DEF HoldInv, TypeOK, TypeGen, Gens
    <3>3. PICK m : m = slot[r] OBVIOUS
    <3>4. InQueue(m)' BY <1>2, <3>1, <3>2, <3>3, AppendStays DEF TypeOK
    <3> QED BY <3>1, <3>3, <3>4 DEF Outstanding, InQueue
  <2>3. CASE pc[r] = "wait"
    <3>1. PICK m : m = slot[r] OBVIOUS
    <3>2. slot'[r] = m /\ owner'[m] = r /\ owner[m] = r /\ m \in Slots
      BY <1>2, <2>1, <2>3, <3>1, WaiterKeeps
    <3>3. Outstanding(m) \/ reply[m] # {} \/ r \in ctxDone
      BY <1>2, <2>3, <3>1 DEF WaiterNotForgotten
    <3>4. Outstanding(m)' \/ reply'[m] # {} \/ r \in ctxDone'
      BY <2>1, <3>2, <3>3 DEF Effects
    <3>5. Outstanding(m)' => Outstanding(slot[r])'
      BY <3>2 DEF Outstanding, InQueue, AtWorker, InHand
    <3> QED BY <3>2, <3>4, <3>5
  <2> QED BY <2>1, <2>2, <2>3 DEF PcMoves
<1> QED BY <1>1, <1>2, Invariance, WorkersWaitedFor, MessagesOwned, PTL DEF Spec

(***************************************************************************)
(* The terminal post-hooks.                                                *)
(***************************************************************************)
\* A request that was billed has come back from the queue: no worker will find
\* it again, and no answer is left for its caller to bill.
BillInv ==
  \A r \in Requests \ Streams :
    /\ hooks[r] \in {0, 1}
    /\ hooks[r] = 1 =>
         /\ pc[r] \in {"wait", "done"}
         /\ slot[r] # NoSlot => ~Outstanding(slot[r]) /\ reply[slot[r]] = {}

\* Three steps run the post-hooks.
LEMMA HooksCases ==
  ASSUME [Next]_vars
  PROVE  \/ UNCHANGED hooks
         \/ \E r \in Requests : ShortCircuit(r) \/ Receive(r)
         \/ \E g \in Gens, w \in Workers : Abandon(g, w)
<1> USE DEF histVars
<1>1. CASE UNCHANGED vars BY <1>1 DEF vars
<1>2. ASSUME NEW r \in Requests, RequestStep(r) \/ Cancel(r), ~ShortCircuit(r), ~Receive(r)
      PROVE  UNCHANGED hooks
  BY <1>2 DEF RequestStep, Cancel, GetProviderQueue, CreateProviderQueue, PrepareForRequest,
     GetChannelMessage, Reroute, NoReroute, CheckCandidate, Enqueue, SeeDone,
     GiveUpSend, QueueFull, Recheck, LeaveOnCtx, Fail
<1>3. ASSUME NEW g \in Gens, NEW w \in Workers, WorkerStep(g, w), ~Abandon(g, w) PROVE UNCHANGED hooks
  BY <1>3 DEF WorkerStep, WorkerTake, KeyError, Deliver, WorkerSeesDone, WorkerDrain, WorkerExit
<1>4. ASSUME NEW g \in Gens, CleanupStep(g) PROVE UNCHANGED hooks
  BY <1>4 DEF CleanupStep, CleanupWait, CleanupDrain, CleanupFinish
<1>5. ASSUME NEW a \in Admins, UpdateStep(a) PROVE UNCHANGED hooks
  BY <1>5 DEF UpdateStep, UpdatePrepare, UpdateConstructFails, UpdatePublish, TransferTake,
     TransferPut, TransferFull, CancelRest, TransferDone, RetireOld, PrepareForAdmin
<1>6. ASSUME NEW a \in Admins, RemoveStep(a) \/ AdminBegin(a) PROVE UNCHANGED hooks
  BY <1>6 DEF RemoveStep, RemoveWait, RemoveDrain, RemoveDrained, RemoveFinish,
     AdminBegin, UpdateBegin, GetProviderByKey, RemoveBegin
<1>7. ASSUME ShutdownBegin \/ ShutdownStep PROVE UNCHANGED hooks
  BY <1>7 DEF ShutdownBegin, ShutdownStep, ShutdownSignal, ShutdownRange, ShutdownWait,
     ShutdownCleanups, ShutdownDrain, ShutdownFinish
<1>8. CASE Quiescent BY <1>8, <1>1 DEF Quiescent
<1> QED BY <1>1, <1>2, <1>3, <1>4, <1>5, <1>6, <1>7, <1>8 DEF Next, AdminStep

\* A request billed before the step stays billed and out of the queue.
LEMMA BilledStays ==
  ASSUME TypeOK, TypeOK', HoldInv, OwnInv, BillInv, Effects, PcMoves, HolderMoves,
         NEW r \in Requests \ Streams, hooks[r] = 1
  PROVE  /\ pc'[r] \in {"wait", "done"}
         /\ slot'[r] # NoSlot => ~Outstanding(slot[r])' /\ reply'[slot'[r]] = {}
<1>1. pc[r] \in {"wait", "done"} /\ (slot[r] # NoSlot => ~Outstanding(slot[r]) /\ reply[slot[r]] = {})
  BY DEF BillInv
<1>2. pc'[r] \in {"wait", "done"} BY <1>1 DEF PcMoves
<1>3. slot'[r] \in {NoSlot, slot[r]}
  <2>1. CASE UNCHANGED <<owner, slot>> BY <2>1
  <2>2. ASSUME NEW q \in Requests, Release(q) PROVE slot'[r] \in {NoSlot, slot[r]}
    BY <2>2 DEF Release, TypeOK, TypeReq
  <2>3. ASSUME NEW q \in Requests, GetChannelMessage(q) PROVE slot'[r] = slot[r]
    <3>1. \E m : slot' = [slot EXCEPT ![q] = m] BY <2>3 DEF GetChannelMessage
    <3>2. q # r BY <1>1, <2>3 DEF GetChannelMessage
    <3> QED BY <3>1, <3>2 DEF TypeOK, TypeReq
  <2> QED BY <2>1, <2>2, <2>3 DEF HolderMoves
<1>4. ASSUME slot'[r] # NoSlot PROVE ~Outstanding(slot[r])' /\ reply'[slot'[r]] = {}
  <2>1. PICK m : m = slot[r] OBVIOUS
  <2>2. slot'[r] = m /\ m \in Slots /\ m # NoSlot BY <1>3, <1>4, <2>1 DEF TypeOK, TypeReq
  <2>3. ~Outstanding(m) /\ reply[m] = {} /\ owner[m] = r BY <1>1, <2>1, <2>2 DEF OwnInv
  <2>4. \A q \in Requests : pc[q] \in HoldPcs => slot[q] # m
    BY <1>1, <2>3 DEF HoldInv, HoldPcs
  <2>5. ~Outstanding(m)' /\ reply'[m] = {} BY <2>2, <2>3, <2>4 DEF Effects
  <2>6. Outstanding(slot[r])' => Outstanding(m)' BY <2>2 DEF Outstanding, InQueue, AtWorker, InHand
  <2> QED BY <2>2, <2>5, <2>6
<1> QED BY <1>2, <1>4

LEMMA BillStep ==
  ASSUME IndInv, IndInv', WorkInv, OwnInv, BillInv, [Next]_vars
  PROVE  BillInv'
<1> USE DEF IndInv
<1>0. Effects /\ PcMoves /\ HolderMoves BY EffectsStep, CallerMoves
<1>h. hooks \in [Requests -> Nat] BY DEF TypeOK, TypeHist
<1>u. ASSUME NEW r \in Requests \ Streams, hooks'[r] = hooks[r]
      PROVE  /\ hooks'[r] \in {0, 1}
             /\ hooks'[r] = 1 =>
                  /\ pc'[r] \in {"wait", "done"}
                  /\ slot'[r] # NoSlot => ~Outstanding(slot[r])' /\ reply'[slot'[r]] = {}
  <2>1. hooks[r] \in {0, 1} BY DEF BillInv
  <2> QED BY <1>0, <1>u, <2>1, BilledStays
<1>b. ASSUME NEW q \in Requests,
             \A r \in Requests : r # q => hooks'[r] = hooks[r],
             q \notin Streams =>
               /\ hooks'[q] \in {0, 1}
               /\ pc'[q] \in {"wait", "done"}
               /\ slot'[q] # NoSlot => ~Outstanding(slot[q])' /\ reply'[slot'[q]] = {}
      PROVE  BillInv'
  BY <1>b, <1>u DEF BillInv
<1>1. CASE UNCHANGED hooks BY <1>1, <1>u DEF BillInv
<1>2. ASSUME NEW r \in Requests, ShortCircuit(r), hooks' # hooks PROVE BillInv'
  <2>1. /\ pc[r] = "hooks" /\ pc' = [pc EXCEPT ![r] = "done"] /\ slot' = slot
        /\ hooks' = [hooks EXCEPT ![r] = @ + 1]
    BY <1>2 DEF ShortCircuit, Return
  <2>2. slot'[r] = NoSlot BY <2>1 DEF OwnInv, EarlyPcs
  <2>3. pc'[r] = "done" BY <2>1 DEF TypeOK, TypeReq
  <2>4. \A q \in Requests : q # r => hooks'[q] = hooks[q] BY <1>h, <2>1
  <2>5. r \notin Streams => hooks[r] = 0 BY <2>1 DEF BillInv
  <2>6. r \notin Streams => hooks'[r] = 1 BY <1>h, <2>1, <2>5
  <2> QED BY <1>b, <2>2, <2>3, <2>4, <2>6
<1>3. ASSUME NEW r \in Requests, Receive(r) PROVE BillInv'
  <2>1. PICK v \in reply[slot[r]] :
          hooks' = [hooks EXCEPT ![r] = IF Chan(v) = "ResponseStream" THEN @ ELSE @ + 1]
    BY <1>3 DEF Receive
  <2>2. pc[r] = "wait" /\ pc' = [pc EXCEPT ![r] = "done"] /\ slot' = [slot EXCEPT ![r] = NoSlot]
    BY <1>3 DEF Receive, Return, Release
  <2>3. slot'[r] = NoSlot /\ pc'[r] = "done" BY <2>2 DEF TypeOK, TypeReq
  <2>4. \A q \in Requests : q # r => hooks'[q] = hooks[q] BY <1>h, <2>1
  <2>5. slot[r] # NoSlot BY <2>2 DEF HoldInv
  <2>6. r \notin Streams => hooks[r] = 0 BY <2>1, <2>5 DEF BillInv
  <2>7. r \notin Streams => hooks'[r] \in {0, 1} BY <1>h, <2>1, <2>6
  <2> QED BY <1>b, <2>3, <2>4, <2>7
<1>4. ASSUME NEW g \in Gens, NEW w \in Workers, Abandon(g, w) PROVE BillInv'
  <2>1. PICK m, q : m = wmsg[<<g, w>>].slot /\ q = wmsg[<<g, w>>].req OBVIOUS
  <2>2. /\ wst[<<g, w>>] = "busy" /\ WorkerIdle(g, w)
        /\ UNCHANGED <<queue, hand, owner, reply, slot, pc>> /\ wmsg[<<g, w>>].req \in ctxDone
    BY <1>4 DEF Abandon, genVars, admVars, chanVars, reqVars
  <2>3. hooks' = [r \in Requests |-> IF r = q /\ r \notin Streams THEN hooks[r] + 1 ELSE hooks[r]]
    BY <1>4, <2>1 DEF Abandon
  <2>4. m \in Slots /\ owner[m] = q /\ Outstanding(m) /\ ~Outstanding(m)'
    BY <2>1, <2>2, IdleEffects
  <2>5. owner[m] # NoReq /\ reply[m] = {} BY <2>4 DEF Places, MsgInv, OutstandingOwned
  <2>6. q \in Requests /\ slot[q] = m BY <2>4, <2>5 DEF TypeOK, TypeChan, OwnInv
  <2>7. pc[q] \in {"wait", "done"}
    <3>1. pc[q] \notin HoldPcs BY <2>4, <2>6 DEF Places, MsgInv, HeldNowhere
    <3>2. pc[q] \notin EarlyPcs BY <2>4, <2>6 DEF OwnInv
    <3> QED BY <2>6, <3>1, <3>2 DEF TypeOK, TypeReq, ReqPcs, HoldPcs, EarlyPcs
  <2>8. q \notin Streams => hooks[q] = 0 BY <2>4, <2>6 DEF BillInv
  <2>9. /\ \A r \in Requests : r # q => hooks'[r] = hooks[r]
        /\ q \notin Streams => hooks'[q] \in {0, 1}
    BY <2>3, <2>6, <2>8
  <2>10. ~Outstanding(slot[q])' /\ reply'[slot'[q]] = {} /\ pc'[q] \in {"wait", "done"}
    <3>1. slot'[q] = m BY <2>2, <2>6
    <3>2. Outstanding(slot[q])' => Outstanding(m)' BY <3>1 DEF Outstanding, InQueue, AtWorker, InHand
    <3> QED BY <2>2, <2>4, <2>5, <2>7, <3>1, <3>2
  <2> QED BY <1>b, <2>6, <2>9, <2>10
<1> QED BY <1>1, <1>2, <1>3, <1>4, HooksCases

\* The terminal post-hooks run at most once for a non-streaming request,
\* whether tryRequest runs them or billAbandonedTerminal.
THEOREM BilledAtMostOnce == Spec => []HooksAtMostOnce
<1>1. Init => BillInv BY DEF Init, InitState, BillInv
<1>2. IndInv /\ IndInv' /\ WorkInv /\ OwnInv /\ BillInv /\ [Next]_vars => BillInv' BY BillStep
<1>3. BillInv => HooksAtMostOnce BY DEF BillInv, HooksAtMostOnce
<1> QED BY <1>1, <1>2, <1>3, Invariance, WorkersWaitedFor, MessagesOwned, PTL DEF Spec
====
