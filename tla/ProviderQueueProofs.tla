------------------------- MODULE ProviderQueueProofs -------------------------
(***************************************************************************)
(* Proofs about ProviderQueue for every number of callers, workers,        *)
(* messages and lifecycle calls.                                           *)
(***************************************************************************)
EXTENDS ProviderQueue, TLAPS

USE ConstantsAssumption

\* The elements of a sequence without its head.
LEMMA HeadTail ==
  ASSUME NEW S, NEW q \in Seq(S), q # <<>>
  PROVE  /\ Head(q) \in S /\ Head(q) = q[1] /\ 1 \in 1..Len(q)
         /\ Tail(q) \in Seq(S)
         /\ Len(Tail(q)) = Len(q) - 1
         /\ \A i \in 1..Len(Tail(q)) : i + 1 \in 1..Len(q) /\ Tail(q)[i] = q[i + 1]
  OBVIOUS

\* The elements of a sequence after Append.
LEMMA AppendElements ==
  ASSUME NEW S, NEW q \in Seq(S), NEW x \in S
  PROVE  /\ Append(q, x) \in Seq(S)
         /\ Len(Append(q, x)) = Len(q) + 1
         /\ Append(q, x)[Len(q) + 1] = x
         /\ \A i \in 1..Len(q) : Append(q, x)[i] = q[i]
  OBVIOUS

\* A step that leaves a group of variables alone leaves its types alone.
LEMMA Frame ==
  /\ TypeReq /\ reqVars' = reqVars => TypeReq'
  /\ TypeChan /\ chanVars' = chanVars => TypeChan'
  /\ TypeGen /\ genVars' = genVars => TypeGen'
  /\ TypeWork /\ workVars' = workVars => TypeWork'
  /\ TypeAdm /\ admVars' = admVars => TypeAdm'
  /\ TypeShut /\ shutVars' = shutVars => TypeShut'
  /\ TypeHist /\ histVars' = histVars => TypeHist'
  /\ TypeLock /\ lock' = lock => TypeLock'
<1>1. TypeReq /\ reqVars' = reqVars => TypeReq' BY DEF TypeReq, reqVars
<1>2. TypeChan /\ chanVars' = chanVars => TypeChan' BY DEF TypeChan, chanVars
<1>3. TypeGen /\ genVars' = genVars => TypeGen' BY DEF TypeGen, genVars
<1>4. TypeWork /\ workVars' = workVars => TypeWork' BY DEF TypeWork, workVars
<1>5. TypeAdm /\ admVars' = admVars => TypeAdm' BY DEF TypeAdm, admVars
<1>6. TypeShut /\ shutVars' = shutVars => TypeShut' BY DEF TypeShut, shutVars
<1>7. TypeHist /\ histVars' = histVars => TypeHist' BY DEF TypeHist, histVars
<1>8. TypeLock /\ lock' = lock => TypeLock' BY DEF TypeLock
<1> QED BY <1>1, <1>2, <1>3, <1>4, <1>5, <1>6, <1>7, <1>8

\* Draining one message keeps the types it touches.
LEMMA DrainOneTypes ==
  ASSUME TypeGen, TypeChan, NEW g \in Gens, NEW why \in Whys, DrainOne(g, why)
  PROVE  TypeGen' /\ TypeChan'
<1>1. queue[g] \in Seq(Slots) /\ queue[g] # <<>> BY DEF DrainOne, TypeGen
<1>2. Head(queue[g]) \in Slots /\ Tail(queue[g]) \in Seq(Slots) BY <1>1, HeadTail
<1>3. TypeGen' BY <1>2 DEF DrainOne, TypeGen
<1>4. [req |-> owner[Head(queue[g])], why |-> why] \in Reply BY <1>2 DEF TypeChan, Reply
<1>5. TypeChan' BY <1>2, <1>4 DEF DrainOne, Send, TypeChan
<1> QED BY <1>3, <1>5

\* An early return keeps the types of the caller and of the channels.
LEMMA FailTypes ==
  ASSUME TypeReq, TypeChan, NEW r \in Requests, NEW what \in Outcomes, Fail(r, what)
  PROVE  TypeReq' /\ TypeChan'
<1>1. TypeReq' BY DEF Fail, Release, Return, TypeReq, ReqPcs
<1>2. TypeChan' BY DEF Fail, Release, TypeChan
<1> QED BY <1>1, <1>2

(***************************************************************************)
(* One step per action.                                                    *)
(***************************************************************************)

\* Every step keeps every variable in its type, given that lifecycle steps
\* hold the lock and callers hold messages.
LEMMA TypeStep ==
  ASSUME TypeOK, LockInv, HoldInv, [Next]_vars
  PROVE  TypeOK'
<1> USE DEF TypeOK
<1>1. CASE UNCHANGED vars
  BY <1>1, Frame DEF vars
<1>2. CASE Next
  <2>rq. requestQueues \in 0..MaxGen /\ (requestQueues # 0 => requestQueues \in Gens)
    BY DEF TypeGen, Gens
  <2>1. ASSUME NEW r \in Requests, Cancel(r) PROVE TypeOK'
    <3>1. TypeReq' BY <2>1 DEF Cancel, TypeReq, ReqPcs, Outcomes, Whys, HoldPcs
    <3>2. TypeChan' /\ TypeGen' /\ TypeWork' /\ TypeAdm' /\ TypeShut' /\ TypeHist' /\ TypeLock'
      BY <2>1, Frame DEF Cancel
    <3> QED BY <3>1, <3>2 DEF TypeOK
  <2>2. ASSUME NEW r \in Requests, GetProviderQueue(r) PROVE TypeOK'
    <3>1. TypeReq' BY <2>2, <2>rq DEF GetProviderQueue, Goto, TypeReq, ReqPcs
    <3>2. TypeChan' /\ TypeGen' /\ TypeWork' /\ TypeAdm' /\ TypeShut' /\ TypeHist' /\ TypeLock'
      BY <2>2, Frame DEF GetProviderQueue
    <3> QED BY <3>1, <3>2 DEF TypeOK
  <2>3. ASSUME NEW r \in Requests, CreateProviderQueue(r) PROVE TypeOK'
    <3>1. TypeReq' BY <2>3, <2>rq DEF CreateProviderQueue, Goto, Return, TypeReq, ReqPcs, Outcomes
    <3>2. TypeGen' BY <2>3, <2>rq DEF CreateProviderQueue, PublishQueue, TypeGen, genVars
    <3>3. TypeLock' BY <2>3 DEF CreateProviderQueue, PublishQueue, Goto, Return, TypeLock
    <3>4. TypeChan' /\ TypeWork' /\ TypeAdm' /\ TypeShut' /\ TypeHist'
      BY <2>3, Frame DEF CreateProviderQueue
    <3> QED BY <3>1, <3>2, <3>3, <3>4 DEF TypeOK
  <2>4. ASSUME NEW r \in Requests, PrepareForRequest(r) PROVE TypeOK'
    <3>1. TypeReq' BY <2>4, <2>rq DEF PrepareForRequest, Goto, Return, TypeReq, ReqPcs, Outcomes
    <3>2. requestQueues \in Gens BY <2>4, <2>rq DEF PrepareForRequest, LockInv
    <3>3. TypeGen' BY <2>4, <3>2 DEF PrepareForRequest, PrepareOK, TypeGen, genVars
    <3>4. TypeWork'
      BY <2>4 DEF PrepareForRequest, PrepareOK, StartWorkers, Goto, Return, TypeWork, Gens,
         WorkerStates, Message, NoMsg, workVars
    <3>5. TypeLock' BY <2>4 DEF PrepareForRequest, PrepareOK, StartWorkers, Goto, Return, TypeLock
    <3>6. TypeChan' /\ TypeAdm' /\ TypeShut' /\ TypeHist' BY <2>4, Frame DEF PrepareForRequest
    <3> QED BY <3>1, <3>3, <3>4, <3>5, <3>6 DEF TypeOK
  <2>5. ASSUME NEW r \in Requests, ShortCircuit(r) PROVE TypeOK'
    <3>1. TypeReq' BY <2>5 DEF ShortCircuit, Return, TypeReq, ReqPcs, Outcomes, Whys, HoldPcs
    <3>2. TypeHist' BY <2>5 DEF ShortCircuit, Return, TypeHist, Gens
    <3>3. TypeChan' /\ TypeGen' /\ TypeWork' /\ TypeAdm' /\ TypeShut' /\ TypeLock'
      BY <2>5, Frame DEF ShortCircuit
    <3> QED BY <3>1, <3>2, <3>3 DEF TypeOK
  <2>6. ASSUME NEW r \in Requests, GetChannelMessage(r) PROVE TypeOK'
    <3>1. TypeReq' BY <2>6 DEF GetChannelMessage, Goto, TypeReq, ReqPcs, Outcomes, Whys, HoldPcs
    <3>2. TypeChan' BY <2>6 DEF GetChannelMessage, Goto, TypeChan, Reply, Whys, chanVars
    <3>3. TypeGen' /\ TypeWork' /\ TypeAdm' /\ TypeShut' /\ TypeHist' /\ TypeLock'
      BY <2>6, Frame DEF GetChannelMessage
    <3> QED BY <3>1, <3>2, <3>3 DEF TypeOK
  <2>7. ASSUME NEW r \in Requests, Reroute(r) PROVE TypeOK'
    <3>1. TypeReq' BY <2>7 DEF Reroute, Goto, TypeReq, ReqPcs, Outcomes, Whys, HoldPcs, TypeGen
    <3>2. TypeChan' /\ TypeGen' /\ TypeWork' /\ TypeAdm' /\ TypeShut' /\ TypeHist' /\ TypeLock'
      BY <2>7, Frame DEF Reroute
    <3> QED BY <3>1, <3>2 DEF TypeOK
  <2>8. ASSUME NEW r \in Requests, NoReroute(r) PROVE TypeOK'
    <3>1. TypeReq' /\ TypeChan'
      BY <2>8, FailTypes DEF NoReroute, Goto, TypeReq, ReqPcs, Outcomes, Whys, chanVars
    <3>2. TypeGen' /\ TypeWork' /\ TypeAdm' /\ TypeShut' /\ TypeHist' /\ TypeLock'
      BY <2>8, Frame DEF NoReroute, Fail, Goto
    <3> QED BY <3>1, <3>2 DEF TypeOK
  <2>9. ASSUME NEW r \in Requests, CheckCandidate(r) PROVE TypeOK'
    <3>1. \/ \E what \in Outcomes : Fail(r, what)
          \/ \E l \in ReqPcs : Goto(r, l) /\ UNCHANGED <<pq, slot, ctxDone, outcome, chanVars>>
      BY <2>9 DEF CheckCandidate, Outcomes, Whys, ReqPcs
    <3>2. ASSUME NEW l \in ReqPcs, Goto(r, l), UNCHANGED <<pq, slot, ctxDone, outcome, chanVars>>
          PROVE  TypeReq' /\ TypeChan'
      BY <3>2, Frame DEF Goto, TypeReq
    <3>3. TypeReq' /\ TypeChan' BY <3>1, <3>2, FailTypes
    <3>4. TypeGen' /\ TypeWork' /\ TypeAdm' /\ TypeShut' /\ TypeHist' /\ TypeLock'
      BY <2>9, Frame DEF CheckCandidate, Fail, Goto
    <3> QED BY <3>3, <3>4 DEF TypeOK
  <2>10. ASSUME NEW r \in Requests, Enqueue(r) PROVE TypeOK'
    <3>1. TypeReq' BY <2>10 DEF Enqueue, Goto, TypeReq, ReqPcs, Outcomes, Whys, HoldPcs
    <3>2. slot[r] \in Slots BY <2>10 DEF Enqueue, HoldInv, HoldPcs
    <3>3. Append(queue[pq[r]], slot[r]) \in Seq(Slots) \/ pq[r] \notin Gens BY <3>2 DEF TypeGen
    <3>4. TypeGen' BY <2>10, <3>3 DEF Enqueue, TypeGen
    <3>5. slot[r] \in Slots BY <2>10 DEF Enqueue, HoldInv, HoldPcs
    <3>6. TypeHist' BY <2>10, <3>5 DEF Enqueue, TypeHist
    <3>7. TypeChan' /\ TypeWork' /\ TypeAdm' /\ TypeShut' /\ TypeLock' BY <2>10, Frame DEF Enqueue
    <3> QED BY <3>1, <3>4, <3>6, <3>7 DEF TypeOK
  <2>11. ASSUME NEW r \in Requests, SeeDone(r) PROVE TypeOK'
    <3>1. TypeReq' /\ TypeChan'
      BY <2>11, FailTypes DEF SeeDone, Goto, TypeReq, ReqPcs, Outcomes, Whys, chanVars
    <3>2. TypeGen' /\ TypeWork' /\ TypeAdm' /\ TypeShut' /\ TypeHist' /\ TypeLock'
      BY <2>11, Frame DEF SeeDone, Fail, Goto
    <3> QED BY <3>1, <3>2 DEF TypeOK
  <2>12. ASSUME NEW r \in Requests, GiveUpSend(r) PROVE TypeOK'
    <3>1. TypeReq' /\ TypeChan'
      BY <2>12, FailTypes DEF GiveUpSend, Goto, TypeReq, ReqPcs, Outcomes, Whys, chanVars
    <3>2. TypeGen' /\ TypeWork' /\ TypeAdm' /\ TypeShut' /\ TypeHist' /\ TypeLock'
      BY <2>12, Frame DEF GiveUpSend, Fail, Goto
    <3> QED BY <3>1, <3>2 DEF TypeOK
  <2>13. ASSUME NEW r \in Requests, QueueFull(r) PROVE TypeOK'
    <3>1. \/ \E what \in Outcomes : Fail(r, what)
          \/ \E l \in ReqPcs : Goto(r, l) /\ UNCHANGED <<pq, slot, ctxDone, outcome, chanVars>>
      BY <2>13 DEF QueueFull, Outcomes, Whys, ReqPcs
    <3>2. ASSUME NEW l \in ReqPcs, Goto(r, l), UNCHANGED <<pq, slot, ctxDone, outcome, chanVars>>
          PROVE  TypeReq' /\ TypeChan'
      BY <3>2, Frame DEF Goto, TypeReq
    <3>3. TypeReq' /\ TypeChan' BY <3>1, <3>2, FailTypes
    <3>4. TypeGen' /\ TypeWork' /\ TypeAdm' /\ TypeShut' /\ TypeHist' /\ TypeLock'
      BY <2>13, Frame DEF QueueFull, Fail, Goto
    <3> QED BY <3>3, <3>4 DEF TypeOK
  <2>14. ASSUME NEW r \in Requests, Recheck(r) PROVE TypeOK'
    <3>1. \/ \E what \in Outcomes : Fail(r, what)
          \/ \E l \in ReqPcs : Goto(r, l) /\ UNCHANGED <<pq, slot, ctxDone, outcome, chanVars>>
      BY <2>14 DEF Recheck, Outcomes, Whys, ReqPcs
    <3>2. ASSUME NEW l \in ReqPcs, Goto(r, l), UNCHANGED <<pq, slot, ctxDone, outcome, chanVars>>
          PROVE  TypeReq' /\ TypeChan'
      BY <3>2, Frame DEF Goto, TypeReq
    <3>3. TypeReq' /\ TypeChan' BY <3>1, <3>2, FailTypes
    <3>4. TypeGen' /\ TypeWork' /\ TypeAdm' /\ TypeShut' /\ TypeHist' /\ TypeLock'
      BY <2>14, Frame DEF Recheck, Fail, Goto
    <3> QED BY <3>3, <3>4 DEF TypeOK
  <2>15. ASSUME NEW r \in Requests, Receive(r) PROVE TypeOK'
    <3>1. PICK v \in reply[slot[r]] : Return(r, v.why) BY <2>15 DEF Receive
    <3>2. v.why \in Outcomes BY <2>15 DEF Receive, HoldInv, TypeChan, Reply, Outcomes
    <3>3. TypeReq' BY <2>15, <3>1, <3>2 DEF Receive, Release, Return, TypeReq, ReqPcs
    <3>4. TypeChan' BY <2>15 DEF Receive, Release, Return, TypeChan, Reply, Whys, chanVars
    <3>5. TypeHist' BY <2>15 DEF Receive, Release, Return, TypeHist, Gens
    <3>6. TypeGen' /\ TypeWork' /\ TypeAdm' /\ TypeShut' /\ TypeLock' BY <2>15, Frame DEF Receive
    <3> QED BY <3>3, <3>4, <3>5, <3>6 DEF TypeOK
  <2>16. ASSUME NEW r \in Requests, LeaveOnCtx(r) PROVE TypeOK'
    <3>1. TypeReq' BY <2>16 DEF LeaveOnCtx, Return, TypeReq, ReqPcs, Outcomes, Whys, HoldPcs
    <3>2. TypeChan' /\ TypeGen' /\ TypeWork' /\ TypeAdm' /\ TypeShut' /\ TypeHist' /\ TypeLock'
      BY <2>16, Frame DEF LeaveOnCtx
    <3> QED BY <3>1, <3>2 DEF TypeOK
  <2>17. ASSUME NEW g \in Gens, NEW w \in Workers, WorkerTake(g, w) PROVE TypeOK'
    <3>1. TypeGen' BY <2>17, HeadTail, AppendElements DEF WorkerTake, TypeGen, Gens, genVars
    <3>2. TypeWork'
      BY <2>17, HeadTail, AppendElements DEF WorkerTake, TypeWork, Gens, WorkerStates, Message,
         NoMsg, TypeGen, TypeChan, workVars
    <3>3. TypeReq' /\ TypeChan' /\ TypeAdm' /\ TypeShut' /\ TypeHist' /\ TypeLock'
      BY <2>17, Frame DEF WorkerTake
    <3> QED BY <3>1, <3>2, <3>3 DEF TypeOK
  <2>18. ASSUME NEW g \in Gens, NEW w \in Workers, KeyError(g, w) PROVE TypeOK'
    <3>1. wmsg[<<g, w>>].req \in Requests \cup {NoReq} BY DEF TypeWork, Message, NoMsg
    <3>2. [req |-> wmsg[<<g, w>>].req, why |-> "err"] \in Reply BY <3>1 DEF Reply, Whys
    <3>3. TypeChan' BY <2>18, <3>2 DEF KeyError, Send, TypeChan
    <3>4. TypeWork'
      BY <2>18 DEF KeyError, Send, WorkerIdle, TypeWork, Gens, WorkerStates, Message, NoMsg,
         workVars
    <3>5. TypeReq' /\ TypeGen' /\ TypeAdm' /\ TypeShut' /\ TypeHist' /\ TypeLock'
      BY <2>18, Frame DEF KeyError, WorkerIdle
    <3> QED BY <3>3, <3>4, <3>5 DEF TypeOK
  <2>19. ASSUME NEW g \in Gens, NEW w \in Workers, Deliver(g, w) PROVE TypeOK'
    <3>1. wmsg[<<g, w>>].req \in Requests \cup {NoReq} BY DEF TypeWork, Message, NoMsg
    <3>2. \A why \in {"ok", "err"} : [req |-> wmsg[<<g, w>>].req, why |-> why] \in Reply
      BY <3>1 DEF Reply, Whys
    <3>3. PICK why \in {"ok", "err"} : Send(wmsg[<<g, w>>].slot, [req |-> wmsg[<<g, w>>].req,
       why |-> why]) BY <2>19 DEF Deliver
    <3>4. TypeChan' BY <2>19, <3>3, <3>2, ZenonT(60) DEF Deliver, Send, TypeChan
    <3>5. TypeWork'
      BY <2>19 DEF Deliver, Send, WorkerIdle, TypeWork, Gens, WorkerStates, Message, NoMsg, workVars
    <3>6. TypeHist' BY <2>19 DEF Deliver, Send, WorkerIdle, TypeHist, Gens, TypeWork, Message, NoMsg
    <3>7. TypeReq' /\ TypeGen' /\ TypeAdm' /\ TypeShut' /\ TypeLock'
      BY <2>19, Frame DEF Deliver, WorkerIdle
    <3> QED BY <3>4, <3>5, <3>6, <3>7 DEF TypeOK
  <2>20. ASSUME NEW g \in Gens, NEW w \in Workers, Abandon(g, w) PROVE TypeOK'
    <3>1. TypeWork'
      BY <2>20 DEF Abandon, WorkerIdle, TypeWork, Gens, WorkerStates, Message, NoMsg, workVars
    <3>2. TypeHist' BY <2>20 DEF Abandon, WorkerIdle, TypeHist, Gens, TypeWork, Message, NoMsg
    <3>3. TypeReq' /\ TypeChan' /\ TypeGen' /\ TypeAdm' /\ TypeShut' /\ TypeLock'
      BY <2>20, Frame DEF Abandon, WorkerIdle
    <3> QED BY <3>1, <3>2, <3>3 DEF TypeOK
  <2>21. ASSUME NEW g \in Gens, NEW w \in Workers, WorkerSeesDone(g, w) PROVE TypeOK'
    <3>1. TypeWork'
      BY <2>21 DEF WorkerSeesDone, TypeWork, Gens, WorkerStates, Message, NoMsg, workVars
    <3>2. TypeReq' /\ TypeChan' /\ TypeGen' /\ TypeAdm' /\ TypeShut' /\ TypeHist' /\ TypeLock'
      BY <2>21, Frame DEF WorkerSeesDone
    <3> QED BY <3>1, <3>2 DEF TypeOK
  <2>22. ASSUME NEW g \in Gens, NEW w \in Workers, WorkerDrain(g, w) PROVE TypeOK'
    <3>1. TypeGen' /\ TypeChan' BY <2>22, DrainOneTypes DEF WorkerDrain, Whys
    <3>2. TypeReq' /\ TypeWork' /\ TypeAdm' /\ TypeShut' /\ TypeHist' /\ TypeLock'
      BY <2>22, Frame DEF WorkerDrain, DrainOne
    <3> QED BY <3>1, <3>2 DEF TypeOK
  <2>23. ASSUME NEW g \in Gens, NEW w \in Workers, WorkerExit(g, w) PROVE TypeOK'
    <3>1. TypeWork' BY <2>23 DEF WorkerExit, TypeWork, Gens, WorkerStates, Message, NoMsg, workVars
    <3>2. TypeReq' /\ TypeChan' /\ TypeGen' /\ TypeAdm' /\ TypeShut' /\ TypeHist' /\ TypeLock'
      BY <2>23, Frame DEF WorkerExit
    <3> QED BY <3>1, <3>2 DEF TypeOK
  <2>24. ASSUME NEW g \in Gens, CleanupWait(g) PROVE TypeOK'
    <3>1. TypeWork' BY <2>24 DEF CleanupWait, TypeWork, Gens, WorkerStates, Message, NoMsg, workVars
    <3>2. TypeReq' /\ TypeChan' /\ TypeGen' /\ TypeAdm' /\ TypeShut' /\ TypeHist' /\ TypeLock'
      BY <2>24, Frame DEF CleanupWait
    <3> QED BY <3>1, <3>2 DEF TypeOK
  <2>25. ASSUME NEW g \in Gens, CleanupDrain(g) PROVE TypeOK'
    <3>1. TypeGen' /\ TypeChan' BY <2>25, DrainOneTypes DEF CleanupDrain, Whys
    <3>2. TypeReq' /\ TypeWork' /\ TypeAdm' /\ TypeShut' /\ TypeHist' /\ TypeLock'
      BY <2>25, Frame DEF CleanupDrain, DrainOne
    <3> QED BY <3>1, <3>2 DEF TypeOK
  <2>26. ASSUME NEW g \in Gens, CleanupFinish(g) PROVE TypeOK'
    <3>1. TypeWork'
      BY <2>26 DEF CleanupFinish, TypeWork, Gens, WorkerStates, Message, NoMsg, workVars
    <3>2. TypeHist' BY <2>26 DEF CleanupFinish, TypeHist, Gens
    <3>3. TypeReq' /\ TypeChan' /\ TypeGen' /\ TypeAdm' /\ TypeShut' /\ TypeLock'
      BY <2>26, Frame DEF CleanupFinish
    <3> QED BY <3>1, <3>2, <3>3 DEF TypeOK
  <2>27. ASSUME NEW a \in Admins, UpdateBegin(a) PROVE TypeOK'
    <3>1. TypeAdm' BY <2>27 DEF UpdateBegin, AGoto, TypeAdm, AdmPcs, UpdatePcs, RemovePcs
    <3>2. TypeReq' /\ TypeChan' /\ TypeGen' /\ TypeWork' /\ TypeShut' /\ TypeHist' /\ TypeLock'
      BY <2>27, Frame DEF UpdateBegin
    <3> QED BY <3>1, <3>2 DEF TypeOK
  <2>28. ASSUME NEW a \in Admins, GetProviderByKey(a) PROVE TypeOK'
    <3>1. TypeAdm'
      BY <2>28 DEF GetProviderByKey, AGoto, PublishQueue, TypeAdm, AdmPcs, UpdatePcs, RemovePcs
    <3>2. TypeGen' BY <2>28, <2>rq DEF GetProviderByKey, PublishQueue, TypeGen, genVars
    <3>3. TypeLock' BY <2>28 DEF GetProviderByKey, AGoto, PublishQueue, TypeLock
    <3>4. TypeReq' /\ TypeChan' /\ TypeWork' /\ TypeShut' /\ TypeHist'
      BY <2>28, Frame DEF GetProviderByKey
    <3> QED BY <3>1, <3>2, <3>3, <3>4 DEF TypeOK
  <2>29. ASSUME NEW a \in Admins, RemoveBegin(a) PROVE TypeOK'
    <3>1. TypeAdm' BY <2>29 DEF RemoveBegin, AGoto, TypeAdm, AdmPcs, UpdatePcs, RemovePcs, TypeGen
    <3>2. TypeGen' BY <2>29, <2>rq DEF RemoveBegin, TypeGen
    <3>3. TypeLock' BY <2>29 DEF RemoveBegin, AGoto, TypeLock
    <3>4. TypeReq' /\ TypeChan' /\ TypeWork' /\ TypeShut' /\ TypeHist'
      BY <2>29, Frame DEF RemoveBegin
    <3> QED BY <3>1, <3>2, <3>3, <3>4 DEF TypeOK
  <2>30. ASSUME NEW a \in Admins, UpdatePrepare(a) PROVE TypeOK'
    <3>1. TypeAdm'
      BY <2>30 DEF UpdatePrepare, AGoto, PublishQueue, TypeAdm, AdmPcs, UpdatePcs, RemovePcs
    <3>2. TypeGen' BY <2>30 DEF UpdatePrepare, AGoto, PublishQueue, TypeGen, Gens, genVars
    <3>3. TypeLock' BY <2>30 DEF UpdatePrepare, AGoto, PublishQueue, TypeLock
    <3>4. TypeReq' /\ TypeChan' /\ TypeWork' /\ TypeShut' /\ TypeHist'
      BY <2>30, Frame DEF UpdatePrepare
    <3> QED BY <3>1, <3>2, <3>3, <3>4 DEF TypeOK
  <2>31. ASSUME NEW a \in Admins, UpdateConstructFails(a) PROVE TypeOK'
    <3>1. TypeAdm' BY <2>31 DEF UpdateConstructFails, AGoto, TypeAdm, AdmPcs, UpdatePcs, RemovePcs
    <3>2. TypeReq' /\ TypeChan' /\ TypeGen' /\ TypeWork' /\ TypeShut' /\ TypeHist' /\ TypeLock'
      BY <2>31, Frame DEF UpdateConstructFails
    <3> QED BY <3>1, <3>2 DEF TypeOK
  <2>32. ASSUME NEW a \in Admins, UpdatePublish(a) PROVE TypeOK'
    <3>1. TypeAdm'
      BY <2>32 DEF UpdatePublish, AGoto, StartWorkers, TypeAdm, AdmPcs, UpdatePcs, RemovePcs,
         TypeGen
    <3>2. TypeGen' BY <2>32 DEF UpdatePublish, AGoto, StartWorkers, TypeGen, Gens, genVars
    <3>3. TypeWork'
      BY <2>32 DEF UpdatePublish, AGoto, StartWorkers, TypeWork, Gens, WorkerStates, Message,
         NoMsg, workVars
    <3>4. TypeLock' BY <2>32 DEF UpdatePublish, AGoto, StartWorkers, TypeLock
    <3>5. TypeReq' /\ TypeChan' /\ TypeShut' /\ TypeHist' BY <2>32, Frame DEF UpdatePublish
    <3> QED BY <3>1, <3>2, <3>3, <3>4, <3>5 DEF TypeOK
  <2>33. ASSUME NEW a \in Admins, TransferTake(a) PROVE TypeOK'
    <3>1. old[a] \in Gens BY <2>33 DEF TransferTake, LockInv, ReplacePcs, TypeGen, Gens
    <3>2. Head(queue[old[a]]) \in Slots BY <2>33, <3>1, HeadTail DEF TransferTake, TypeGen
    <3>3. TypeAdm' BY <2>33, <3>2 DEF TransferTake, AGoto, TypeAdm, AdmPcs, UpdatePcs
    <3>4. old[a] \in Gens BY <2>33 DEF TransferTake, LockInv, ReplacePcs, TypeGen, Gens
    <3>5. Tail(queue[old[a]]) \in Seq(Slots) BY <2>33, <3>4, HeadTail DEF TransferTake, TypeGen
    <3>6. TypeGen' BY <2>33, <3>5 DEF TransferTake, TypeGen
    <3>7. TypeReq' /\ TypeChan' /\ TypeWork' /\ TypeShut' /\ TypeHist' /\ TypeLock'
      BY <2>33, Frame DEF TransferTake
    <3> QED BY <3>3, <3>6, <3>7 DEF TypeOK
  <2>34. ASSUME NEW a \in Admins, TransferPut(a) PROVE TypeOK'
    <3>1. TypeAdm'
      BY <2>34, HeadTail, AppendElements DEF TransferPut, AGoto, TypeAdm, AdmPcs, UpdatePcs,
         RemovePcs
    <3>2. hand[a] \in Slots BY <2>34 DEF TransferPut, HoldInv, TypeAdm
    <3>3. Append(queue[requestQueues], hand[a]) \in Seq(Slots) \/ requestQueues \notin Gens
      BY <3>2 DEF TypeGen
    <3>4. TypeGen' BY <2>34, <3>3 DEF TransferPut, TypeGen
    <3>5. TypeReq' /\ TypeChan' /\ TypeWork' /\ TypeShut' /\ TypeHist' /\ TypeLock'
      BY <2>34, Frame DEF TransferPut
    <3> QED BY <3>1, <3>4, <3>5 DEF TypeOK
  <2>35. ASSUME NEW a \in Admins, TransferFull(a) PROVE TypeOK'
    <3>1. TypeAdm' BY <2>35 DEF TransferFull, AGoto, Send, TypeAdm, AdmPcs, UpdatePcs, RemovePcs
    <3>2. TypeChan' BY <2>35 DEF TransferFull, AGoto, Send, TypeChan, Reply, Whys, TypeAdm, chanVars
    <3>3. TypeReq' /\ TypeGen' /\ TypeWork' /\ TypeShut' /\ TypeHist' /\ TypeLock'
      BY <2>35, Frame DEF TransferFull
    <3> QED BY <3>1, <3>2, <3>3 DEF TypeOK
  <2>36. ASSUME NEW a \in Admins, CancelRest(a) PROVE TypeOK'
    <3>1. old[a] \in Gens
      BY <2>36 DEF CancelRest, DrainOne, TypeShut, TypeGen, TypeAdm, LockInv, ReplacePcs,
         RemovePcs, Gens
    <3>2. TypeGen' /\ TypeChan' BY <2>36, <3>1, DrainOneTypes DEF CancelRest, Whys
    <3>3. TypeReq' /\ TypeWork' /\ TypeAdm' /\ TypeShut' /\ TypeHist' /\ TypeLock'
      BY <2>36, Frame DEF CancelRest, DrainOne
    <3> QED BY <3>1, <3>2, <3>3 DEF TypeOK
  <2>37. ASSUME NEW a \in Admins, TransferDone(a) PROVE TypeOK'
    <3>1. TypeAdm' BY <2>37 DEF TransferDone, AGoto, TypeAdm, AdmPcs, UpdatePcs, RemovePcs
    <3>2. TypeReq' /\ TypeChan' /\ TypeGen' /\ TypeWork' /\ TypeShut' /\ TypeHist' /\ TypeLock'
      BY <2>37, Frame DEF TransferDone
    <3> QED BY <3>1, <3>2 DEF TypeOK
  <2>38. ASSUME NEW a \in Admins, RetireOld(a) PROVE TypeOK'
    <3>1. TypeAdm' BY <2>38 DEF RetireOld, AGoto, TypeAdm, AdmPcs, UpdatePcs, RemovePcs
    <3>2. old[a] \in Gens BY <2>38 DEF RetireOld, LockInv, ReplacePcs, TypeGen, Gens
    <3>3. TypeGen' BY <2>38, <3>2 DEF RetireOld, TypeGen
    <3>4. TypeWork'
      BY <2>38 DEF RetireOld, AGoto, TypeWork, Gens, WorkerStates, Message, NoMsg, TypeAdm, workVars
    <3>5. TypeLock' BY <2>38 DEF RetireOld, AGoto, TypeLock
    <3>6. TypeReq' /\ TypeChan' /\ TypeShut' /\ TypeHist' BY <2>38, Frame DEF RetireOld
    <3> QED BY <3>1, <3>3, <3>4, <3>5, <3>6 DEF TypeOK
  <2>39. ASSUME NEW a \in Admins, PrepareForAdmin(a) PROVE TypeOK'
    <3>1. TypeAdm'
      BY <2>39 DEF PrepareForAdmin, AGoto, PrepareOK, StartWorkers, TypeAdm, AdmPcs, UpdatePcs,
         RemovePcs
    <3>2. requestQueues \in Gens BY <2>39, <2>rq DEF PrepareForAdmin, LockInv, LockPcs, UpdatePcs
    <3>3. TypeGen' BY <2>39, <3>2 DEF PrepareForAdmin, PrepareOK, TypeGen, genVars
    <3>4. TypeWork'
      BY <2>39 DEF PrepareForAdmin, AGoto, PrepareOK, StartWorkers, TypeWork, Gens, WorkerStates,
         Message, NoMsg, workVars
    <3>5. TypeLock' BY <2>39 DEF PrepareForAdmin, AGoto, PrepareOK, StartWorkers, TypeLock
    <3>6. TypeReq' /\ TypeChan' /\ TypeShut' /\ TypeHist' BY <2>39, Frame DEF PrepareForAdmin
    <3> QED BY <3>1, <3>3, <3>4, <3>5, <3>6 DEF TypeOK
  <2>40. ASSUME NEW a \in Admins, RemoveWait(a) PROVE TypeOK'
    <3>1. TypeAdm' BY <2>40 DEF RemoveWait, AGoto, TypeAdm, AdmPcs, UpdatePcs, RemovePcs
    <3>2. TypeReq' /\ TypeChan' /\ TypeGen' /\ TypeWork' /\ TypeShut' /\ TypeHist' /\ TypeLock'
      BY <2>40, Frame DEF RemoveWait
    <3> QED BY <3>1, <3>2 DEF TypeOK
  <2>41. ASSUME NEW a \in Admins, RemoveDrain(a) PROVE TypeOK'
    <3>1. old[a] \in Gens
      BY <2>41 DEF RemoveDrain, DrainOne, TypeShut, TypeGen, TypeAdm, LockInv, ReplacePcs,
         RemovePcs, Gens
    <3>2. TypeGen' /\ TypeChan' BY <2>41, <3>1, DrainOneTypes DEF RemoveDrain, Whys
    <3>3. TypeReq' /\ TypeWork' /\ TypeAdm' /\ TypeShut' /\ TypeHist' /\ TypeLock'
      BY <2>41, Frame DEF RemoveDrain, DrainOne
    <3> QED BY <3>1, <3>2, <3>3 DEF TypeOK
  <2>42. ASSUME NEW a \in Admins, RemoveDrained(a) PROVE TypeOK'
    <3>1. TypeAdm' BY <2>42 DEF RemoveDrained, AGoto, TypeAdm, AdmPcs, UpdatePcs, RemovePcs
    <3>2. old[a] \in Gens BY <2>42 DEF RemoveDrained, LockInv, RemovePcs, TypeGen, Gens
    <3>3. TypeHist' BY <2>42, <3>2 DEF RemoveDrained, TypeHist
    <3>4. TypeReq' /\ TypeChan' /\ TypeGen' /\ TypeWork' /\ TypeShut' /\ TypeLock'
      BY <2>42, Frame DEF RemoveDrained
    <3> QED BY <3>1, <3>3, <3>4 DEF TypeOK
  <2>43. ASSUME NEW a \in Admins, RemoveFinish(a) PROVE TypeOK'
    <3>1. TypeAdm' BY <2>43 DEF RemoveFinish, AGoto, TypeAdm, AdmPcs, UpdatePcs, RemovePcs
    <3>2. TypeGen' BY <2>43 DEF RemoveFinish, AGoto, TypeGen, Gens, genVars
    <3>3. TypeLock' BY <2>43 DEF RemoveFinish, AGoto, TypeLock
    <3>4. TypeReq' /\ TypeChan' /\ TypeWork' /\ TypeShut' /\ TypeHist'
      BY <2>43, Frame DEF RemoveFinish
    <3> QED BY <3>1, <3>2, <3>3, <3>4 DEF TypeOK
  <2>44. ASSUME ShutdownBegin PROVE TypeOK'
    <3>1. TypeShut' BY <2>44 DEF ShutdownBegin, SGoto, TypeShut, ShutPcs, Gens
    <3>2. TypeReq' /\ TypeChan' /\ TypeGen' /\ TypeWork' /\ TypeAdm' /\ TypeHist' /\ TypeLock'
      BY <2>44, Frame DEF ShutdownBegin
    <3> QED BY <3>1, <3>2 DEF TypeOK
  <2>45. ASSUME ShutdownSignal PROVE TypeOK'
    <3>1. TypeShut' BY <2>45 DEF ShutdownSignal, SGoto, TypeShut, ShutPcs, Gens
    <3>2. TypeGen' BY <2>45 DEF ShutdownSignal, SGoto, TypeGen, Gens, genVars
    <3>3. TypeReq' /\ TypeChan' /\ TypeWork' /\ TypeAdm' /\ TypeHist' /\ TypeLock'
      BY <2>45, Frame DEF ShutdownSignal
    <3> QED BY <3>1, <3>2, <3>3 DEF TypeOK
  <2>46. ASSUME ShutdownRange PROVE TypeOK'
    <3>1. TypeShut' BY <2>46 DEF ShutdownRange, SGoto, TypeShut, ShutPcs, Gens, TypeGen
    <3>2. TypeReq' /\ TypeChan' /\ TypeGen' /\ TypeWork' /\ TypeAdm' /\ TypeHist' /\ TypeLock'
      BY <2>46, Frame DEF ShutdownRange
    <3> QED BY <3>1, <3>2 DEF TypeOK
  <2>47. ASSUME ShutdownWait PROVE TypeOK'
    <3>1. TypeShut' BY <2>47 DEF ShutdownWait, SGoto, TypeShut, ShutPcs, Gens
    <3>2. TypeReq' /\ TypeChan' /\ TypeGen' /\ TypeWork' /\ TypeAdm' /\ TypeHist' /\ TypeLock'
      BY <2>47, Frame DEF ShutdownWait
    <3> QED BY <3>1, <3>2 DEF TypeOK
  <2>48. ASSUME ShutdownCleanups PROVE TypeOK'
    <3>1. TypeShut' BY <2>48 DEF ShutdownCleanups, SGoto, TypeShut, ShutPcs, Gens, TypeGen
    <3>2. TypeReq' /\ TypeChan' /\ TypeGen' /\ TypeWork' /\ TypeAdm' /\ TypeHist' /\ TypeLock'
      BY <2>48, Frame DEF ShutdownCleanups
    <3> QED BY <3>1, <3>2 DEF TypeOK
  <2>49. ASSUME ShutdownDrain PROVE TypeOK'
    <3>1. sgen \in Gens
      BY <2>49 DEF ShutdownDrain, DrainOne, TypeShut, TypeGen, TypeAdm, LockInv, ReplacePcs,
         RemovePcs, Gens
    <3>2. TypeGen' /\ TypeChan' BY <2>49, <3>1, DrainOneTypes DEF ShutdownDrain, Whys
    <3>3. TypeReq' /\ TypeWork' /\ TypeAdm' /\ TypeShut' /\ TypeHist' /\ TypeLock'
      BY <2>49, Frame DEF ShutdownDrain, DrainOne
    <3> QED BY <3>1, <3>2, <3>3 DEF TypeOK
  <2>50. ASSUME ShutdownFinish PROVE TypeOK'
    <3>1. TypeShut' BY <2>50 DEF ShutdownFinish, SGoto, TypeShut, ShutPcs, Gens
    <3>2. TypeHist' BY <2>50 DEF ShutdownFinish, SGoto, TypeHist, Gens, TypeShut
    <3>3. TypeReq' /\ TypeChan' /\ TypeGen' /\ TypeWork' /\ TypeAdm' /\ TypeLock'
      BY <2>50, Frame DEF ShutdownFinish
    <3> QED BY <3>1, <3>2, <3>3 DEF TypeOK
  <2>51. ASSUME Quiescent PROVE TypeOK'
    BY <2>51, Frame DEF Quiescent, vars
  <2> QED
    BY <1>2, <2>1, <2>2, <2>3, <2>4, <2>5, <2>6, <2>7, <2>8, <2>9, <2>10, 
       <2>11, <2>12, <2>13, <2>14, <2>15, <2>16, <2>17, <2>18, <2>19, <2>20, 
       <2>21, <2>22, <2>23, <2>24, <2>25, <2>26, <2>27, <2>28, <2>29, <2>30, 
       <2>31, <2>32, <2>33, <2>34, <2>35, <2>36, <2>37, <2>38, <2>39, <2>40, 
       <2>41, <2>42, <2>43, <2>44, <2>45, <2>46, <2>47, <2>48, <2>49, <2>50, 
       <2>51 DEF Next, RequestStep, WorkerStep, CleanupStep,
       AdminBegin, AdminStep, UpdateStep, RemoveStep, ShutdownStep
<1> QED BY <1>1, <1>2

\* Every step keeps the lock discipline.
LEMMA LockStep ==
  ASSUME TypeOK, LockInv, [Next]_vars
  PROVE  LockInv'
<1> USE DEF LockInv, LockPcs, ReplacePcs, RemovePcs, UpdatePcs, TypeOK, TypeReq, TypeAdm,
   TypeGen, TypeLock
<1>3. ASSUME UNCHANGED <<pc, apc, old, lock, requestQueues, ngen>> PROVE LockInv'
  BY <1>3
<1>1. CASE UNCHANGED vars
  BY <1>1, <1>3 DEF vars, reqVars, chanVars, genVars, workVars, admVars, shutVars, histVars
<1>2. CASE Next
  <2>1. ASSUME NEW r \in Requests, Cancel(r) PROVE LockInv'
    BY <2>1, <1>3 DEF Cancel, reqVars, chanVars, genVars, workVars, admVars, shutVars, histVars
  <2>2. ASSUME NEW r \in Requests, GetProviderQueue(r) PROVE LockInv'
    BY <2>2 DEF GetProviderQueue, Goto, reqVars, chanVars, genVars, workVars, admVars, shutVars,
       histVars
  <2>3. ASSUME NEW r \in Requests, CreateProviderQueue(r) PROVE LockInv'
    BY <2>3 DEF CreateProviderQueue, PublishQueue, Goto, Return, reqVars, chanVars, genVars,
       workVars, admVars, shutVars, histVars
  <2>4. ASSUME NEW r \in Requests, PrepareForRequest(r) PROVE LockInv'
    <3>1. lock = r /\ r \notin Admins /\ lock' = NoActor
      BY <2>4 DEF PrepareForRequest
    <3>2. \E l \in ReqPcs \ {"prepare"} : pc' = [pc EXCEPT ![r] = l]
      BY <2>4 DEF PrepareForRequest, Goto, Return, ReqPcs
    <3>3. UNCHANGED <<apc, old, requestQueues, ngen>>
      BY <2>4 DEF PrepareForRequest, PrepareOK, admVars, genVars
    <3> QED BY <3>1, <3>2, <3>3
  <2>5. ASSUME NEW r \in Requests, ShortCircuit(r) PROVE LockInv'
    BY <2>5 DEF ShortCircuit, Return, reqVars, chanVars, genVars, workVars, admVars, shutVars,
       histVars
  <2>6. ASSUME NEW r \in Requests, GetChannelMessage(r) PROVE LockInv'
    BY <2>6 DEF GetChannelMessage, Goto, reqVars, chanVars, genVars, workVars, admVars, shutVars,
       histVars
  <2>7. ASSUME NEW r \in Requests, Reroute(r) PROVE LockInv'
    BY <2>7 DEF Reroute, Goto, reqVars, chanVars, genVars, workVars, admVars, shutVars, histVars
  <2>8. ASSUME NEW r \in Requests, NoReroute(r) PROVE LockInv'
    BY <2>8 DEF NoReroute, Fail, Release, Return, reqVars, chanVars, genVars, workVars, admVars,
       shutVars, histVars
  <2>9. ASSUME NEW r \in Requests, CheckCandidate(r) PROVE LockInv'
    BY <2>9 DEF CheckCandidate, Fail, Release, Return, Goto, reqVars, chanVars, genVars,
       workVars, admVars, shutVars, histVars
  <2>10. ASSUME NEW r \in Requests, Enqueue(r) PROVE LockInv'
    BY <2>10 DEF Enqueue, Goto, reqVars, chanVars, genVars, workVars, admVars, shutVars, histVars
  <2>11. ASSUME NEW r \in Requests, SeeDone(r) PROVE LockInv'
    BY <2>11 DEF SeeDone, Fail, Release, Return, reqVars, chanVars, genVars, workVars, admVars,
       shutVars, histVars
  <2>12. ASSUME NEW r \in Requests, GiveUpSend(r) PROVE LockInv'
    BY <2>12 DEF GiveUpSend, Fail, Release, Return, reqVars, chanVars, genVars, workVars,
       admVars, shutVars, histVars
  <2>13. ASSUME NEW r \in Requests, QueueFull(r) PROVE LockInv'
    BY <2>13 DEF QueueFull, Fail, Release, Return, Goto, reqVars, chanVars, genVars, workVars,
       admVars, shutVars, histVars
  <2>14. ASSUME NEW r \in Requests, Recheck(r) PROVE LockInv'
    BY <2>14 DEF Recheck, Fail, Release, Return, Goto, reqVars, chanVars, genVars, workVars,
       admVars, shutVars, histVars
  <2>15. ASSUME NEW r \in Requests, Receive(r) PROVE LockInv'
    BY <2>15 DEF Receive, Release, Return, reqVars, chanVars, genVars, workVars, admVars,
       shutVars, histVars
  <2>16. ASSUME NEW r \in Requests, LeaveOnCtx(r) PROVE LockInv'
    BY <2>16 DEF LeaveOnCtx, Return, reqVars, chanVars, genVars, workVars, admVars, shutVars,
       histVars
  <2>17. ASSUME NEW g \in Gens, NEW w \in Workers, WorkerTake(g, w) PROVE LockInv'
    BY <2>17, <1>3 DEF WorkerTake, reqVars, chanVars, genVars, workVars, admVars, shutVars, histVars
  <2>18. ASSUME NEW g \in Gens, NEW w \in Workers, KeyError(g, w) PROVE LockInv'
    BY <2>18, <1>3 DEF KeyError, Send, WorkerIdle, reqVars, chanVars, genVars, workVars, admVars,
       shutVars, histVars
  <2>19. ASSUME NEW g \in Gens, NEW w \in Workers, Deliver(g, w) PROVE LockInv'
    BY <2>19, <1>3 DEF Deliver, Send, WorkerIdle, reqVars, chanVars, genVars, workVars, admVars,
       shutVars, histVars
  <2>20. ASSUME NEW g \in Gens, NEW w \in Workers, Abandon(g, w) PROVE LockInv'
    BY <2>20, <1>3 DEF Abandon, WorkerIdle, reqVars, chanVars, genVars, workVars, admVars,
       shutVars, histVars
  <2>21. ASSUME NEW g \in Gens, NEW w \in Workers, WorkerSeesDone(g, w) PROVE LockInv'
    BY <2>21, <1>3 DEF WorkerSeesDone, reqVars, chanVars, genVars, workVars, admVars, shutVars,
       histVars
  <2>22. ASSUME NEW g \in Gens, NEW w \in Workers, WorkerDrain(g, w) PROVE LockInv'
    BY <2>22, <1>3 DEF WorkerDrain, DrainOne, Send, reqVars, chanVars, genVars, workVars,
       admVars, shutVars, histVars
  <2>23. ASSUME NEW g \in Gens, NEW w \in Workers, WorkerExit(g, w) PROVE LockInv'
    BY <2>23, <1>3 DEF WorkerExit, reqVars, chanVars, genVars, workVars, admVars, shutVars, histVars
  <2>24. ASSUME NEW g \in Gens, CleanupWait(g) PROVE LockInv'
    BY <2>24, <1>3 DEF CleanupWait, reqVars, chanVars, genVars, workVars, admVars, shutVars,
       histVars
  <2>25. ASSUME NEW g \in Gens, CleanupDrain(g) PROVE LockInv'
    BY <2>25, <1>3 DEF CleanupDrain, DrainOne, Send, reqVars, chanVars, genVars, workVars,
       admVars, shutVars, histVars
  <2>26. ASSUME NEW g \in Gens, CleanupFinish(g) PROVE LockInv'
    BY <2>26, <1>3 DEF CleanupFinish, reqVars, chanVars, genVars, workVars, admVars, shutVars,
       histVars
  <2>27. ASSUME NEW a \in Admins, UpdateBegin(a) PROVE LockInv'
    BY <2>27, ZenonT(60) DEF UpdateBegin, AGoto, reqVars, chanVars, genVars, workVars, admVars, shutVars,
       histVars
  <2>28. ASSUME NEW a \in Admins, GetProviderByKey(a) PROVE LockInv'
    <3>1. UNCHANGED <<old, pc>> BY <2>28 DEF GetProviderByKey, reqVars
    <3>2. CASE AGoto(a, "done") /\ UNCHANGED <<genVars, lock>>
      BY <3>1, <3>2 DEF AGoto, genVars
    <3>3. CASE lock = NoActor /\ PublishQueue /\ lock' = a /\ AGoto(a, "gprepare")
      BY <3>1, <3>3 DEF AGoto, PublishQueue
    <3> QED BY <2>28, <3>2, <3>3 DEF GetProviderByKey
  <2>29. ASSUME NEW a \in Admins, RemoveBegin(a) PROVE LockInv'
    BY <2>29 DEF RemoveBegin, AGoto, reqVars, chanVars, genVars, workVars, admVars, shutVars,
       histVars
  <2>30. ASSUME NEW a \in Admins, UpdatePrepare(a) PROVE LockInv'
    BY <2>30 DEF UpdatePrepare, AGoto, PublishQueue, reqVars, chanVars, genVars, workVars,
       admVars, shutVars, histVars
  <2>31. ASSUME NEW a \in Admins, UpdateConstructFails(a) PROVE LockInv'
    BY <2>31 DEF UpdateConstructFails, AGoto, reqVars, chanVars, genVars, workVars, admVars,
       shutVars, histVars
  <2>32. ASSUME NEW a \in Admins, UpdatePublish(a) PROVE LockInv'
    BY <2>32 DEF UpdatePublish, AGoto, StartWorkers, reqVars, chanVars, genVars, workVars,
       admVars, shutVars, histVars
  <2>33. ASSUME NEW a \in Admins, TransferTake(a) PROVE LockInv'
    BY <2>33 DEF TransferTake, AGoto, reqVars, chanVars, genVars, workVars, admVars, shutVars,
       histVars
  <2>34. ASSUME NEW a \in Admins, TransferPut(a) PROVE LockInv'
    BY <2>34 DEF TransferPut, AGoto, reqVars, chanVars, genVars, workVars, admVars, shutVars,
       histVars
  <2>35. ASSUME NEW a \in Admins, TransferFull(a) PROVE LockInv'
    BY <2>35 DEF TransferFull, AGoto, Send, reqVars, chanVars, genVars, workVars, admVars,
       shutVars, histVars
  <2>36. ASSUME NEW a \in Admins, CancelRest(a) PROVE LockInv'
    BY <2>36, <1>3 DEF CancelRest, DrainOne, Send, reqVars, chanVars, genVars, workVars, admVars,
       shutVars, histVars
  <2>37. ASSUME NEW a \in Admins, TransferDone(a) PROVE LockInv'
    BY <2>37 DEF TransferDone, AGoto, reqVars, chanVars, genVars, workVars, admVars, shutVars,
       histVars
  <2>38. ASSUME NEW a \in Admins, RetireOld(a) PROVE LockInv'
    BY <2>38 DEF RetireOld, AGoto, reqVars, chanVars, genVars, workVars, admVars, shutVars, histVars
  <2>39. ASSUME NEW a \in Admins, PrepareForAdmin(a) PROVE LockInv'
    BY <2>39 DEF PrepareForAdmin, AGoto, PrepareOK, StartWorkers, reqVars, chanVars, genVars,
       workVars, admVars, shutVars, histVars
  <2>40. ASSUME NEW a \in Admins, RemoveWait(a) PROVE LockInv'
    BY <2>40 DEF RemoveWait, AGoto, reqVars, chanVars, genVars, workVars, admVars, shutVars,
       histVars
  <2>41. ASSUME NEW a \in Admins, RemoveDrain(a) PROVE LockInv'
    BY <2>41, <1>3 DEF RemoveDrain, DrainOne, Send, reqVars, chanVars, genVars, workVars,
       admVars, shutVars, histVars
  <2>42. ASSUME NEW a \in Admins, RemoveDrained(a) PROVE LockInv'
    BY <2>42 DEF RemoveDrained, AGoto, reqVars, chanVars, genVars, workVars, admVars, shutVars,
       histVars
  <2>43. ASSUME NEW a \in Admins, RemoveFinish(a) PROVE LockInv'
    BY <2>43 DEF RemoveFinish, AGoto, reqVars, chanVars, genVars, workVars, admVars, shutVars,
       histVars
  <2>44. ASSUME ShutdownBegin PROVE LockInv'
    BY <2>44, <1>3 DEF ShutdownBegin, SGoto, reqVars, chanVars, genVars, workVars, admVars,
       shutVars, histVars
  <2>45. ASSUME ShutdownSignal PROVE LockInv'
    BY <2>45, <1>3 DEF ShutdownSignal, SGoto, reqVars, chanVars, genVars, workVars, admVars,
       shutVars, histVars
  <2>46. ASSUME ShutdownRange PROVE LockInv'
    BY <2>46, <1>3 DEF ShutdownRange, SGoto, reqVars, chanVars, genVars, workVars, admVars,
       shutVars, histVars
  <2>47. ASSUME ShutdownWait PROVE LockInv'
    BY <2>47, <1>3 DEF ShutdownWait, SGoto, reqVars, chanVars, genVars, workVars, admVars,
       shutVars, histVars
  <2>48. ASSUME ShutdownCleanups PROVE LockInv'
    BY <2>48, <1>3 DEF ShutdownCleanups, SGoto, reqVars, chanVars, genVars, workVars, admVars,
       shutVars, histVars
  <2>49. ASSUME ShutdownDrain PROVE LockInv'
    BY <2>49, <1>3 DEF ShutdownDrain, DrainOne, Send, reqVars, chanVars, genVars, workVars,
       admVars, shutVars, histVars
  <2>50. ASSUME ShutdownFinish PROVE LockInv'
    BY <2>50, <1>3 DEF ShutdownFinish, SGoto, reqVars, chanVars, genVars, workVars, admVars,
       shutVars, histVars
  <2>51. ASSUME Quiescent PROVE LockInv'
    BY <2>51, <1>1 DEF Quiescent
  <2> QED
    BY <1>2, <2>1, <2>2, <2>3, <2>4, <2>5, <2>6, <2>7, <2>8, <2>9, <2>10, 
       <2>11, <2>12, <2>13, <2>14, <2>15, <2>16, <2>17, <2>18, <2>19, <2>20, 
       <2>21, <2>22, <2>23, <2>24, <2>25, <2>26, <2>27, <2>28, <2>29, <2>30, 
       <2>31, <2>32, <2>33, <2>34, <2>35, <2>36, <2>37, <2>38, <2>39, <2>40, 
       <2>41, <2>42, <2>43, <2>44, <2>45, <2>46, <2>47, <2>48, <2>49, <2>50, 
       <2>51 DEF Next, RequestStep, WorkerStep, CleanupStep,
       AdminBegin, AdminStep, UpdateStep, RemoveStep, ShutdownStep
<1> QED BY <1>1, <1>2

\* Every step keeps what callers and UpdateProvider hold.
LEMMA HoldStep ==
  ASSUME TypeOK, LockInv, HoldInv, [Next]_vars
  PROVE  HoldInv'
<1> USE DEF HoldInv, HoldPcs, TypeOK, TypeReq, TypeAdm, TypeGen, TypeChan
<1>3. ASSUME UNCHANGED <<pc, pq, slot, owner, apc, hand, ngen>> PROVE HoldInv'
  BY <1>3
<1>1. CASE UNCHANGED vars
  BY <1>1, <1>3 DEF vars, reqVars, chanVars, genVars, workVars, admVars, shutVars, histVars
<1>2. CASE Next
  <2>1. ASSUME NEW r \in Requests, Cancel(r) PROVE HoldInv'
    BY <2>1, <1>3 DEF Cancel, reqVars, chanVars, genVars, workVars, admVars, shutVars, histVars
  <2>2. ASSUME NEW r \in Requests, GetProviderQueue(r) PROVE HoldInv'
    BY <2>2 DEF GetProviderQueue, Goto, reqVars, chanVars, genVars, workVars, admVars, shutVars,
       histVars
  <2>3. ASSUME NEW r \in Requests, CreateProviderQueue(r) PROVE HoldInv'
    BY <2>3 DEF CreateProviderQueue, PublishQueue, Goto, Return, reqVars, chanVars, genVars,
       workVars, admVars, shutVars, histVars
  <2>4. ASSUME NEW r \in Requests, PrepareForRequest(r) PROVE HoldInv'
    <3>1. requestQueues \in 1..ngen /\ UNCHANGED <<slot, owner, apc, hand, ngen>>
      BY <2>4 DEF PrepareForRequest, PrepareOK, LockInv, admVars, chanVars, genVars
    <3>2. CASE pq' = [pq EXCEPT ![r] = requestQueues] /\ Goto(r, "hooks")
      BY <3>1, <3>2, <2>4 DEF PrepareForRequest, Goto
    <3>3. CASE Return(r, "noqueue") /\ UNCHANGED pq
      BY <3>1, <3>3 DEF Return
    <3> QED BY <2>4, <3>2, <3>3 DEF PrepareForRequest
  <2>5. ASSUME NEW r \in Requests, ShortCircuit(r) PROVE HoldInv'
    BY <2>5 DEF ShortCircuit, Return, reqVars, chanVars, genVars, workVars, admVars, shutVars,
       histVars
  <2>6. ASSUME NEW r \in Requests, GetChannelMessage(r) PROVE HoldInv'
    BY <2>6 DEF GetChannelMessage, Goto, reqVars, chanVars, genVars, workVars, admVars, shutVars,
       histVars
  <2>7. ASSUME NEW r \in Requests, Reroute(r) PROVE HoldInv'
    BY <2>7 DEF Reroute, Goto, reqVars, chanVars, genVars, workVars, admVars, shutVars, histVars
  <2>8. ASSUME NEW r \in Requests, NoReroute(r) PROVE HoldInv'
    BY <2>8 DEF NoReroute, Fail, Release, Return, reqVars, chanVars, genVars, workVars, admVars,
       shutVars, histVars
  <2>9. ASSUME NEW r \in Requests, CheckCandidate(r) PROVE HoldInv'
    <3>1. \/ \E what \in Outcomes : Fail(r, what)
          \/ \E l \in HoldPcs : Goto(r, l) /\ UNCHANGED <<pq, slot, ctxDone, outcome, chanVars>>
      BY <2>9 DEF CheckCandidate, Outcomes, Whys
    <3>2. pc[r] \in HoldPcs /\ UNCHANGED <<apc, hand, ngen>>
      BY <2>9 DEF CheckCandidate, Fail, admVars, genVars
    <3>3. (\E what \in Outcomes : Fail(r, what)) => HoldInv'
      BY <3>2 DEF Fail, Release, Return
    <3>4. ASSUME NEW l \in HoldPcs, Goto(r, l), UNCHANGED <<pq, slot, ctxDone, outcome, chanVars>>
          PROVE  HoldInv'
      BY <3>2, <3>4 DEF Goto, chanVars
    <3> QED BY <3>1, <3>3, <3>4
  <2>10. ASSUME NEW r \in Requests, Enqueue(r) PROVE HoldInv'
    BY <2>10 DEF Enqueue, Goto, reqVars, chanVars, genVars, workVars, admVars, shutVars, histVars
  <2>11. ASSUME NEW r \in Requests, SeeDone(r) PROVE HoldInv'
    BY <2>11 DEF SeeDone, Fail, Release, Return, reqVars, chanVars, genVars, workVars, admVars,
       shutVars, histVars
  <2>12. ASSUME NEW r \in Requests, GiveUpSend(r) PROVE HoldInv'
    BY <2>12 DEF GiveUpSend, Fail, Release, Return, reqVars, chanVars, genVars, workVars,
       admVars, shutVars, histVars
  <2>13. ASSUME NEW r \in Requests, QueueFull(r) PROVE HoldInv'
    <3>1. \/ \E what \in Outcomes : Fail(r, what)
          \/ \E l \in HoldPcs : Goto(r, l) /\ UNCHANGED <<pq, slot, ctxDone, outcome, chanVars>>
      BY <2>13 DEF QueueFull, Outcomes, Whys
    <3>2. pc[r] \in HoldPcs /\ UNCHANGED <<apc, hand, ngen>>
      BY <2>13 DEF QueueFull, Fail, admVars, genVars
    <3>3. (\E what \in Outcomes : Fail(r, what)) => HoldInv'
      BY <3>2 DEF Fail, Release, Return
    <3>4. ASSUME NEW l \in HoldPcs, Goto(r, l), UNCHANGED <<pq, slot, ctxDone, outcome, chanVars>>
          PROVE  HoldInv'
      BY <3>2, <3>4 DEF Goto, chanVars
    <3> QED BY <3>1, <3>3, <3>4
  <2>14. ASSUME NEW r \in Requests, Recheck(r) PROVE HoldInv'
    <3>1. \/ \E what \in Outcomes : Fail(r, what)
          \/ \E l \in HoldPcs : Goto(r, l) /\ UNCHANGED <<pq, slot, ctxDone, outcome, chanVars>>
      BY <2>14 DEF Recheck, Outcomes, Whys
    <3>2. pc[r] \in HoldPcs /\ UNCHANGED <<apc, hand, ngen>>
      BY <2>14 DEF Recheck, Fail, admVars, genVars
    <3>3. (\E what \in Outcomes : Fail(r, what)) => HoldInv'
      BY <3>2 DEF Fail, Release, Return
    <3>4. ASSUME NEW l \in HoldPcs, Goto(r, l), UNCHANGED <<pq, slot, ctxDone, outcome, chanVars>>
          PROVE  HoldInv'
      BY <3>2, <3>4 DEF Goto, chanVars
    <3> QED BY <3>1, <3>3, <3>4
  <2>15. ASSUME NEW r \in Requests, Receive(r) PROVE HoldInv'
    BY <2>15 DEF Receive, Release, Return, reqVars, chanVars, genVars, workVars, admVars,
       shutVars, histVars
  <2>16. ASSUME NEW r \in Requests, LeaveOnCtx(r) PROVE HoldInv'
    BY <2>16 DEF LeaveOnCtx, Return, reqVars, chanVars, genVars, workVars, admVars, shutVars,
       histVars
  <2>17. ASSUME NEW g \in Gens, NEW w \in Workers, WorkerTake(g, w) PROVE HoldInv'
    BY <2>17, <1>3 DEF WorkerTake, reqVars, chanVars, genVars, workVars, admVars, shutVars, histVars
  <2>18. ASSUME NEW g \in Gens, NEW w \in Workers, KeyError(g, w) PROVE HoldInv'
    BY <2>18, <1>3 DEF KeyError, Send, WorkerIdle, reqVars, chanVars, genVars, workVars, admVars,
       shutVars, histVars
  <2>19. ASSUME NEW g \in Gens, NEW w \in Workers, Deliver(g, w) PROVE HoldInv'
    BY <2>19, <1>3 DEF Deliver, Send, WorkerIdle, reqVars, chanVars, genVars, workVars, admVars,
       shutVars, histVars
  <2>20. ASSUME NEW g \in Gens, NEW w \in Workers, Abandon(g, w) PROVE HoldInv'
    BY <2>20, <1>3 DEF Abandon, WorkerIdle, reqVars, chanVars, genVars, workVars, admVars,
       shutVars, histVars
  <2>21. ASSUME NEW g \in Gens, NEW w \in Workers, WorkerSeesDone(g, w) PROVE HoldInv'
    BY <2>21, <1>3 DEF WorkerSeesDone, reqVars, chanVars, genVars, workVars, admVars, shutVars,
       histVars
  <2>22. ASSUME NEW g \in Gens, NEW w \in Workers, WorkerDrain(g, w) PROVE HoldInv'
    BY <2>22, <1>3 DEF WorkerDrain, DrainOne, Send, reqVars, chanVars, genVars, workVars,
       admVars, shutVars, histVars
  <2>23. ASSUME NEW g \in Gens, NEW w \in Workers, WorkerExit(g, w) PROVE HoldInv'
    BY <2>23, <1>3 DEF WorkerExit, reqVars, chanVars, genVars, workVars, admVars, shutVars, histVars
  <2>24. ASSUME NEW g \in Gens, CleanupWait(g) PROVE HoldInv'
    BY <2>24, <1>3 DEF CleanupWait, reqVars, chanVars, genVars, workVars, admVars, shutVars,
       histVars
  <2>25. ASSUME NEW g \in Gens, CleanupDrain(g) PROVE HoldInv'
    BY <2>25, <1>3 DEF CleanupDrain, DrainOne, Send, reqVars, chanVars, genVars, workVars,
       admVars, shutVars, histVars
  <2>26. ASSUME NEW g \in Gens, CleanupFinish(g) PROVE HoldInv'
    BY <2>26, <1>3 DEF CleanupFinish, reqVars, chanVars, genVars, workVars, admVars, shutVars,
       histVars
  <2>27. ASSUME NEW a \in Admins, UpdateBegin(a) PROVE HoldInv'
    BY <2>27 DEF UpdateBegin, AGoto, reqVars, chanVars, genVars, workVars, admVars, shutVars,
       histVars
  <2>28. ASSUME NEW a \in Admins, GetProviderByKey(a) PROVE HoldInv'
    BY <2>28 DEF GetProviderByKey, AGoto, PublishQueue, reqVars, chanVars, genVars, workVars,
       admVars, shutVars, histVars
  <2>29. ASSUME NEW a \in Admins, RemoveBegin(a) PROVE HoldInv'
    BY <2>29 DEF RemoveBegin, AGoto, reqVars, chanVars, genVars, workVars, admVars, shutVars,
       histVars
  <2>30. ASSUME NEW a \in Admins, UpdatePrepare(a) PROVE HoldInv'
    BY <2>30 DEF UpdatePrepare, AGoto, PublishQueue, reqVars, chanVars, genVars, workVars,
       admVars, shutVars, histVars
  <2>31. ASSUME NEW a \in Admins, UpdateConstructFails(a) PROVE HoldInv'
    BY <2>31 DEF UpdateConstructFails, AGoto, reqVars, chanVars, genVars, workVars, admVars,
       shutVars, histVars
  <2>32. ASSUME NEW a \in Admins, UpdatePublish(a) PROVE HoldInv'
    BY <2>32 DEF UpdatePublish, AGoto, StartWorkers, reqVars, chanVars, genVars, workVars,
       admVars, shutVars, histVars
  <2>33. ASSUME NEW a \in Admins, TransferTake(a) PROVE HoldInv'
    <3>1. old[a] \in Gens BY <2>33 DEF TransferTake, LockInv, ReplacePcs, Gens
    <3>2. Head(queue[old[a]]) \in Slots BY <2>33, <3>1, HeadTail DEF TransferTake
    <3> QED BY <2>33, <3>2 DEF TransferTake, AGoto, reqVars, chanVars
  <2>34. ASSUME NEW a \in Admins, TransferPut(a) PROVE HoldInv'
    BY <2>34 DEF TransferPut, AGoto, reqVars, chanVars, genVars, workVars, admVars, shutVars,
       histVars
  <2>35. ASSUME NEW a \in Admins, TransferFull(a) PROVE HoldInv'
    BY <2>35 DEF TransferFull, AGoto, Send, reqVars, chanVars, genVars, workVars, admVars,
       shutVars, histVars
  <2>36. ASSUME NEW a \in Admins, CancelRest(a) PROVE HoldInv'
    BY <2>36, <1>3 DEF CancelRest, DrainOne, Send, reqVars, chanVars, genVars, workVars, admVars,
       shutVars, histVars
  <2>37. ASSUME NEW a \in Admins, TransferDone(a) PROVE HoldInv'
    BY <2>37 DEF TransferDone, AGoto, reqVars, chanVars, genVars, workVars, admVars, shutVars,
       histVars
  <2>38. ASSUME NEW a \in Admins, RetireOld(a) PROVE HoldInv'
    BY <2>38 DEF RetireOld, AGoto, reqVars, chanVars, genVars, workVars, admVars, shutVars, histVars
  <2>39. ASSUME NEW a \in Admins, PrepareForAdmin(a) PROVE HoldInv'
    BY <2>39 DEF PrepareForAdmin, AGoto, PrepareOK, StartWorkers, reqVars, chanVars, genVars,
       workVars, admVars, shutVars, histVars
  <2>40. ASSUME NEW a \in Admins, RemoveWait(a) PROVE HoldInv'
    BY <2>40 DEF RemoveWait, AGoto, reqVars, chanVars, genVars, workVars, admVars, shutVars,
       histVars
  <2>41. ASSUME NEW a \in Admins, RemoveDrain(a) PROVE HoldInv'
    BY <2>41, <1>3 DEF RemoveDrain, DrainOne, Send, reqVars, chanVars, genVars, workVars,
       admVars, shutVars, histVars
  <2>42. ASSUME NEW a \in Admins, RemoveDrained(a) PROVE HoldInv'
    BY <2>42 DEF RemoveDrained, AGoto, reqVars, chanVars, genVars, workVars, admVars, shutVars,
       histVars
  <2>43. ASSUME NEW a \in Admins, RemoveFinish(a) PROVE HoldInv'
    BY <2>43 DEF RemoveFinish, AGoto, reqVars, chanVars, genVars, workVars, admVars, shutVars,
       histVars
  <2>44. ASSUME ShutdownBegin PROVE HoldInv'
    BY <2>44, <1>3 DEF ShutdownBegin, SGoto, reqVars, chanVars, genVars, workVars, admVars,
       shutVars, histVars
  <2>45. ASSUME ShutdownSignal PROVE HoldInv'
    BY <2>45, <1>3 DEF ShutdownSignal, SGoto, reqVars, chanVars, genVars, workVars, admVars,
       shutVars, histVars
  <2>46. ASSUME ShutdownRange PROVE HoldInv'
    BY <2>46, <1>3 DEF ShutdownRange, SGoto, reqVars, chanVars, genVars, workVars, admVars,
       shutVars, histVars
  <2>47. ASSUME ShutdownWait PROVE HoldInv'
    BY <2>47, <1>3 DEF ShutdownWait, SGoto, reqVars, chanVars, genVars, workVars, admVars,
       shutVars, histVars
  <2>48. ASSUME ShutdownCleanups PROVE HoldInv'
    BY <2>48, <1>3 DEF ShutdownCleanups, SGoto, reqVars, chanVars, genVars, workVars, admVars,
       shutVars, histVars
  <2>49. ASSUME ShutdownDrain PROVE HoldInv'
    BY <2>49, <1>3 DEF ShutdownDrain, DrainOne, Send, reqVars, chanVars, genVars, workVars,
       admVars, shutVars, histVars
  <2>50. ASSUME ShutdownFinish PROVE HoldInv'
    BY <2>50, <1>3 DEF ShutdownFinish, SGoto, reqVars, chanVars, genVars, workVars, admVars,
       shutVars, histVars
  <2>51. ASSUME Quiescent PROVE HoldInv'
    BY <2>51, <1>1 DEF Quiescent
  <2> QED
    BY <1>2, <2>1, <2>2, <2>3, <2>4, <2>5, <2>6, <2>7, <2>8, <2>9, <2>10, 
       <2>11, <2>12, <2>13, <2>14, <2>15, <2>16, <2>17, <2>18, <2>19, <2>20, 
       <2>21, <2>22, <2>23, <2>24, <2>25, <2>26, <2>27, <2>28, <2>29, <2>30, 
       <2>31, <2>32, <2>33, <2>34, <2>35, <2>36, <2>37, <2>38, <2>39, <2>40, 
       <2>41, <2>42, <2>43, <2>44, <2>45, <2>46, <2>47, <2>48, <2>49, <2>50, 
       <2>51 DEF Next, RequestStep, WorkerStep, CleanupStep,
       AdminBegin, AdminStep, UpdateStep, RemoveStep, ShutdownStep
<1> QED BY <1>1, <1>2

(***************************************************************************)
(* How the places of a message change.                                     *)
(***************************************************************************)

\* Taking the head of a queue: that message, and no other, leaves the queues.
LEMMA TakeHead ==
  ASSUME TypeGen, QueueDistinct, NEW g \in Gens, queue[g] # <<>>,
         queue' = [queue EXCEPT ![g] = Tail(@)]
  PROVE  /\ QueueDistinct'
         /\ Head(queue[g]) \in Slots /\ InQueue(Head(queue[g]))
         /\ \A s \in Slots : InQueue(s)' => InQueue(s) /\ s # Head(queue[g])
<1>1. queue[g] \in Seq(Slots) BY DEF TypeGen
<1>2. /\ Head(queue[g]) \in Slots /\ Head(queue[g]) = queue[g][1] /\ 1 \in 1..Len(queue[g])
      /\ Len(Tail(queue[g])) = Len(queue[g]) - 1 /\ Len(queue[g]) \in Nat
      /\ \A i \in 1..Len(Tail(queue[g])) :
           i + 1 \in 1..Len(queue[g]) /\ Tail(queue[g])[i] = queue[g][i + 1]
  BY <1>1, HeadTail
<1>3. queue'[g] = Tail(queue[g]) /\ \A h \in Gens : h # g => queue'[h] = queue[h]
  BY DEF TypeGen
<1>4. \A h \in Gens : \A i \in 1..Len(queue'[h]) :
        \E j \in 1..Len(queue[h]) :
          /\ queue'[h][i] = queue[h][j]
          /\ j = (IF h = g THEN i + 1 ELSE i)
  BY <1>2, <1>3
<1>5. QueueDistinct'
  <2> SUFFICES ASSUME NEW h \in Gens, NEW k \in Gens,
                      NEW i \in 1..Len(queue'[h]), NEW j \in 1..Len(queue'[k]),
                      queue'[h][i] = queue'[k][j]
               PROVE  h = k /\ i = j
    BY DEF QueueDistinct
  <2>1. PICK m \in 1..Len(queue[h]) :
          queue'[h][i] = queue[h][m] /\ m = (IF h = g THEN i + 1 ELSE i) BY <1>4
  <2>2. PICK n \in 1..Len(queue[k]) :
          queue'[k][j] = queue[k][n] /\ n = (IF k = g THEN j + 1 ELSE j) BY <1>4
  <2>3. h = k /\ m = n BY <2>1, <2>2 DEF QueueDistinct
  <2> QED BY <2>1, <2>2, <2>3
<1>6. ASSUME NEW s \in Slots, InQueue(s)'
      PROVE  InQueue(s) /\ s # Head(queue[g])
  <2>1. PICK h \in Gens : \E i \in 1..Len(queue'[h]) : queue'[h][i] = s
    BY <1>6 DEF InQueue
  <2>2. PICK i \in 1..Len(queue'[h]) : queue'[h][i] = s BY <2>1
  <2>3. PICK m \in 1..Len(queue[h]) :
          queue'[h][i] = queue[h][m] /\ m = (IF h = g THEN i + 1 ELSE i) BY <1>4
  <2>4. ASSUME s = Head(queue[g]) PROVE FALSE
    <3>1. queue[h][m] = queue[g][1] BY <1>2, <2>2, <2>3, <2>4
    <3>2. h = g /\ m = 1 BY <1>2, <3>1 DEF QueueDistinct
    <3> QED BY <1>2, <1>3, <2>3, <3>2
  <2>5. s # Head(queue[g]) BY <2>4
  <2> QED BY <2>2, <2>3, <2>5 DEF InQueue
<1>7. InQueue(Head(queue[g])) BY <1>2 DEF InQueue
<1> QED BY <1>2, <1>5, <1>6, <1>7

\* Appending a message that was in no queue puts it, and no other, in one.
LEMMA PutLast ==
  ASSUME TypeGen, QueueDistinct, NEW g \in Gens, NEW x \in Slots, ~InQueue(x),
         queue' = [queue EXCEPT ![g] = Append(@, x)]
  PROVE  /\ QueueDistinct'
         /\ \A s \in Slots : InQueue(s)' => InQueue(s) \/ s = x
<1>1. queue[g] \in Seq(Slots) BY DEF TypeGen
<1>2. /\ Len(Append(queue[g], x)) = Len(queue[g]) + 1 /\ Len(queue[g]) \in Nat
      /\ Append(queue[g], x)[Len(queue[g]) + 1] = x
      /\ \A i \in 1..Len(queue[g]) : Append(queue[g], x)[i] = queue[g][i]
  BY <1>1, AppendElements
<1>3. queue'[g] = Append(queue[g], x) /\ \A h \in Gens : h # g => queue'[h] = queue[h]
  BY DEF TypeGen
<1>4. \A h \in Gens : \A i \in 1..Len(queue'[h]) :
        \/ i \in 1..Len(queue[h]) /\ queue'[h][i] = queue[h][i]
        \/ h = g /\ i = Len(queue[g]) + 1 /\ queue'[h][i] = x
  BY <1>2, <1>3
<1>5. \A h \in Gens : \A i \in 1..Len(queue[h]) : queue[h][i] # x
  BY DEF InQueue
<1>6. QueueDistinct'
  <2> SUFFICES ASSUME NEW h \in Gens, NEW k \in Gens,
                      NEW i \in 1..Len(queue'[h]), NEW j \in 1..Len(queue'[k]),
                      queue'[h][i] = queue'[k][j]
               PROVE  h = k /\ i = j
    BY DEF QueueDistinct
  <2>1. \/ i \in 1..Len(queue[h]) /\ queue'[h][i] = queue[h][i]
        \/ h = g /\ i = Len(queue[g]) + 1 /\ queue'[h][i] = x
    BY <1>4
  <2>2. \/ j \in 1..Len(queue[k]) /\ queue'[k][j] = queue[k][j]
        \/ k = g /\ j = Len(queue[g]) + 1 /\ queue'[k][j] = x
    BY <1>4
  <2> QED BY <2>1, <2>2, <1>5 DEF QueueDistinct
<1>7. ASSUME NEW s \in Slots, InQueue(s)' PROVE InQueue(s) \/ s = x
  <2>1. PICK h \in Gens : \E i \in 1..Len(queue'[h]) : queue'[h][i] = s
    BY <1>7 DEF InQueue
  <2> QED BY <2>1, <1>4 DEF InQueue
<1> QED BY <1>6, <1>7

\* Workers that only stop being busy put no message anywhere.
LEMMA WorkersShrink ==
  ASSUME \A x \in Gens \X Workers : wst'[x] = "busy" => wst[x] = "busy" /\ wmsg'[x] = wmsg[x]
  PROVE  /\ WorkersDistinct => WorkersDistinct'
         /\ \A s \in Slots : AtWorker(s)' => AtWorker(s)
BY DEF WorkersDistinct, AtWorker

\* A worker that becomes idle gives up its message and no other.
LEMMA WorkerGivesUp ==
  ASSUME TypeWork, WorkersDistinct, NEW x \in Gens \X Workers, wst[x] = "busy",
         wst' = [wst EXCEPT ![x] = "idle"], wmsg' = [wmsg EXCEPT ![x] = NoMsg]
  PROVE  /\ WorkersDistinct'
         /\ AtWorker(wmsg[x].slot)
         /\ \A y \in Gens \X Workers : wst'[y] = "busy" => wst[y] = "busy" /\ wmsg'[y] = wmsg[y]
         /\ \A s \in Slots : AtWorker(s)' => AtWorker(s) /\ s # wmsg[x].slot
<1>1. \A y \in Gens \X Workers : wst'[y] = "busy" => y # x /\ wst[y] = "busy" /\ wmsg'[y] = wmsg[y]
  BY DEF TypeWork
<1>2. WorkersDistinct' BY <1>1, WorkersShrink
<1>3. \A s \in Slots : AtWorker(s)' => AtWorker(s) /\ s # wmsg[x].slot
  BY <1>1 DEF AtWorker, WorkersDistinct
<1> QED BY <1>1, <1>2, <1>3 DEF AtWorker

(***************************************************************************)
(* What each kind of step does to the places of the messages.  In each     *)
(* lemma one message at most changes place.                                *)
(***************************************************************************)
Places == OnePlace /\ MsgInv

\* A step after which no message is anywhere it was not before.
LEMMA PlacesAfter ==
  ASSUME Places, QueueDistinct', WorkersDistinct',
         \A s \in Slots : InQueue(s)' => InQueue(s),
         \A s \in Slots : AtWorker(s)' => AtWorker(s),
         \A s \in Slots : InHand(s)' => InHand(s)
  PROVE  OnePlace' /\ \A s \in Slots : Outstanding(s)' => Outstanding(s)
BY DEF Places, OnePlace, PlacesDisjoint, Outstanding

\* No message moves, is acquired, released or answered.
LEMMA NothingMoves ==
  ASSUME TypeOK, TypeOK', Places, HoldInv, HoldInv', UNCHANGED <<queue, hand, owner, reply>>,
         \A x \in Gens \X Workers : wst'[x] = "busy" => wst[x] = "busy" /\ wmsg'[x] = wmsg[x],
         \A r \in Requests : pc'[r] \in HoldPcs => pc[r] \in HoldPcs /\ slot'[r] = slot[r]
  PROVE  Places'
<1>1. QueueDistinct' BY DEF Places, OnePlace, QueueDistinct
<1>2. WorkersDistinct' /\ \A s \in Slots : AtWorker(s)' => AtWorker(s)
  BY WorkersShrink DEF Places, OnePlace
<1>3. \A s \in Slots : InQueue(s)' => InQueue(s) BY DEF InQueue
<1>4. \A s \in Slots : InHand(s)' => InHand(s) BY DEF InHand
<1>5. OnePlace' /\ \A s \in Slots : Outstanding(s)' => Outstanding(s)
  BY <1>1, <1>2, <1>3, <1>4, PlacesAfter
<1>6. OutstandingOwned' BY <1>5 DEF Places, MsgInv, OutstandingOwned
<1>7. HeldNowhere'
  BY <1>5 DEF Places, MsgInv, HeldNowhere, HoldInv
<1>8. WorkerCarries' BY DEF Places, MsgInv, WorkerCarries
<1>9. ReplyOwn' BY DEF Places, MsgInv, ReplyOwn
<1> QED BY <1>5, <1>6, <1>7, <1>8, <1>9 DEF Places, MsgInv

\* A caller releases a message that is nowhere.
LEMMA ReleaseMoves ==
  ASSUME TypeOK, TypeOK', Places, HoldInv, HoldInv', NEW r \in Requests,
         pc[r] \in HoldPcs \cup {"wait"}, ~Outstanding(slot[r]),
         Release(r), pc' = [pc EXCEPT ![r] = "done"],
         UNCHANGED <<queue, hand, wst, wmsg>>
  PROVE  Places'
<1>1. slot[r] \in Slots /\ owner[slot[r]] = r BY DEF HoldInv
<1>2. QueueDistinct' BY DEF Places, OnePlace, QueueDistinct
<1>3. WorkersDistinct' /\ \A s \in Slots : AtWorker(s)' => AtWorker(s)
  BY WorkersShrink DEF Places, OnePlace
<1>4. \A s \in Slots : InQueue(s)' => InQueue(s) BY DEF InQueue
<1>5. \A s \in Slots : InHand(s)' => InHand(s) BY DEF InHand
<1>6. OnePlace' /\ \A s \in Slots : Outstanding(s)' => Outstanding(s)
  BY <1>2, <1>3, <1>4, <1>5, PlacesAfter
<1>7. /\ owner' = [owner EXCEPT ![slot[r]] = NoReq]
      /\ reply' = [reply EXCEPT ![slot[r]] = {}]
      /\ slot' = [slot EXCEPT ![r] = NoSlot]
  BY DEF Release
<1>8. \A s \in Slots : s # slot[r] => owner'[s] = owner[s] /\ reply'[s] = reply[s]
  BY <1>7 DEF TypeOK, TypeChan
<1>9. OutstandingOwned' BY <1>6, <1>8 DEF Places, MsgInv, OutstandingOwned
<1>10. HeldNowhere'
  <2> SUFFICES ASSUME NEW q \in Requests, pc'[q] \in HoldPcs
               PROVE  ~Outstanding(slot[q])' /\ reply'[slot'[q]] = {}
    BY DEF HeldNowhere
  <2>1. q # r /\ pc[q] \in HoldPcs /\ slot'[q] = slot[q]
    BY <1>7 DEF TypeOK, TypeReq, HoldPcs
  <2>2. slot[q] \in Slots /\ slot[q] # slot[r] BY <1>1, <2>1 DEF HoldInv
  <2>3. ~Outstanding(slot[q]) /\ reply[slot[q]] = {}
    BY <2>1 DEF Places, MsgInv, HeldNowhere
  <2> QED BY <1>6, <1>8, <2>1, <2>2, <2>3
<1>11. WorkerCarries'
  <2> SUFFICES ASSUME NEW x \in Gens \X Workers, wst[x] = "busy"
               PROVE  wmsg[x].slot \in Slots /\ owner'[wmsg[x].slot] = wmsg[x].req
    BY DEF WorkerCarries
  <2>1. wmsg[x].slot \in Slots /\ owner[wmsg[x].slot] = wmsg[x].req
    BY DEF Places, MsgInv, WorkerCarries
  <2>2. wmsg[x].slot # slot[r] BY DEF Outstanding, AtWorker
  <2> QED BY <1>8, <2>1, <2>2
<1>12. ReplyOwn'
  BY <1>1, <1>7, <1>8 DEF Places, MsgInv, ReplyOwn, TypeOK, TypeChan
<1> QED BY <1>6, <1>9, <1>10, <1>11, <1>12 DEF Places, MsgInv

\* A caller takes a message from the pool.
LEMMA AcquireMoves ==
  ASSUME TypeOK, TypeOK', Places, HoldInv, HoldInv', NEW r \in Requests,
         GetChannelMessage(r)
  PROVE  Places'
<1>1. UNCHANGED <<queue, hand, wst, wmsg>>
  BY DEF GetChannelMessage, genVars, admVars, workVars
<1>2. PICK m \in Slots : /\ owner[m] = NoReq
                         /\ owner' = [owner EXCEPT ![m] = r]
                         /\ reply' = [reply EXCEPT ![m] = {}]
                         /\ slot' = [slot EXCEPT ![r] = m]
  BY DEF GetChannelMessage
<1>3. ~Outstanding(m) BY <1>2 DEF Places, MsgInv, OutstandingOwned
<1>4. QueueDistinct' BY <1>1 DEF Places, OnePlace, QueueDistinct
<1>5. WorkersDistinct' /\ \A s \in Slots : AtWorker(s)' => AtWorker(s)
  BY <1>1, WorkersShrink DEF Places, OnePlace
<1>6. \A s \in Slots : InQueue(s)' => InQueue(s) BY <1>1 DEF InQueue
<1>7. \A s \in Slots : InHand(s)' => InHand(s) BY <1>1 DEF InHand
<1>8. OnePlace' /\ \A s \in Slots : Outstanding(s)' => Outstanding(s)
  BY <1>4, <1>5, <1>6, <1>7, PlacesAfter
<1>9. \A s \in Slots : s # m => owner'[s] = owner[s] /\ reply'[s] = reply[s]
  BY <1>2 DEF TypeOK, TypeChan
<1>10. reply'[m] = {} BY <1>2 DEF TypeOK, TypeChan
<1>11. OutstandingOwned' BY <1>3, <1>8, <1>9 DEF Places, MsgInv, OutstandingOwned
<1>12. HeldNowhere'
  <2> SUFFICES ASSUME NEW q \in Requests, pc'[q] \in HoldPcs
               PROVE  ~Outstanding(slot[q])' /\ reply'[slot'[q]] = {}
    BY DEF HeldNowhere
  <2>1. CASE q = r
    BY <1>2, <1>3, <1>8, <1>10, <2>1 DEF TypeOK, TypeReq
  <2>2. CASE q # r
    <3>1. pc[q] \in HoldPcs /\ slot'[q] = slot[q]
      BY <1>2, <2>2 DEF GetChannelMessage, Goto, TypeOK, TypeReq
    <3>2. slot[q] \in Slots /\ slot[q] # m BY <1>2, <3>1 DEF HoldInv
    <3>3. ~Outstanding(slot[q]) /\ reply[slot[q]] = {}
      BY <3>1 DEF Places, MsgInv, HeldNowhere
    <3> QED BY <1>8, <1>9, <3>1, <3>2, <3>3
  <2> QED BY <2>1, <2>2
<1>13. WorkerCarries'
  <2> SUFFICES ASSUME NEW x \in Gens \X Workers, wst[x] = "busy"
               PROVE  wmsg[x].slot \in Slots /\ owner'[wmsg[x].slot] = wmsg[x].req
    BY <1>1 DEF WorkerCarries
  <2>1. wmsg[x].slot \in Slots /\ owner[wmsg[x].slot] = wmsg[x].req
    BY DEF Places, MsgInv, WorkerCarries
  <2>2. wmsg[x].slot # m BY <1>3 DEF Outstanding, AtWorker
  <2> QED BY <1>9, <2>1, <2>2
<1>14. ReplyOwn'
  BY <1>9, <1>10 DEF Places, MsgInv, ReplyOwn
<1> QED BY <1>8, <1>11, <1>12, <1>13, <1>14 DEF Places, MsgInv

\* A caller sends its message to a queue.
LEMMA EnqueueMoves ==
  ASSUME TypeOK, TypeOK', Places, HoldInv, HoldInv', NEW r \in Requests, Enqueue(r)
  PROVE  Places'
<1>1. /\ UNCHANGED <<hand, wst, wmsg, owner, reply, slot>>
      /\ pc[r] \in HoldPcs /\ pc' = [pc EXCEPT ![r] = "wait"]
      /\ queue' = [queue EXCEPT ![pq[r]] = Append(@, slot[r])]
  BY DEF Enqueue, Goto, HoldPcs, chanVars, admVars, workVars
<1>2. slot[r] \in Slots /\ owner[slot[r]] = r /\ pq[r] \in Gens
  BY <1>1 DEF HoldInv, TypeOK, TypeGen, Gens
<1>3. ~Outstanding(slot[r]) /\ reply[slot[r]] = {}
  BY <1>1 DEF Places, MsgInv, HeldNowhere
<1>4. QueueDistinct' /\ \A s \in Slots : InQueue(s)' => InQueue(s) \/ s = slot[r]
  BY <1>1, <1>2, <1>3, PutLast DEF Places, OnePlace, TypeOK, Outstanding
<1>5. WorkersDistinct' /\ \A s \in Slots : AtWorker(s)' => AtWorker(s)
  BY <1>1, WorkersShrink DEF Places, OnePlace
<1>6. \A s \in Slots : InHand(s)' => InHand(s) BY <1>1 DEF InHand
<1>7. OnePlace' /\ \A s \in Slots : Outstanding(s)' => Outstanding(s) \/ s = slot[r]
  BY <1>3, <1>4, <1>5, <1>6 DEF Places, OnePlace, PlacesDisjoint, Outstanding
<1>8. OutstandingOwned'
  BY <1>1, <1>2, <1>3, <1>7 DEF Places, MsgInv, OutstandingOwned
<1>9. HeldNowhere'
  <2> SUFFICES ASSUME NEW q \in Requests, pc'[q] \in HoldPcs
               PROVE  ~Outstanding(slot[q])' /\ reply'[slot'[q]] = {}
    BY DEF HeldNowhere
  <2>1. q # r /\ pc[q] \in HoldPcs BY <1>1 DEF TypeOK, TypeReq, HoldPcs
  <2>2. slot[q] \in Slots /\ slot[q] # slot[r] BY <1>2, <2>1 DEF HoldInv
  <2>3. ~Outstanding(slot[q]) /\ reply[slot[q]] = {}
    BY <2>1 DEF Places, MsgInv, HeldNowhere
  <2> QED BY <1>1, <1>7, <2>2, <2>3
<1>10. WorkerCarries' BY <1>1 DEF Places, MsgInv, WorkerCarries
<1>11. ReplyOwn' BY <1>1 DEF Places, MsgInv, ReplyOwn
<1> QED BY <1>7, <1>8, <1>9, <1>10, <1>11 DEF Places, MsgInv

\* A step that leaves the callers alone and answers at most message m, which
\* it takes out of its place: what remains to show is only where messages are.
LEMMA CallersUnmoved ==
  ASSUME TypeOK, TypeOK', Places, HoldInv, HoldInv', NEW m \in Slots,
         OnePlace', WorkerCarries', UNCHANGED <<pc, slot, owner>>,
         \A s \in Slots : Outstanding(s)' => Outstanding(s),
         Outstanding(m),
         \/ UNCHANGED reply
         \/ /\ ~Outstanding(m)'
            /\ \E why \in Whys :
                 reply' = [reply EXCEPT ![m] = @ \cup {[req |-> owner[m], why |-> why]}]
  PROVE  Places'
<1>1. owner[m] # NoReq /\ reply[m] = {} BY DEF Places, MsgInv, OutstandingOwned
<1>2. \A s \in Slots : s # m => reply'[s] = reply[s]
  BY DEF TypeOK, TypeChan
<1>3. \/ UNCHANGED reply
      \/ ~Outstanding(m)' /\ \E why \in Whys : reply'[m] = {[req |-> owner[m], why |-> why]}
  BY <1>1 DEF TypeOK, TypeChan
<1>4. OutstandingOwned'
  BY <1>2, <1>3 DEF Places, MsgInv, OutstandingOwned
<1>5. HeldNowhere'
  <2> SUFFICES ASSUME NEW q \in Requests, pc[q] \in HoldPcs
               PROVE  ~Outstanding(slot[q])' /\ reply'[slot[q]] = {}
    BY DEF HeldNowhere
  <2>1. slot[q] \in Slots /\ ~Outstanding(slot[q]) /\ reply[slot[q]] = {}
    BY DEF Places, MsgInv, HeldNowhere, HoldInv
  <2>2. slot[q] # m BY <2>1
  <2> QED BY <1>2, <2>1, <2>2
<1>6. ReplyOwn'
  <2> SUFFICES ASSUME NEW s \in Slots, NEW u \in reply'[s], NEW v \in reply'[s]
               PROVE  u = v /\ u.req = owner[s]
    BY DEF ReplyOwn
  <2>1. CASE reply'[s] = reply[s] BY <2>1 DEF Places, MsgInv, ReplyOwn
  <2>2. CASE s = m /\ \E why \in Whys : reply'[m] = {[req |-> owner[m], why |-> why]}
    BY <2>2
  <2> QED BY <1>2, <1>3, <2>1, <2>2
<1> QED BY <1>4, <1>5, <1>6 DEF Places, MsgInv

\* A worker takes a message from its queue.
LEMMA WorkerTakeMoves ==
  ASSUME TypeOK, TypeOK', Places, HoldInv, HoldInv',
         NEW g \in Gens, NEW w \in Workers, WorkerTake(g, w)
  PROVE  Places'
<1> DEFINE x == <<g, w>>
<1>0. PICK m, v : m = Head(queue[g]) /\ v = [slot |-> m, req |-> owner[m]]
  OBVIOUS
<1>1. /\ UNCHANGED <<hand, owner, reply, slot, pc>> /\ queue[g] # <<>>
      /\ queue' = [queue EXCEPT ![g] = Tail(@)]
      /\ wst' = [wst EXCEPT ![x] = "busy"] /\ wmsg' = [wmsg EXCEPT ![x] = v]
  BY <1>0 DEF WorkerTake, chanVars, admVars, reqVars
<1>2. /\ QueueDistinct' /\ m \in Slots /\ InQueue(m)
      /\ \A s \in Slots : InQueue(s)' => InQueue(s) /\ s # m
  BY <1>0, <1>1, TakeHead DEF Places, OnePlace, TypeOK
<1>3. ~AtWorker(m) /\ ~InHand(m) /\ Outstanding(m)
  BY <1>2 DEF Places, OnePlace, PlacesDisjoint, Outstanding
<1>4. x \in Gens \X Workers /\ v \in Message /\ v.slot = m /\ v.req = owner[m]
  BY <1>0, <1>2 DEF Message, TypeOK, TypeChan
<1> HIDE DEF x
<1>5. /\ WorkersDistinct'
      /\ \A y \in Gens \X Workers : wst'[y] = "busy" =>
           (wst[y] = "busy" /\ wmsg'[y] = wmsg[y]) \/ wmsg'[y] = v
      /\ \A s \in Slots : AtWorker(s)' => AtWorker(s) \/ s = m
  <2>1. wst'[x] = "busy" /\ wmsg'[x] = v
    BY <1>1, <1>4 DEF TypeOK, TypeWork
  <2>2. \A y \in Gens \X Workers : y # x => wst'[y] = wst[y] /\ wmsg'[y] = wmsg[y]
    BY <1>1 DEF TypeOK, TypeWork
  <2>3. \A y \in Gens \X Workers : wst[y] = "busy" => wmsg[y].slot # m
    BY <1>3 DEF AtWorker
  <2>4. WorkersDistinct'
    BY <1>4, <2>1, <2>2, <2>3 DEF Places, OnePlace, WorkersDistinct
  <2>5. \A y \in Gens \X Workers : wst'[y] = "busy" =>
          (wst[y] = "busy" /\ wmsg'[y] = wmsg[y]) \/ wmsg'[y] = v
    BY <2>1, <2>2
  <2>6. \A s \in Slots : AtWorker(s)' => AtWorker(s) \/ s = m
    BY <1>4, <2>5 DEF AtWorker
  <2> QED BY <2>4, <2>5, <2>6
<1>6. \A s \in Slots : InHand(s)' => InHand(s) BY <1>1 DEF InHand
<1>7. OnePlace' /\ \A s \in Slots : Outstanding(s)' => Outstanding(s)
  BY <1>2, <1>3, <1>5, <1>6 DEF Places, OnePlace, PlacesDisjoint, Outstanding
<1>8. WorkerCarries'
  BY <1>1, <1>2, <1>4, <1>5 DEF Places, MsgInv, WorkerCarries
<1> QED BY <1>1, <1>2, <1>3, <1>7, <1>8, CallersUnmoved

\* A worker answers its message, and forgets it.
LEMMA AnswerMoves ==
  ASSUME TypeOK, TypeOK', Places, HoldInv, HoldInv',
         NEW g \in Gens, NEW w \in Workers, NEW why \in {"ok", "err"},
         wst[<<g, w>>] = "busy", WorkerIdle(g, w),
         Send(wmsg[<<g, w>>].slot, [req |-> wmsg[<<g, w>>].req, why |-> why]),
         UNCHANGED <<queue, hand, owner, pc, slot>>
  PROVE  Places'
<1> DEFINE x == <<g, w>>
<1>0. PICK m : m = wmsg[x].slot
  OBVIOUS
<1>1. x \in Gens \X Workers /\ wst[x] = "busy"
      /\ wst' = [wst EXCEPT ![x] = "idle"] /\ wmsg' = [wmsg EXCEPT ![x] = NoMsg]
  BY DEF WorkerIdle
<1>2. m \in Slots /\ owner[m] = wmsg[x].req
  BY <1>0, <1>1 DEF Places, MsgInv, WorkerCarries
<1>3. reply' = [reply EXCEPT ![m] = @ \cup {[req |-> owner[m], why |-> why]}] /\ why \in Whys
  BY <1>0, <1>2 DEF Send, Whys
<1> HIDE DEF x
<1>4. /\ WorkersDistinct' /\ AtWorker(m)
      /\ \A y \in Gens \X Workers : wst'[y] = "busy" => wst[y] = "busy" /\ wmsg'[y] = wmsg[y]
      /\ \A s \in Slots : AtWorker(s)' => AtWorker(s) /\ s # m
  BY <1>0, <1>1, WorkerGivesUp DEF Places, OnePlace, TypeOK
<1>5. QueueDistinct' BY DEF Places, OnePlace, QueueDistinct
<1>6. \A s \in Slots : InQueue(s)' => InQueue(s) BY DEF InQueue
<1>7. \A s \in Slots : InHand(s)' => InHand(s) BY DEF InHand
<1>8. OnePlace' /\ \A s \in Slots : Outstanding(s)' => Outstanding(s)
  BY <1>4, <1>5, <1>6, <1>7, PlacesAfter
<1>9. Outstanding(m) /\ ~Outstanding(m)'
  BY <1>2, <1>4, <1>6, <1>7 DEF Places, OnePlace, PlacesDisjoint, Outstanding
<1>10. WorkerCarries' BY <1>4 DEF Places, MsgInv, WorkerCarries
<1> QED BY <1>2, <1>3, <1>8, <1>9, <1>10, CallersUnmoved

\* A drain loop takes a message from a queue and may answer it.
LEMMA DrainMoves ==
  ASSUME TypeOK, TypeOK', Places, HoldInv, HoldInv',
         NEW g \in Gens, NEW why \in Whys, DrainOne(g, why),
         UNCHANGED <<wst, wmsg, hand, pc, slot>>
  PROVE  Places'
<1>0. PICK m : m = Head(queue[g])
  OBVIOUS
<1>1. queue[g] # <<>> /\ queue' = [queue EXCEPT ![g] = Tail(@)] /\ owner' = owner
      /\ (\/ UNCHANGED reply
          \/ reply' = [reply EXCEPT ![m] = @ \cup {[req |-> owner[m], why |-> why]}])
  BY <1>0 DEF DrainOne, Send
<1>2. /\ QueueDistinct' /\ m \in Slots /\ InQueue(m)
      /\ \A s \in Slots : InQueue(s)' => InQueue(s) /\ s # m
  BY <1>0, <1>1, TakeHead DEF Places, OnePlace, TypeOK
<1>3. WorkersDistinct' /\ \A s \in Slots : AtWorker(s)' => AtWorker(s)
  BY WorkersShrink DEF Places, OnePlace
<1>4. \A s \in Slots : InHand(s)' => InHand(s) BY DEF InHand
<1>5. OnePlace' /\ \A s \in Slots : Outstanding(s)' => Outstanding(s)
  BY <1>2, <1>3, <1>4, PlacesAfter
<1>6. Outstanding(m) /\ ~Outstanding(m)'
  BY <1>2, <1>3, <1>4 DEF Places, OnePlace, PlacesDisjoint, Outstanding
<1>7. WorkerCarries' BY <1>1 DEF Places, MsgInv, WorkerCarries
<1> QED BY <1>1, <1>2, <1>5, <1>6, <1>7, CallersUnmoved

\* UpdateProvider takes a message out of the old queue.
LEMMA TransferTakeMoves ==
  ASSUME TypeOK, TypeOK', LockInv, Places, HoldInv, HoldInv', NEW a \in Admins, TransferTake(a)
  PROVE  Places'
<1>0. PICK m : m = Head(queue[old[a]])
  OBVIOUS
<1>1. /\ queue[old[a]] # <<>> /\ queue' = [queue EXCEPT ![old[a]] = Tail(@)]
      /\ UNCHANGED <<wst, wmsg, owner, reply, pc, slot>>
      /\ hand' = [hand EXCEPT ![a] = m]
  BY <1>0 DEF TransferTake, chanVars, reqVars, workVars
<1>2. old[a] \in Gens
  BY DEF TransferTake, LockInv, ReplacePcs, TypeOK, TypeGen, Gens
<1>3. /\ QueueDistinct' /\ m \in Slots /\ InQueue(m)
      /\ \A s \in Slots : InQueue(s)' => InQueue(s) /\ s # m
  BY <1>0, <1>1, <1>2, TakeHead DEF Places, OnePlace, TypeOK
<1>4. ~AtWorker(m) /\ Outstanding(m)
  BY <1>3 DEF Places, OnePlace, PlacesDisjoint, Outstanding
<1>5. WorkersDistinct' /\ \A s \in Slots : AtWorker(s)' => AtWorker(s)
  BY <1>1, WorkersShrink DEF Places, OnePlace
<1>6. \A s \in Slots : InHand(s)' => InHand(s) \/ s = m
  BY <1>1 DEF InHand, TypeOK, TypeAdm
<1>7. OnePlace' /\ \A s \in Slots : Outstanding(s)' => Outstanding(s)
  BY <1>3, <1>4, <1>5, <1>6 DEF Places, OnePlace, PlacesDisjoint, Outstanding
<1>8. WorkerCarries' BY <1>1 DEF Places, MsgInv, WorkerCarries
<1> QED BY <1>1, <1>3, <1>4, <1>7, <1>8, CallersUnmoved

\* Only one lifecycle call has a message in hand: it holds the lock.
LEMMA OneHand ==
  ASSUME TypeOK, TypeOK', LockInv, HoldInv, NEW a \in Admins, apc[a] = "put",
         hand' = [hand EXCEPT ![a] = NoSlot]
  PROVE  /\ hand[a] \in Slots /\ InHand(hand[a])
         /\ \A s \in Slots : ~InHand(s)'
<1>1. hand[a] \in Slots BY DEF HoldInv, TypeOK, TypeAdm
<1>2. \A b \in Admins : b # a => hand[b] = NoSlot
  <2> SUFFICES ASSUME NEW b \in Admins, hand[b] # NoSlot PROVE b = a OBVIOUS
  <2>1. apc[b] = "put" BY DEF HoldInv
  <2>2. lock = a /\ lock = b BY <2>1 DEF LockInv, LockPcs, UpdatePcs
  <2> QED BY <2>2
<1>3. \A b \in Admins : hand'[b] = NoSlot BY <1>2 DEF TypeOK, TypeAdm
<1> QED BY <1>1, <1>3 DEF InHand

\* UpdateProvider puts the message into the new queue.
LEMMA TransferPutMoves ==
  ASSUME TypeOK, TypeOK', LockInv, Places, HoldInv, HoldInv', NEW a \in Admins, TransferPut(a)
  PROVE  Places'
<1>0. PICK m : m = hand[a]
  OBVIOUS
<1>1. /\ apc[a] = "put" /\ queue' = [queue EXCEPT ![requestQueues] = Append(@, m)]
      /\ hand' = [hand EXCEPT ![a] = NoSlot]
      /\ UNCHANGED <<wst, wmsg, owner, reply, pc, slot>>
  BY <1>0 DEF TransferPut, chanVars, reqVars, workVars
<1>2. m \in Slots /\ InHand(m) /\ \A s \in Slots : ~InHand(s)'
  BY <1>0, <1>1, OneHand
<1>3. requestQueues \in Gens
  BY <1>1 DEF LockInv, LockPcs, UpdatePcs, TypeOK, TypeGen, Gens
<1>4. ~InQueue(m) /\ ~AtWorker(m) /\ Outstanding(m)
  BY <1>2 DEF Places, OnePlace, PlacesDisjoint, Outstanding
<1>5. QueueDistinct' /\ \A s \in Slots : InQueue(s)' => InQueue(s) \/ s = m
  BY <1>1, <1>2, <1>3, <1>4, PutLast DEF Places, OnePlace, TypeOK
<1>6. WorkersDistinct' /\ \A s \in Slots : AtWorker(s)' => AtWorker(s)
  BY <1>1, WorkersShrink DEF Places, OnePlace
<1>7. OnePlace' /\ \A s \in Slots : Outstanding(s)' => Outstanding(s)
  BY <1>2, <1>4, <1>5, <1>6 DEF Places, OnePlace, PlacesDisjoint, Outstanding
<1>8. WorkerCarries' BY <1>1 DEF Places, MsgInv, WorkerCarries
<1> QED BY <1>1, <1>2, <1>4, <1>7, <1>8, CallersUnmoved

\* UpdateProvider answers the message it has in hand: the new queue is full.
LEMMA TransferFullMoves ==
  ASSUME TypeOK, TypeOK', LockInv, Places, HoldInv, HoldInv', NEW a \in Admins, TransferFull(a)
  PROVE  Places'
<1>0. PICK m : m = hand[a]
  OBVIOUS
<1>1. /\ apc[a] = "put" /\ hand' = [hand EXCEPT ![a] = NoSlot]
      /\ UNCHANGED <<queue, wst, wmsg, owner, pc, slot>>
      /\ (\/ UNCHANGED reply
          \/ reply' = [reply EXCEPT ![m] = @ \cup {[req |-> owner[m], why |-> "full"]}])
  BY <1>0 DEF TransferFull, Send, genVars, reqVars, workVars
<1>2. m \in Slots /\ InHand(m) /\ \A s \in Slots : ~InHand(s)'
  BY <1>0, <1>1, OneHand
<1>3. QueueDistinct' BY <1>1 DEF Places, OnePlace, QueueDistinct
<1>4. WorkersDistinct' /\ \A s \in Slots : AtWorker(s)' => AtWorker(s)
  BY <1>1, WorkersShrink DEF Places, OnePlace
<1>5. \A s \in Slots : InQueue(s)' => InQueue(s) BY <1>1 DEF InQueue
<1>6. OnePlace' /\ \A s \in Slots : Outstanding(s)' => Outstanding(s)
  BY <1>2, <1>3, <1>4, <1>5, PlacesAfter
<1>7. Outstanding(m) /\ ~Outstanding(m)'
  BY <1>2, <1>4, <1>5 DEF Places, OnePlace, PlacesDisjoint, Outstanding
<1>8. WorkerCarries' BY <1>1 DEF Places, MsgInv, WorkerCarries
<1>9. "full" \in Whys BY DEF Whys
<1> QED BY <1>1, <1>2, <1>6, <1>7, <1>8, <1>9, CallersUnmoved

\* A caller that gives up before its message is enqueued releases it.
LEMMA FailMoves ==
  ASSUME TypeOK, TypeOK', Places, HoldInv, HoldInv', NEW r \in Requests, NEW what \in Outcomes,
         pc[r] \in HoldPcs, Fail(r, what)
  PROVE  Places'
<1>1. ~Outstanding(slot[r]) BY DEF Places, MsgInv, HeldNowhere
<1>2. /\ Release(r) /\ pc' = [pc EXCEPT ![r] = "done"]
      /\ UNCHANGED <<queue, hand, wst, wmsg>>
  BY DEF Fail, Return, genVars, admVars, workVars
<1> QED BY <1>1, <1>2, ReleaseMoves

\* Every step keeps every message in one place, and what it carries intact.
LEMMA MessageStep ==
  ASSUME TypeOK, TypeOK', LockInv, HoldInv, HoldInv', Places, [Next]_vars
  PROVE  Places'
<1>3. ASSUME UNCHANGED <<queue, hand, owner, reply, wst, wmsg, pc, slot>> PROVE Places'
  BY <1>3, NothingMoves
<1>1. CASE UNCHANGED vars
  BY <1>1, <1>3 DEF vars, reqVars, chanVars, genVars, workVars, admVars
<1>2. CASE Next
  <2>1. ASSUME NEW r \in Requests, Cancel(r) PROVE Places'
    BY <2>1, <1>3 DEF Cancel, reqVars, chanVars, genVars, workVars, admVars, shutVars, histVars
  <2>2. ASSUME NEW r \in Requests, GetProviderQueue(r) PROVE Places'
    <3>1. UNCHANGED <<queue, hand, owner, reply>>
      BY <2>2 DEF GetProviderQueue, Goto, reqVars, chanVars, genVars, workVars, admVars,
         shutVars, histVars
    <3>2. \A x \in Gens \X Workers : wst'[x] = "busy" => wst[x] = "busy" /\ wmsg'[x] = wmsg[x]
      BY <2>2 DEF GetProviderQueue, Goto, workVars, TypeOK, TypeWork
    <3>3. \A q \in Requests : pc'[q] \in HoldPcs => pc[q] \in HoldPcs /\ slot'[q] = slot[q]
      BY <2>2 DEF GetProviderQueue, Goto, reqVars, HoldPcs, TypeOK, TypeReq
    <3> QED BY <3>1, <3>2, <3>3, NothingMoves
  <2>3. ASSUME NEW r \in Requests, CreateProviderQueue(r) PROVE Places'
    <3>1. UNCHANGED <<queue, hand, owner, reply>>
      BY <2>3 DEF CreateProviderQueue, PublishQueue, Goto, Return, reqVars, chanVars, genVars,
         workVars, admVars, shutVars, histVars
    <3>2. \A x \in Gens \X Workers : wst'[x] = "busy" => wst[x] = "busy" /\ wmsg'[x] = wmsg[x]
      BY <2>3 DEF CreateProviderQueue, PublishQueue, Goto, Return, workVars, TypeOK, TypeWork
    <3>3. \A q \in Requests : pc'[q] \in HoldPcs => pc[q] \in HoldPcs /\ slot'[q] = slot[q]
      BY <2>3 DEF CreateProviderQueue, PublishQueue, Goto, Return, reqVars, HoldPcs, TypeOK, TypeReq
    <3> QED BY <3>1, <3>2, <3>3, NothingMoves
  <2>4. ASSUME NEW r \in Requests, PrepareForRequest(r) PROVE Places'
    <3>1. UNCHANGED <<queue, hand, owner, reply>>
      BY <2>4 DEF PrepareForRequest, PrepareOK, StartWorkers, Goto, Return, reqVars, chanVars,
         genVars, workVars, admVars, shutVars, histVars
    <3>2. \A x \in Gens \X Workers : wst'[x] = "busy" => wst[x] = "busy" /\ wmsg'[x] = wmsg[x]
      BY <2>4 DEF PrepareForRequest, PrepareOK, StartWorkers, Goto, Return, workVars, TypeOK,
         TypeWork
    <3>3. \A q \in Requests : pc'[q] \in HoldPcs => pc[q] \in HoldPcs /\ slot'[q] = slot[q]
      BY <2>4 DEF PrepareForRequest, PrepareOK, StartWorkers, Goto, Return, reqVars, HoldPcs,
         TypeOK, TypeReq
    <3> QED BY <3>1, <3>2, <3>3, NothingMoves
  <2>5. ASSUME NEW r \in Requests, ShortCircuit(r) PROVE Places'
    <3>1. UNCHANGED <<queue, hand, owner, reply>>
      BY <2>5 DEF ShortCircuit, Return, reqVars, chanVars, genVars, workVars, admVars, shutVars,
         histVars
    <3>2. \A x \in Gens \X Workers : wst'[x] = "busy" => wst[x] = "busy" /\ wmsg'[x] = wmsg[x]
      BY <2>5 DEF ShortCircuit, Return, workVars, TypeOK, TypeWork
    <3>3. \A q \in Requests : pc'[q] \in HoldPcs => pc[q] \in HoldPcs /\ slot'[q] = slot[q]
      BY <2>5 DEF ShortCircuit, Return, reqVars, HoldPcs, TypeOK, TypeReq
    <3> QED BY <3>1, <3>2, <3>3, NothingMoves
  <2>6. ASSUME NEW r \in Requests, GetChannelMessage(r) PROVE Places'
    BY <2>6, AcquireMoves
  <2>7. ASSUME NEW r \in Requests, Reroute(r) PROVE Places'
    <3>1. UNCHANGED <<queue, hand, owner, reply>>
      BY <2>7 DEF Reroute, Goto, reqVars, chanVars, genVars, workVars, admVars, shutVars, histVars
    <3>2. \A x \in Gens \X Workers : wst'[x] = "busy" => wst[x] = "busy" /\ wmsg'[x] = wmsg[x]
      BY <2>7 DEF Reroute, Goto, workVars, TypeOK, TypeWork
    <3>3. \A q \in Requests : pc'[q] \in HoldPcs => pc[q] \in HoldPcs /\ slot'[q] = slot[q]
      BY <2>7 DEF Reroute, Goto, reqVars, HoldPcs, TypeOK, TypeReq
    <3> QED BY <3>1, <3>2, <3>3, NothingMoves
  <2>8. ASSUME NEW r \in Requests, NoReroute(r) PROVE Places'
    <3>1. pc[r] \in HoldPcs /\ \E what \in Outcomes : Fail(r, what)
      BY <2>8 DEF NoReroute, HoldPcs, Outcomes, Whys
    <3> QED BY <3>1, FailMoves
  <2>9. ASSUME NEW r \in Requests, CheckCandidate(r) PROVE Places'
    <3>1. pc[r] \in HoldPcs BY <2>9 DEF CheckCandidate, HoldPcs
    <3>2. CASE \E what \in Outcomes : Fail(r, what)
      BY <3>1, <3>2, FailMoves
    <3>3. ASSUME NEW l \in HoldPcs, Goto(r, l), UNCHANGED <<slot, chanVars, genVars, workVars, admVars>>
          PROVE  Places'
      <4>1. UNCHANGED <<queue, hand, owner, reply, wst, wmsg>>
        BY <3>3 DEF chanVars, genVars, workVars, admVars
      <4>2. \A q \in Requests : pc'[q] \in HoldPcs => pc[q] \in HoldPcs /\ slot'[q] = slot[q]
        BY <3>1, <3>3 DEF Goto, TypeOK, TypeReq
      <4> QED BY <4>1, <4>2, NothingMoves
    <3> QED BY <2>9, <3>2, <3>3 DEF CheckCandidate, HoldPcs, Outcomes, Whys
  <2>10. ASSUME NEW r \in Requests, Enqueue(r) PROVE Places'
    BY <2>10, EnqueueMoves
  <2>11. ASSUME NEW r \in Requests, SeeDone(r) PROVE Places'
    <3>1. pc[r] \in HoldPcs /\ \E what \in Outcomes : Fail(r, what)
      BY <2>11 DEF SeeDone, HoldPcs, Outcomes, Whys
    <3> QED BY <3>1, FailMoves
  <2>12. ASSUME NEW r \in Requests, GiveUpSend(r) PROVE Places'
    <3>1. pc[r] \in HoldPcs /\ \E what \in Outcomes : Fail(r, what)
      BY <2>12 DEF GiveUpSend, HoldPcs, Outcomes, Whys
    <3> QED BY <3>1, FailMoves
  <2>13. ASSUME NEW r \in Requests, QueueFull(r) PROVE Places'
    <3>1. pc[r] \in HoldPcs BY <2>13 DEF QueueFull, HoldPcs
    <3>2. CASE \E what \in Outcomes : Fail(r, what)
      BY <3>1, <3>2, FailMoves
    <3>3. ASSUME NEW l \in HoldPcs, Goto(r, l), UNCHANGED <<slot, chanVars, genVars, workVars, admVars>>
          PROVE  Places'
      <4>1. UNCHANGED <<queue, hand, owner, reply, wst, wmsg>>
        BY <3>3 DEF chanVars, genVars, workVars, admVars
      <4>2. \A q \in Requests : pc'[q] \in HoldPcs => pc[q] \in HoldPcs /\ slot'[q] = slot[q]
        BY <3>1, <3>3 DEF Goto, TypeOK, TypeReq
      <4> QED BY <4>1, <4>2, NothingMoves
    <3> QED BY <2>13, <3>2, <3>3 DEF QueueFull, HoldPcs, Outcomes, Whys
  <2>14. ASSUME NEW r \in Requests, Recheck(r) PROVE Places'
    <3>1. pc[r] \in HoldPcs BY <2>14 DEF Recheck, HoldPcs
    <3>2. CASE \E what \in Outcomes : Fail(r, what)
      BY <3>1, <3>2, FailMoves
    <3>3. ASSUME NEW l \in HoldPcs, Goto(r, l), UNCHANGED <<slot, chanVars, genVars, workVars, admVars>>
          PROVE  Places'
      <4>1. UNCHANGED <<queue, hand, owner, reply, wst, wmsg>>
        BY <3>3 DEF chanVars, genVars, workVars, admVars
      <4>2. \A q \in Requests : pc'[q] \in HoldPcs => pc[q] \in HoldPcs /\ slot'[q] = slot[q]
        BY <3>1, <3>3 DEF Goto, TypeOK, TypeReq
      <4> QED BY <4>1, <4>2, NothingMoves
    <3> QED BY <2>14, <3>2, <3>3 DEF Recheck, HoldPcs, Outcomes, Whys
  <2>15. ASSUME NEW r \in Requests, Receive(r) PROVE Places'
    <3>1. /\ pc[r] \in HoldPcs \cup {"wait"} /\ Release(r) /\ reply[slot[r]] # {}
          /\ pc' = [pc EXCEPT ![r] = "done"] /\ UNCHANGED <<queue, hand, wst, wmsg>>
      BY <2>15 DEF Receive, Return, genVars, admVars, workVars
    <3>2. slot[r] \in Slots BY <3>1 DEF HoldInv
    <3>3. ~Outstanding(slot[r]) BY <3>1, <3>2 DEF Places, MsgInv, OutstandingOwned
    <3> QED BY <3>1, <3>3, ReleaseMoves
  <2>16. ASSUME NEW r \in Requests, LeaveOnCtx(r) PROVE Places'
    <3>1. UNCHANGED <<queue, hand, owner, reply>>
      BY <2>16 DEF LeaveOnCtx, Return, reqVars, chanVars, genVars, workVars, admVars, shutVars,
         histVars
    <3>2. \A x \in Gens \X Workers : wst'[x] = "busy" => wst[x] = "busy" /\ wmsg'[x] = wmsg[x]
      BY <2>16 DEF LeaveOnCtx, Return, workVars, TypeOK, TypeWork
    <3>3. \A q \in Requests : pc'[q] \in HoldPcs => pc[q] \in HoldPcs /\ slot'[q] = slot[q]
      BY <2>16 DEF LeaveOnCtx, Return, reqVars, HoldPcs, TypeOK, TypeReq
    <3> QED BY <3>1, <3>2, <3>3, NothingMoves
  <2>17. ASSUME NEW g \in Gens, NEW w \in Workers, WorkerTake(g, w) PROVE Places'
    BY <2>17, WorkerTakeMoves
  <2>18. ASSUME NEW g \in Gens, NEW w \in Workers, KeyError(g, w) PROVE Places'
    <3>1. /\ wst[<<g, w>>] = "busy" /\ WorkerIdle(g, w)
          /\ \E why \in {"ok", "err"} :
               Send(wmsg[<<g, w>>].slot, [req |-> wmsg[<<g, w>>].req, why |-> why])
      BY <2>18 DEF KeyError
    <3>2. UNCHANGED <<queue, hand, owner, pc, slot>>
      BY <2>18 DEF KeyError, genVars, admVars, reqVars
    <3> QED BY <3>1, <3>2, AnswerMoves
  <2>19. ASSUME NEW g \in Gens, NEW w \in Workers, Deliver(g, w) PROVE Places'
    <3>1. /\ wst[<<g, w>>] = "busy" /\ WorkerIdle(g, w)
          /\ \E why \in {"ok", "err"} :
               Send(wmsg[<<g, w>>].slot, [req |-> wmsg[<<g, w>>].req, why |-> why])
      BY <2>19 DEF Deliver
    <3>2. UNCHANGED <<queue, hand, owner, pc, slot>>
      BY <2>19 DEF Deliver, genVars, admVars, reqVars
    <3> QED BY <3>1, <3>2, AnswerMoves
  <2>20. ASSUME NEW g \in Gens, NEW w \in Workers, Abandon(g, w) PROVE Places'
    <3>1. UNCHANGED <<queue, hand, owner, reply>>
      BY <2>20 DEF Abandon, WorkerIdle, reqVars, chanVars, genVars, workVars, admVars, shutVars,
         histVars
    <3>2. \A x \in Gens \X Workers : wst'[x] = "busy" => wst[x] = "busy" /\ wmsg'[x] = wmsg[x]
      BY <2>20 DEF Abandon, WorkerIdle, workVars, TypeOK, TypeWork
    <3>3. \A q \in Requests : pc'[q] \in HoldPcs => pc[q] \in HoldPcs /\ slot'[q] = slot[q]
      BY <2>20 DEF Abandon, WorkerIdle, reqVars, HoldPcs, TypeOK, TypeReq
    <3> QED BY <3>1, <3>2, <3>3, NothingMoves
  <2>21. ASSUME NEW g \in Gens, NEW w \in Workers, WorkerSeesDone(g, w) PROVE Places'
    <3>1. UNCHANGED <<queue, hand, owner, reply>>
      BY <2>21 DEF WorkerSeesDone, reqVars, chanVars, genVars, workVars, admVars, shutVars, histVars
    <3>2. \A x \in Gens \X Workers : wst'[x] = "busy" => wst[x] = "busy" /\ wmsg'[x] = wmsg[x]
      BY <2>21 DEF WorkerSeesDone, workVars, TypeOK, TypeWork
    <3>3. \A q \in Requests : pc'[q] \in HoldPcs => pc[q] \in HoldPcs /\ slot'[q] = slot[q]
      BY <2>21 DEF WorkerSeesDone, reqVars, HoldPcs, TypeOK, TypeReq
    <3> QED BY <3>1, <3>2, <3>3, NothingMoves
  <2>22. ASSUME NEW g \in Gens, NEW w \in Workers, WorkerDrain(g, w) PROVE Places'
    <3>1. g \in Gens OBVIOUS
    <3>2. /\ DrainOne(g, "closing") /\ "closing" \in Whys
          /\ UNCHANGED <<wst, wmsg, hand, pc, slot>>
      BY <2>22 DEF WorkerDrain, Whys, workVars, admVars, reqVars
    <3> QED BY <3>1, <3>2, DrainMoves
  <2>23. ASSUME NEW g \in Gens, NEW w \in Workers, WorkerExit(g, w) PROVE Places'
    <3>1. UNCHANGED <<queue, hand, owner, reply>>
      BY <2>23 DEF WorkerExit, reqVars, chanVars, genVars, workVars, admVars, shutVars, histVars
    <3>2. \A x \in Gens \X Workers : wst'[x] = "busy" => wst[x] = "busy" /\ wmsg'[x] = wmsg[x]
      BY <2>23 DEF WorkerExit, workVars, TypeOK, TypeWork
    <3>3. \A q \in Requests : pc'[q] \in HoldPcs => pc[q] \in HoldPcs /\ slot'[q] = slot[q]
      BY <2>23 DEF WorkerExit, reqVars, HoldPcs, TypeOK, TypeReq
    <3> QED BY <3>1, <3>2, <3>3, NothingMoves
  <2>24. ASSUME NEW g \in Gens, CleanupWait(g) PROVE Places'
    BY <2>24, <1>3 DEF CleanupWait, reqVars, chanVars, genVars, workVars, admVars, shutVars,
       histVars
  <2>25. ASSUME NEW g \in Gens, CleanupDrain(g) PROVE Places'
    <3>1. g \in Gens OBVIOUS
    <3>2. /\ DrainOne(g, "closing") /\ "closing" \in Whys
          /\ UNCHANGED <<wst, wmsg, hand, pc, slot>>
      BY <2>25 DEF CleanupDrain, Whys, workVars, admVars, reqVars
    <3> QED BY <3>1, <3>2, DrainMoves
  <2>26. ASSUME NEW g \in Gens, CleanupFinish(g) PROVE Places'
    BY <2>26, <1>3 DEF CleanupFinish, reqVars, chanVars, genVars, workVars, admVars, shutVars,
       histVars
  <2>27. ASSUME NEW a \in Admins, UpdateBegin(a) PROVE Places'
    BY <2>27, <1>3 DEF UpdateBegin, AGoto, reqVars, chanVars, genVars, workVars, admVars,
       shutVars, histVars
  <2>28. ASSUME NEW a \in Admins, GetProviderByKey(a) PROVE Places'
    BY <2>28, <1>3 DEF GetProviderByKey, AGoto, PublishQueue, reqVars, chanVars, genVars,
       workVars, admVars, shutVars, histVars
  <2>29. ASSUME NEW a \in Admins, RemoveBegin(a) PROVE Places'
    BY <2>29, <1>3 DEF RemoveBegin, AGoto, reqVars, chanVars, genVars, workVars, admVars,
       shutVars, histVars
  <2>30. ASSUME NEW a \in Admins, UpdatePrepare(a) PROVE Places'
    BY <2>30, <1>3 DEF UpdatePrepare, AGoto, PublishQueue, reqVars, chanVars, genVars, workVars,
       admVars, shutVars, histVars
  <2>31. ASSUME NEW a \in Admins, UpdateConstructFails(a) PROVE Places'
    BY <2>31, <1>3 DEF UpdateConstructFails, AGoto, reqVars, chanVars, genVars, workVars,
       admVars, shutVars, histVars
  <2>32. ASSUME NEW a \in Admins, UpdatePublish(a) PROVE Places'
    <3>1. UNCHANGED <<queue, hand, owner, reply>>
      BY <2>32 DEF UpdatePublish, AGoto, StartWorkers, reqVars, chanVars, genVars, workVars,
         admVars, shutVars, histVars
    <3>2. \A x \in Gens \X Workers : wst'[x] = "busy" => wst[x] = "busy" /\ wmsg'[x] = wmsg[x]
      BY <2>32 DEF UpdatePublish, AGoto, StartWorkers, workVars, TypeOK, TypeWork
    <3>3. \A q \in Requests : pc'[q] \in HoldPcs => pc[q] \in HoldPcs /\ slot'[q] = slot[q]
      BY <2>32 DEF UpdatePublish, AGoto, StartWorkers, reqVars, HoldPcs, TypeOK, TypeReq
    <3> QED BY <3>1, <3>2, <3>3, NothingMoves
  <2>33. ASSUME NEW a \in Admins, TransferTake(a) PROVE Places'
    BY <2>33, TransferTakeMoves
  <2>34. ASSUME NEW a \in Admins, TransferPut(a) PROVE Places'
    BY <2>34, TransferPutMoves
  <2>35. ASSUME NEW a \in Admins, TransferFull(a) PROVE Places'
    BY <2>35, TransferFullMoves
  <2>36. ASSUME NEW a \in Admins, CancelRest(a) PROVE Places'
    <3>1. old[a] \in Gens
      BY <2>36 DEF CancelRest, LockInv, ReplacePcs, RemovePcs, TypeOK, TypeGen, Gens
    <3>2. /\ DrainOne(old[a], "full") /\ "full" \in Whys
          /\ UNCHANGED <<wst, wmsg, hand, pc, slot>>
      BY <2>36 DEF CancelRest, Whys, workVars, admVars, reqVars
    <3> QED BY <3>1, <3>2, DrainMoves
  <2>37. ASSUME NEW a \in Admins, TransferDone(a) PROVE Places'
    BY <2>37, <1>3 DEF TransferDone, AGoto, reqVars, chanVars, genVars, workVars, admVars,
       shutVars, histVars
  <2>38. ASSUME NEW a \in Admins, RetireOld(a) PROVE Places'
    BY <2>38, <1>3 DEF RetireOld, AGoto, reqVars, chanVars, genVars, workVars, admVars, shutVars,
       histVars
  <2>39. ASSUME NEW a \in Admins, PrepareForAdmin(a) PROVE Places'
    <3>1. UNCHANGED <<queue, hand, owner, reply>>
      BY <2>39 DEF PrepareForAdmin, AGoto, PrepareOK, StartWorkers, reqVars, chanVars, genVars,
         workVars, admVars, shutVars, histVars
    <3>2. \A x \in Gens \X Workers : wst'[x] = "busy" => wst[x] = "busy" /\ wmsg'[x] = wmsg[x]
      BY <2>39 DEF PrepareForAdmin, AGoto, PrepareOK, StartWorkers, workVars, TypeOK, TypeWork
    <3>3. \A q \in Requests : pc'[q] \in HoldPcs => pc[q] \in HoldPcs /\ slot'[q] = slot[q]
      BY <2>39 DEF PrepareForAdmin, AGoto, PrepareOK, StartWorkers, reqVars, HoldPcs, TypeOK,
         TypeReq
    <3> QED BY <3>1, <3>2, <3>3, NothingMoves
  <2>40. ASSUME NEW a \in Admins, RemoveWait(a) PROVE Places'
    BY <2>40, <1>3 DEF RemoveWait, AGoto, reqVars, chanVars, genVars, workVars, admVars,
       shutVars, histVars
  <2>41. ASSUME NEW a \in Admins, RemoveDrain(a) PROVE Places'
    <3>1. old[a] \in Gens
      BY <2>41 DEF RemoveDrain, LockInv, ReplacePcs, RemovePcs, TypeOK, TypeGen, Gens
    <3>2. /\ DrainOne(old[a], "closing") /\ "closing" \in Whys
          /\ UNCHANGED <<wst, wmsg, hand, pc, slot>>
      BY <2>41 DEF RemoveDrain, Whys, workVars, admVars, reqVars
    <3> QED BY <3>1, <3>2, DrainMoves
  <2>42. ASSUME NEW a \in Admins, RemoveDrained(a) PROVE Places'
    BY <2>42, <1>3 DEF RemoveDrained, AGoto, reqVars, chanVars, genVars, workVars, admVars,
       shutVars, histVars
  <2>43. ASSUME NEW a \in Admins, RemoveFinish(a) PROVE Places'
    BY <2>43, <1>3 DEF RemoveFinish, AGoto, reqVars, chanVars, genVars, workVars, admVars,
       shutVars, histVars
  <2>44. ASSUME ShutdownBegin PROVE Places'
    BY <2>44, <1>3 DEF ShutdownBegin, SGoto, reqVars, chanVars, genVars, workVars, admVars,
       shutVars, histVars
  <2>45. ASSUME ShutdownSignal PROVE Places'
    BY <2>45, <1>3 DEF ShutdownSignal, SGoto, reqVars, chanVars, genVars, workVars, admVars,
       shutVars, histVars
  <2>46. ASSUME ShutdownRange PROVE Places'
    BY <2>46, <1>3 DEF ShutdownRange, SGoto, reqVars, chanVars, genVars, workVars, admVars,
       shutVars, histVars
  <2>47. ASSUME ShutdownWait PROVE Places'
    BY <2>47, <1>3 DEF ShutdownWait, SGoto, reqVars, chanVars, genVars, workVars, admVars,
       shutVars, histVars
  <2>48. ASSUME ShutdownCleanups PROVE Places'
    BY <2>48, <1>3 DEF ShutdownCleanups, SGoto, reqVars, chanVars, genVars, workVars, admVars,
       shutVars, histVars
  <2>49. ASSUME ShutdownDrain PROVE Places'
    <3>1. sgen \in Gens BY <2>49 DEF ShutdownDrain, TypeOK, TypeShut, Gens
    <3>2. /\ DrainOne(sgen, "closing") /\ "closing" \in Whys
          /\ UNCHANGED <<wst, wmsg, hand, pc, slot>>
      BY <2>49 DEF ShutdownDrain, Whys, workVars, admVars, reqVars
    <3> QED BY <3>1, <3>2, DrainMoves
  <2>50. ASSUME ShutdownFinish PROVE Places'
    BY <2>50, <1>3 DEF ShutdownFinish, SGoto, reqVars, chanVars, genVars, workVars, admVars,
       shutVars, histVars
  <2>51. ASSUME Quiescent PROVE Places'
    BY <2>51, <1>1 DEF Quiescent
  <2> QED
    BY <1>2, <2>1, <2>2, <2>3, <2>4, <2>5, <2>6, <2>7, <2>8, <2>9, <2>10, 
       <2>11, <2>12, <2>13, <2>14, <2>15, <2>16, <2>17, <2>18, <2>19, <2>20, 
       <2>21, <2>22, <2>23, <2>24, <2>25, <2>26, <2>27, <2>28, <2>29, <2>30, 
       <2>31, <2>32, <2>33, <2>34, <2>35, <2>36, <2>37, <2>38, <2>39, <2>40, 
       <2>41, <2>42, <2>43, <2>44, <2>45, <2>46, <2>47, <2>48, <2>49, <2>50, 
       <2>51 DEF Next, RequestStep, WorkerStep, CleanupStep,
       AdminBegin, AdminStep, UpdateStep, RemoveStep, ShutdownStep
<1> QED BY <1>1, <1>2

(***************************************************************************)
(* The theorems.                                                           *)
(***************************************************************************)
IndInv == TypeOK /\ LockInv /\ HoldInv /\ Places

\* The state Init() leaves satisfies the inductive invariant: nothing is held,
\* queued or in process.
LEMMA InitInv == Init => IndInv
<1> SUFFICES ASSUME NEW how \in Startup, InitState(how) PROVE IndInv
  BY DEF Init
<1>1. TypeOK
  <2>1. requestQueues \in 0..1 /\ ngen = requestQueues /\ 1 \in Gens
    BY DEF InitState, Gens
  <2>2. TypeGen BY <2>1 DEF InitState, TypeGen, Gens
  <2>3. TypeReq BY DEF InitState, TypeReq, ReqPcs, Outcomes
  <2>4. TypeChan BY DEF InitState, TypeChan
  <2>5. TypeWork BY DEF InitState, TypeWork, WorkerStates
  <2>6. TypeAdm BY DEF InitState, TypeAdm, AdmPcs
  <2>7. TypeShut /\ TypeHist /\ TypeLock
    BY DEF InitState, TypeShut, TypeHist, TypeLock, ShutPcs
  <2> QED BY <2>2, <2>3, <2>4, <2>5, <2>6, <2>7 DEF TypeOK
<1>2. LockInv
  BY DEF InitState, LockInv, LockPcs, ReplacePcs, UpdatePcs, RemovePcs
<1>3. HoldInv BY DEF InitState, HoldInv, HoldPcs
<1>4. \A g \in Gens : Len(queue[g]) = 0 BY DEF InitState
<1>5. \A x \in Gens \X Workers : wst[x] # "busy" BY DEF InitState
<1>6. \A s \in Slots : ~Outstanding(s)
  BY <1>4, <1>5 DEF Outstanding, InQueue, AtWorker, InHand, InitState
<1>7. OnePlace
  BY <1>4, <1>5, <1>6 DEF OnePlace, QueueDistinct, WorkersDistinct, PlacesDisjoint, Outstanding
<1>8. MsgInv
  BY <1>5, <1>6 DEF MsgInv, OutstandingOwned, HeldNowhere, WorkerCarries, ReplyOwn,
                    InitState, HoldPcs
<1> QED BY <1>1, <1>2, <1>3, <1>7, <1>8 DEF IndInv, Places

\* The conjunction of the four invariants is inductive.
LEMMA StepInv == IndInv /\ [Next]_vars => IndInv'
<1> SUFFICES ASSUME IndInv, [Next]_vars PROVE IndInv'
  OBVIOUS
<1>1. TypeOK /\ LockInv /\ HoldInv /\ Places BY DEF IndInv
<1>2. TypeOK' BY <1>1, TypeStep
<1>3. LockInv' BY <1>1, LockStep
<1>4. HoldInv' BY <1>1, HoldStep
<1>5. Places' BY <1>1, <1>2, <1>4, MessageStep
<1> QED BY <1>2, <1>3, <1>4, <1>5 DEF IndInv

\* The inductive invariant holds throughout, for any number of callers,
\* messages, workers, lifecycle calls, queues and any buffer size.
THEOREM Invariance == Spec => []IndInv
BY InitInv, StepInv, PTL DEF Spec

\* Every variable of the queue, its callers, workers and lifecycle calls keeps
\* its type.
THEOREM TypeCorrect == Spec => []TypeOK
<1>1. IndInv => TypeOK BY DEF IndInv
<1> QED BY <1>1, Invariance, PTL

\* A pooled ChannelMessage is never reused while a queue, a worker or
\* UpdateProvider still refers to it (releaseChannelMessage, tryRequest).
THEOREM PoolSafe == Spec => []NoUseAfterRelease
<1>1. IndInv => NoUseAfterRelease
  <2> SUFFICES ASSUME IndInv PROVE NoUseAfterRelease
    OBVIOUS
  <2>1. \A s \in Slots : Outstanding(s) => owner[s] # NoReq
    BY DEF IndInv, Places, MsgInv, OutstandingOwned
  <2>2. ASSUME NEW g \in Gens, NEW w \in Workers, wst[<<g, w>>] = "busy"
        PROVE  owner[wmsg[<<g, w>>].slot] = wmsg[<<g, w>>].req
    BY <2>2 DEF IndInv, Places, MsgInv, WorkerCarries
  <2> QED BY <2>1, <2>2 DEF NoUseAfterRelease
<1> QED BY <1>1, Invariance, PTL

\* A caller in tryRequest only ever receives a value made for its own request,
\* never has two to choose from, and once answered has no message in flight.
THEOREM RepliesOwn == Spec => []OwnReplyOnly
<1>1. IndInv => OwnReplyOnly
  <2> SUFFICES ASSUME IndInv, NEW r \in Requests, pc[r] = "wait"
               PROVE  /\ \A v \in reply[slot[r]] : v.req = r
                      /\ \A u, v \in reply[slot[r]] : u = v
                      /\ reply[slot[r]] # {} => ~Outstanding(slot[r])
    BY DEF OwnReplyOnly
  <2>1. slot[r] \in Slots /\ owner[slot[r]] = r BY DEF IndInv, HoldInv
  <2>2. \A u, v \in reply[slot[r]] : u = v /\ u.req = owner[slot[r]]
    BY <2>1 DEF IndInv, Places, MsgInv, ReplyOwn
  <2>3. Outstanding(slot[r]) => reply[slot[r]] = {}
    BY <2>1 DEF IndInv, Places, MsgInv, OutstandingOwned
  <2> QED BY <2>1, <2>2, <2>3
<1> QED BY <1>1, Invariance, PTL

====
