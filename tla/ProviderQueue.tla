---------------------------- MODULE ProviderQueue ----------------------------
(***************************************************************************)
(* The request queue of one provider in core/bifrost.go: the callers that  *)
(* enqueue (tryRequest, tryStreamRequest), the worker goroutines           *)
(* (requestWorker), and the operations that create, replace, remove and    *)
(* shut the queue down (prepareProvider, getProviderQueue, getProviderByKey,*)
(* UpdateProvider, RemoveProvider, Shutdown).                              *)
(*                                                                         *)
(* Every ProviderQueue object ever made for the provider is a generation   *)
(* 1..MaxGen.  A request is one call of tryRequest.  A slot is a pooled    *)
(* ChannelMessage together with its Response, Err and ResponseStream       *)
(* channels, which are always acquired and released together.              *)
(***************************************************************************)
EXTENDS Integers, Sequences, FiniteSets

CONSTANTS
  Requests,     \* calls of tryRequest / tryStreamRequest
  Streams,      \* the requests that are streaming
  Slots,        \* the pooled ChannelMessage objects
  Workers,      \* worker goroutines per generation (Concurrency)
  Admins,       \* calls of UpdateProvider, RemoveProvider, getProviderByKey
  Ops,          \* the lifecycle operations that occur
  Startup,      \* how Init may have left the provider
  MaxGen,       \* bound on the number of queues created
  BufferSize,   \* capacity of pq.queue
  DropExcess,   \* the values dropExcessRequests takes while running
  NoReq, NoSlot, NoActor

ASSUME ConstantsAssumption ==
  /\ Streams \subseteq Requests
  /\ Ops \subseteq {"update", "remove", "get", "shutdown"}
  /\ Startup \subseteq {"absent", "ready", "failed"}
  /\ MaxGen \in Nat \ {0}
  /\ BufferSize \in Nat \ {0}
  /\ DropExcess \subseteq BOOLEAN
  /\ NoReq \notin Requests /\ NoSlot \notin Slots
  /\ NoActor \notin Requests \cup Admins
  /\ Requests \cap Admins = {}

VARIABLES
  queue,         \* pq.queue of each generation
  closing,       \* generations whose done channel is closed
  requestQueues, \* the generation stored under the provider's key, 0 if none
  ngen,          \* queues created so far
  instances,     \* generations whose Provider is in bifrost.providers
  wst,           \* state of each worker goroutine
  wmsg,          \* the message a busy worker processes
  cleanup,       \* UpdateProvider's cleanup goroutine of each old generation
  lock,          \* holder of the provider's write mutex
  pc, pq, slot,  \* per request: place in tryRequest, its queue, its message
  ctxDone,       \* requests whose context is cancelled
  outcome,       \* what tryRequest returned
  owner,         \* request a slot carries, NoReq when it is in the pool
  reply,         \* values buffered in a slot's channels
  apc, old, hand,\* per admin: place, generation handled, message in transfer
  spc, sgen,     \* Shutdown: place and generation it looks at
  hooks,         \* runs of the terminal post-hooks for each request
  produced,      \* requests for which the provider produced a terminal value
  swept,         \* generations whose final drain sweep has returned
  late,          \* slots deposited into a swept generation
  atShutdown     \* generations with live workers when Shutdown began

reqVars  == <<pc, pq, slot, ctxDone, outcome>>
chanVars == <<owner, reply>>
genVars  == <<queue, closing, requestQueues, ngen, instances>>
workVars == <<wst, wmsg, cleanup>>
admVars  == <<apc, old, hand>>
shutVars == <<spc, sgen, atShutdown>>
histVars == <<hooks, produced, swept, late>>
vars == <<reqVars, chanVars, genVars, workVars, admVars, shutVars, histVars, lock>>

Gens == 1..MaxGen

(***************************************************************************)
(* Values.                                                                 *)
(***************************************************************************)
Whys == {"ok", "err", "closing", "full"}
Reply == [req : Requests \cup {NoReq}, why : Whys]
Outcomes == Whys \cup {"none", "ctx", "dropped", "noqueue", "shortcircuit"}

ReqPcs == {"lookup", "create", "prepare", "hooks", "reroute", "candidate",
           "send", "recheck", "block", "wait", "done"}
HoldPcs == {"reroute", "candidate", "send", "recheck", "block"}
UpdatePcs == {"ulock", "uprepare", "transfer", "put", "cancel", "retire"}
RemovePcs == {"rwait", "rdrain", "rretired"}
AdmPcs == {"idle", "gprepare", "done"} \cup UpdatePcs \cup RemovePcs
ShutPcs == {"idle", "signal", "range", "wait", "cleanups", "drain", "done"}
WorkerStates == {"unborn", "idle", "busy", "draining", "exited"}

Alive(g) == {w \in Workers : wst[<<g, w>>] \in {"idle", "busy", "draining"}}

(***************************************************************************)
(* The channels of a message.  Each has a buffer of one value.             *)
(***************************************************************************)
Chan(v) ==
  IF v.why # "ok" THEN "Err"
  ELSE IF v.req \in Streams THEN "ResponseStream" ELSE "Response"

CanSend(s, v) == \A u \in reply[s] : Chan(u) # Chan(v)

Send(s, v) == reply' = [reply EXCEPT ![s] = @ \cup {v}]

\* releaseChannelMessage: drain the channels, clear the message, pool it.
Release(r) ==
  /\ owner' = [owner EXCEPT ![slot[r]] = NoReq]
  /\ reply' = [reply EXCEPT ![slot[r]] = {}]
  /\ slot' = [slot EXCEPT ![r] = NoSlot]

Return(r, what) ==
  /\ pc' = [pc EXCEPT ![r] = "done"]
  /\ outcome' = [outcome EXCEPT ![r] = what]

\* An early return of tryRequest that gives the message back.
Fail(r, what) ==
  /\ Release(r)
  /\ Return(r, what)
  /\ UNCHANGED <<pq, ctxDone, genVars, workVars, admVars, shutVars, histVars, lock>>

\* Wrong variant: the drained message is dropped without an answer.
DrainSilently(g, why) ==
  /\ queue[g] # <<>>
  /\ queue' = [queue EXCEPT ![g] = Tail(@)]
  /\ UNCHANGED <<closing, requestQueues, ngen, instances, owner, reply>>

\* One message taken from pq.queue and answered on its Err channel, or left
\* unanswered when its context is done: the body of every drain loop.
DrainOne(g, why) ==
  /\ queue[g] # <<>>
  /\ queue' = [queue EXCEPT ![g] = Tail(@)]
  /\ LET s == Head(queue[g])
         v == [req |-> owner[s], why |-> why]
     IN  \/ CanSend(s, v) /\ Send(s, v)
         \/ owner[s] \in ctxDone /\ UNCHANGED reply
  /\ UNCHANGED <<closing, requestQueues, ngen, instances, owner>>

(***************************************************************************)
(* prepareProvider.  Its caller holds the write lock.  The queue is        *)
(* published first; then the Provider is built, and only when that         *)
(* succeeds is it listed and are the workers started.                      *)
(***************************************************************************)
PublishQueue ==
  /\ ngen < MaxGen
  /\ ngen' = ngen + 1
  /\ requestQueues' = ngen + 1
  /\ UNCHANGED <<queue, closing, instances>>

StartWorkers(g) ==
  wst' = [x \in DOMAIN wst |-> IF x[1] = g THEN "idle" ELSE wst[x]]

PrepareOK ==
  /\ instances' = instances \cup {requestQueues}
  /\ StartWorkers(requestQueues)
  /\ UNCHANGED <<queue, closing, requestQueues, ngen, wmsg, cleanup>>

(***************************************************************************)
(* tryRequest and tryStreamRequest.                                        *)
(***************************************************************************)
Goto(r, l) == pc' = [pc EXCEPT ![r] = l]

\* The caller's context is cancelled: a client disconnect or a deadline.
Cancel(r) ==
  /\ pc[r] # "done" /\ r \notin ctxDone
  /\ ctxDone' = ctxDone \cup {r}
  /\ UNCHANGED <<pc, pq, slot, outcome, chanVars, genVars, workVars, admVars,
                 shutVars, histVars, lock>>

\* getProviderQueue under the read lock.
GetProviderQueue(r) ==
  /\ pc[r] = "lookup" /\ lock = NoActor
  /\ IF requestQueues # 0
       THEN pq' = [pq EXCEPT ![r] = requestQueues] /\ Goto(r, "hooks")
       ELSE Goto(r, "create") /\ UNCHANGED pq
  /\ UNCHANGED <<slot, ctxDone, outcome, chanVars, genVars, workVars, admVars,
                 shutVars, histVars, lock>>

\* getProviderQueue under the write lock: the queue exists by now, or the
\* account has no configuration, or prepareProvider is entered.
CreateProviderQueue(r) ==
  /\ pc[r] = "create" /\ lock = NoActor
  /\ \/ /\ requestQueues # 0
        /\ pq' = [pq EXCEPT ![r] = requestQueues] /\ Goto(r, "hooks")
        /\ UNCHANGED <<outcome, genVars, lock>>
     \/ /\ requestQueues = 0
        /\ Return(r, "noqueue")
        /\ UNCHANGED <<pq, genVars, lock>>
     \/ /\ requestQueues = 0
        /\ PublishQueue
        /\ lock' = r /\ Goto(r, "prepare")
        /\ UNCHANGED <<pq, outcome>>
  /\ UNCHANGED <<slot, ctxDone, chanVars, workVars, admVars, shutVars, histVars>>

PrepareForRequest(r) ==
  /\ pc[r] = "prepare"
  /\ \/ /\ PrepareOK
        /\ pq' = [pq EXCEPT ![r] = requestQueues] /\ Goto(r, "hooks")
        /\ UNCHANGED outcome
     \/ /\ Return(r, "noqueue")
        /\ UNCHANGED <<pq, genVars, workVars>>
  /\ lock' = NoActor
  /\ UNCHANGED <<slot, ctxDone, chanVars, admVars, shutVars, histVars>>

\* A PreProviderHook or PreLLMHook ends the request before it reaches the queue: a
\* short-circuit runs the post-hooks, a hook that leaves no request is an error
\* returned without them.
ShortCircuit(r) ==
  /\ pc[r] = "hooks"
  /\ Return(r, "shortcircuit")
  /\ \/ hooks' = [hooks EXCEPT ![r] = @ + 1]
     \/ UNCHANGED hooks
  /\ UNCHANGED <<pq, slot, ctxDone, chanVars, genVars, workVars, admVars,
                 shutVars, produced, swept, late, lock>>

\* The hooks let the request through: getChannelMessage, then isClosing.
GetChannelMessage(r) ==
  /\ pc[r] = "hooks"
  /\ \E s \in Slots :
       /\ owner[s] = NoReq
       /\ owner' = [owner EXCEPT ![s] = r]
       /\ reply' = [reply EXCEPT ![s] = {}]
       /\ slot' = [slot EXCEPT ![r] = s]
  /\ Goto(r, IF pq[r] \in closing THEN "reroute" ELSE "send")
  /\ UNCHANGED <<pq, ctxDone, outcome, genVars, workVars, admVars, shutVars,
                 histVars, lock>>

\* The queue is closing: load the current one, without the lock.
Reroute(r) ==
  /\ pc[r] = "reroute"
  /\ requestQueues \notin {0, pq[r]}
  /\ pq' = [pq EXCEPT ![r] = requestQueues] /\ Goto(r, "candidate")
  /\ UNCHANGED <<slot, ctxDone, outcome, chanVars, genVars, workVars, admVars,
                 shutVars, histVars, lock>>

NoReroute(r) ==
  /\ pc[r] = "reroute"
  /\ requestQueues \in {0, pq[r]}
  /\ Fail(r, "closing")

CheckCandidate(r) ==
  /\ pc[r] = "candidate"
  /\ IF pq[r] \in closing
       THEN Fail(r, "closing")
       ELSE /\ Goto(r, "send")
            /\ UNCHANGED <<pq, slot, ctxDone, outcome, chanVars, genVars,
                           workVars, admVars, shutVars, histVars, lock>>

\* The send case of either select: there is room in pq.queue.
Enqueue(r) ==
  /\ pc[r] \in {"send", "block"}
  /\ Len(queue[pq[r]]) < BufferSize
  /\ queue' = [queue EXCEPT ![pq[r]] = Append(@, slot[r])]
  /\ late' = IF pq[r] \in swept THEN late \cup {slot[r]} ELSE late \ {slot[r]}
  /\ Goto(r, "wait")
  /\ UNCHANGED <<pq, slot, ctxDone, outcome, chanVars, closing, requestQueues,
                 ngen, instances, workVars, admVars, shutVars, hooks, produced,
                 swept, lock>>

\* The done case of either select.
SeeDone(r) ==
  /\ pc[r] \in {"send", "block"} /\ pq[r] \in closing
  /\ Fail(r, "closing")

\* The ctx.Done case of either select.
GiveUpSend(r) ==
  /\ pc[r] \in {"send", "block"} /\ r \in ctxDone
  /\ Fail(r, "ctx")

\* The default case of the first select: nothing is ready.
QueueFull(r) ==
  /\ pc[r] = "send"
  /\ Len(queue[pq[r]]) >= BufferSize /\ pq[r] \notin closing /\ r \notin ctxDone
  /\ \E drop \in DropExcess :
       IF drop THEN Fail(r, "dropped")
       ELSE /\ Goto(r, "recheck")
            /\ UNCHANGED <<pq, slot, ctxDone, outcome, chanVars, genVars,
                           workVars, admVars, shutVars, histVars, lock>>

Recheck(r) ==
  /\ pc[r] = "recheck"
  /\ IF pq[r] \in closing
       THEN Fail(r, "closing")
       ELSE /\ Goto(r, "block")
            /\ UNCHANGED <<pq, slot, ctxDone, outcome, chanVars, genVars,
                           workVars, admVars, shutVars, histVars, lock>>

\* A value arrives: the post-hooks run (for a stream they run as its chunks
\* are read), the message is released.
Receive(r) ==
  /\ pc[r] = "wait"
  /\ \E v \in reply[slot[r]] :
       /\ Return(r, v.why)
       /\ hooks' = [hooks EXCEPT ![r] = IF Chan(v) = "ResponseStream" THEN @ ELSE @ + 1]
  /\ Release(r)
  /\ UNCHANGED <<pq, ctxDone, genVars, workVars, admVars, shutVars, produced,
                 swept, late, lock>>

\* Wrong variant: the message goes back to the pool although it is enqueued.
LeaveAndRelease(r) ==
  /\ pc[r] = "wait" /\ r \in ctxDone
  /\ Fail(r, "ctx")

\* Wrong variant: the caller that leaves runs the post-hooks too.
LeaveAndBill(r) ==
  /\ pc[r] = "wait" /\ r \in ctxDone
  /\ Return(r, "ctx")
  /\ hooks' = [hooks EXCEPT ![r] = @ + 1]
  /\ UNCHANGED <<pq, slot, ctxDone, chanVars, genVars, workVars, admVars,
                 shutVars, produced, swept, late, lock>>

\* The context is done first: the message is deliberately not released.
LeaveOnCtx(r) ==
  /\ pc[r] = "wait" /\ r \in ctxDone
  /\ Return(r, "ctx")
  /\ UNCHANGED <<pq, slot, ctxDone, chanVars, genVars, workVars, admVars,
                 shutVars, histVars, lock>>

(***************************************************************************)
(* requestWorker.                                                          *)
(***************************************************************************)
Message == [slot : Slots, req : Requests \cup {NoReq}]
NoMsg == [slot |-> NoSlot, req |-> NoReq]

WorkerTake(g, w) ==
  /\ wst[<<g, w>>] = "idle" /\ queue[g] # <<>>
  /\ queue' = [queue EXCEPT ![g] = Tail(@)]
  /\ wst' = [wst EXCEPT ![<<g, w>>] = "busy"]
  /\ wmsg' = [wmsg EXCEPT ![<<g, w>>] =
                [slot |-> Head(queue[g]), req |-> owner[Head(queue[g])]]]
  /\ UNCHANGED <<closing, requestQueues, ngen, instances, cleanup, reqVars,
                 chanVars, admVars, shutVars, histVars, lock>>

WorkerIdle(g, w) ==
  /\ wst' = [wst EXCEPT ![<<g, w>>] = "idle"]
  /\ wmsg' = [wmsg EXCEPT ![<<g, w>>] = NoMsg]
  /\ UNCHANGED cleanup

\* No key can be found: the error is sent without a select.
KeyError(g, w) ==
  /\ wst[<<g, w>>] = "busy"
  /\ LET v == [req |-> wmsg[<<g, w>>].req, why |-> "err"]
     IN  CanSend(wmsg[<<g, w>>].slot, v) /\ Send(wmsg[<<g, w>>].slot, v)
  /\ WorkerIdle(g, w)
  /\ UNCHANGED <<owner, reqVars, genVars, admVars, shutVars, histVars, lock>>

\* The provider call (with its retries) ends.  The send may win even when the
\* context is done: the channel has a buffer.
Deliver(g, w) ==
  /\ wst[<<g, w>>] = "busy"
  /\ \E why \in {"ok", "err"} :
       LET v == [req |-> wmsg[<<g, w>>].req, why |-> why]
       IN  CanSend(wmsg[<<g, w>>].slot, v) /\ Send(wmsg[<<g, w>>].slot, v)
  /\ produced' = produced \cup {wmsg[<<g, w>>].req}
  /\ WorkerIdle(g, w)
  /\ UNCHANGED <<owner, reqVars, genVars, admVars, shutVars, hooks, swept, late, lock>>

\* The context is done: billAbandonedTerminal runs the post-hooks here, for
\* non-streaming requests only.
Abandon(g, w) ==
  /\ wst[<<g, w>>] = "busy" /\ wmsg[<<g, w>>].req \in ctxDone
  /\ produced' = produced \cup {wmsg[<<g, w>>].req}
  /\ hooks' = [r \in Requests |->
                 IF r = wmsg[<<g, w>>].req /\ r \notin Streams THEN hooks[r] + 1 ELSE hooks[r]]
  /\ WorkerIdle(g, w)
  /\ UNCHANGED <<reqVars, chanVars, genVars, admVars, shutVars, swept, late, lock>>

\* The worker sees pq.done and drains what is buffered until it finds nothing.
WorkerSeesDone(g, w) ==
  /\ wst[<<g, w>>] = "idle" /\ g \in closing
  /\ wst' = [wst EXCEPT ![<<g, w>>] = "draining"]
  /\ UNCHANGED <<wmsg, cleanup, reqVars, chanVars, genVars, admVars, shutVars,
                 histVars, lock>>

WorkerDrain(g, w) ==
  /\ wst[<<g, w>>] = "draining"
  /\ DrainOne(g, "closing")
  /\ UNCHANGED <<workVars, reqVars, admVars, shutVars, histVars, lock>>

WorkerExit(g, w) ==
  /\ wst[<<g, w>>] = "draining" /\ queue[g] = <<>>
  /\ wst' = [wst EXCEPT ![<<g, w>>] = "exited"]
  /\ UNCHANGED <<wmsg, cleanup, reqVars, chanVars, genVars, admVars, shutVars,
                 histVars, lock>>

(***************************************************************************)
(* The cleanup goroutine UpdateProvider starts for the generation it       *)
(* replaced.  Its waiting is what retiredWorkerWaits and oldWorkerCleanups *)
(* count.                                                                  *)
(***************************************************************************)
CleanupPending == {g \in Gens : cleanup[g] \in {"waiting", "draining"}}

\* Wrong variant: the goroutine waits for the workers and skips the sweep.
CleanupWithoutSweep(g) ==
  /\ cleanup[g] = "waiting" /\ Alive(g) = {}
  /\ cleanup' = [cleanup EXCEPT ![g] = "finished"]
  /\ UNCHANGED <<wst, wmsg, reqVars, chanVars, genVars, admVars, shutVars,
                 histVars, lock>>

CleanupWait(g) ==
  /\ cleanup[g] = "waiting" /\ Alive(g) = {}
  /\ cleanup' = [cleanup EXCEPT ![g] = "draining"]
  /\ UNCHANGED <<wst, wmsg, reqVars, chanVars, genVars, admVars, shutVars,
                 histVars, lock>>

CleanupDrain(g) ==
  /\ cleanup[g] = "draining"
  /\ DrainOne(g, "closing")
  /\ UNCHANGED <<workVars, reqVars, admVars, shutVars, histVars, lock>>

CleanupFinish(g) ==
  /\ cleanup[g] = "draining" /\ queue[g] = <<>>
  /\ cleanup' = [cleanup EXCEPT ![g] = "finished"]
  /\ swept' = swept \cup {g}
  /\ UNCHANGED <<wst, wmsg, reqVars, chanVars, genVars, admVars, shutVars, hooks,
                 produced, late, lock>>

(***************************************************************************)
(* UpdateProvider.                                                         *)
(***************************************************************************)
AGoto(a, l) == apc' = [apc EXCEPT ![a] = l]

\* providerLifecycleMu.RLock, the shutting-down check, the configuration.
UpdateBegin(a) ==
  /\ apc[a] = "idle" /\ "update" \in Ops
  /\ \/ spc = "idle" /\ AGoto(a, "ulock")
     \/ spc \in {"idle", "done"} /\ AGoto(a, "done")
  /\ UNCHANGED <<old, hand, reqVars, chanVars, genVars, workVars, shutVars,
                 histVars, lock>>

\* Under the write lock with no queue published: prepareProvider.
UpdatePrepare(a) ==
  /\ apc[a] = "ulock" /\ lock = NoActor /\ requestQueues = 0
  /\ PublishQueue
  /\ lock' = a /\ AGoto(a, "uprepare")
  /\ UNCHANGED <<old, hand, reqVars, chanVars, workVars, shutVars, histVars>>

\* createBaseProvider fails: the old generation stays active.
UpdateConstructFails(a) ==
  /\ apc[a] = "ulock" /\ lock = NoActor /\ requestQueues # 0
  /\ AGoto(a, "done")
  /\ UNCHANGED <<old, hand, reqVars, chanVars, genVars, workVars, shutVars,
                 histVars, lock>>

\* The instance is swapped, the new queue published, the new workers started.
UpdatePublish(a) ==
  /\ apc[a] = "ulock" /\ lock = NoActor /\ requestQueues # 0 /\ ngen < MaxGen
  /\ ngen' = ngen + 1
  /\ requestQueues' = ngen + 1
  /\ instances' = {ngen + 1}
  /\ StartWorkers(ngen + 1)
  /\ old' = [old EXCEPT ![a] = requestQueues]
  /\ lock' = a /\ AGoto(a, "transfer")
  /\ UNCHANGED <<queue, closing, wmsg, cleanup, hand, reqVars, chanVars,
                 shutVars, histVars>>

TransferTake(a) ==
  /\ apc[a] = "transfer" /\ queue[old[a]] # <<>>
  /\ hand' = [hand EXCEPT ![a] = Head(queue[old[a]])]
  /\ queue' = [queue EXCEPT ![old[a]] = Tail(@)]
  /\ AGoto(a, "put")
  /\ UNCHANGED <<closing, requestQueues, ngen, instances, old, reqVars, chanVars,
                 workVars, shutVars, histVars, lock>>

TransferPut(a) ==
  /\ apc[a] = "put" /\ Len(queue[requestQueues]) < BufferSize
  /\ queue' = [queue EXCEPT ![requestQueues] = Append(@, hand[a])]
  /\ hand' = [hand EXCEPT ![a] = NoSlot]
  /\ AGoto(a, "transfer")
  /\ UNCHANGED <<closing, requestQueues, ngen, instances, old, reqVars, chanVars,
                 workVars, shutVars, histVars, lock>>

\* The new queue is full: cancelMsg for this message, then for the rest.
TransferFull(a) ==
  /\ apc[a] = "put" /\ Len(queue[requestQueues]) >= BufferSize
  /\ LET v == [req |-> owner[hand[a]], why |-> "full"]
     IN  \/ CanSend(hand[a], v) /\ Send(hand[a], v)
         \/ owner[hand[a]] \in ctxDone /\ UNCHANGED reply
  /\ hand' = [hand EXCEPT ![a] = NoSlot]
  /\ AGoto(a, "cancel")
  /\ UNCHANGED <<old, owner, reqVars, genVars, workVars, shutVars, histVars, lock>>

CancelRest(a) ==
  /\ apc[a] = "cancel"
  /\ DrainOne(old[a], "full")
  /\ UNCHANGED <<admVars, workVars, reqVars, shutVars, histVars, lock>>

TransferDone(a) ==
  /\ apc[a] \in {"transfer", "cancel"} /\ queue[old[a]] = <<>>
  /\ AGoto(a, "retire")
  /\ UNCHANGED <<old, hand, reqVars, chanVars, genVars, workVars, shutVars,
                 histVars, lock>>

\* Wrong variant: the old queue is never signalled.
RetireWithoutSignal(a) ==
  /\ apc[a] = "retire"
  /\ cleanup' = [cleanup EXCEPT ![old[a]] = "waiting"]
  /\ lock' = NoActor /\ AGoto(a, "done")
  /\ UNCHANGED <<genVars, wst, wmsg, old, hand, reqVars, chanVars, shutVars, histVars>>

\* Register the cleanup, signal the old queue, start the goroutine, unlock.
RetireOld(a) ==
  /\ apc[a] = "retire"
  /\ cleanup' = [cleanup EXCEPT ![old[a]] = "waiting"]
  /\ closing' = closing \cup {old[a]}
  /\ lock' = NoActor /\ AGoto(a, "done")
  /\ UNCHANGED <<queue, requestQueues, ngen, instances, wst, wmsg, old, hand,
                 reqVars, chanVars, shutVars, histVars>>

(***************************************************************************)
(* getProviderByKey looks at the providers slice, not at requestQueues.    *)
(***************************************************************************)
GetProviderByKey(a) ==
  /\ apc[a] = "idle" /\ "get" \in Ops
  /\ \/ /\ instances # {} \/ lock = NoActor
        /\ AGoto(a, "done")
        /\ UNCHANGED <<genVars, lock>>
     \/ /\ instances = {} /\ lock = NoActor
        /\ PublishQueue
        /\ lock' = a /\ AGoto(a, "gprepare")
  /\ UNCHANGED <<old, hand, reqVars, chanVars, workVars, shutVars, histVars>>

PrepareForAdmin(a) ==
  /\ apc[a] \in {"uprepare", "gprepare"}
  /\ \/ PrepareOK
     \/ UNCHANGED <<genVars, workVars>>
  /\ lock' = NoActor /\ AGoto(a, "done")
  /\ UNCHANGED <<old, hand, reqVars, chanVars, shutVars, histVars>>

(***************************************************************************)
(* RemoveProvider, which holds the write lock throughout.                  *)
(***************************************************************************)

\* Wrong variant: the queue is not signalled before the wait.
RemoveWithoutSignal(a) ==
  /\ apc[a] = "idle" /\ "remove" \in Ops /\ lock = NoActor
  /\ IF requestQueues = 0
       THEN AGoto(a, "done") /\ UNCHANGED <<old, lock>>
       ELSE /\ old' = [old EXCEPT ![a] = requestQueues]
            /\ lock' = a /\ AGoto(a, "rwait")
  /\ UNCHANGED <<genVars, hand, reqVars, chanVars, workVars, shutVars, histVars>>

RemoveBegin(a) ==
  /\ apc[a] = "idle" /\ "remove" \in Ops /\ lock = NoActor
  /\ IF requestQueues = 0
       THEN AGoto(a, "done") /\ UNCHANGED <<closing, old, lock>>
       ELSE /\ closing' = closing \cup {requestQueues}
            /\ old' = [old EXCEPT ![a] = requestQueues]
            /\ lock' = a /\ AGoto(a, "rwait")
  /\ UNCHANGED <<queue, requestQueues, ngen, instances, hand, reqVars, chanVars,
                 workVars, shutVars, histVars>>

RemoveWait(a) ==
  /\ apc[a] = "rwait" /\ Alive(old[a]) = {}
  /\ AGoto(a, "rdrain")
  /\ UNCHANGED <<old, hand, reqVars, chanVars, genVars, workVars, shutVars,
                 histVars, lock>>

RemoveDrain(a) ==
  /\ apc[a] = "rdrain"
  /\ DrainOne(old[a], "closing")
  /\ UNCHANGED <<admVars, workVars, reqVars, shutVars, histVars, lock>>

RemoveDrained(a) ==
  /\ apc[a] = "rdrain" /\ queue[old[a]] = <<>>
  /\ swept' = swept \cup {old[a]}
  /\ AGoto(a, "rretired")
  /\ UNCHANGED <<old, hand, reqVars, chanVars, genVars, workVars, shutVars, hooks,
                 produced, late, lock>>

\* Wrong variant: retired generations are not waited for.
RemoveWithoutRetired(a) ==
  /\ apc[a] = "rretired"
  /\ requestQueues' = 0
  /\ instances' = {}
  /\ lock' = NoActor /\ AGoto(a, "done")
  /\ UNCHANGED <<queue, closing, ngen, old, hand, reqVars, chanVars, workVars,
                 shutVars, histVars>>

\* Wait for the retired generations, then unpublish queue and instance.
RemoveFinish(a) ==
  /\ apc[a] = "rretired" /\ CleanupPending = {}
  /\ requestQueues' = 0
  /\ instances' = {}
  /\ lock' = NoActor /\ AGoto(a, "done")
  /\ UNCHANGED <<queue, closing, ngen, old, hand, reqVars, chanVars, workVars,
                 shutVars, histVars>>

(***************************************************************************)
(* Shutdown.  It excludes UpdateProvider by providerLifecycleMu, but takes *)
(* no provider lock: the maps may change between its passes over them.     *)
(***************************************************************************)
SGoto(l) == spc' = l

ShutdownBegin ==
  /\ spc = "idle" /\ "shutdown" \in Ops
  /\ \A a \in Admins : apc[a] \notin UpdatePcs
  /\ SGoto("signal")
  /\ atShutdown' = {g \in Gens : Alive(g) # {}}
  /\ UNCHANGED <<sgen, reqVars, chanVars, genVars, workVars, admVars, histVars, lock>>

ShutdownSignal ==
  /\ spc = "signal"
  /\ closing' = closing \cup ({requestQueues} \ {0})
  /\ SGoto("range")
  /\ UNCHANGED <<queue, requestQueues, ngen, instances, sgen, atShutdown, reqVars,
                 chanVars, workVars, admVars, histVars, lock>>

\* waitGroups.Range reads the entry; Wait then blocks on that wait group.
ShutdownRange ==
  /\ spc = "range"
  /\ sgen' = requestQueues
  /\ SGoto("wait")
  /\ UNCHANGED <<atShutdown, reqVars, chanVars, genVars, workVars, admVars,
                 histVars, lock>>

ShutdownWait ==
  /\ spc = "wait" /\ (sgen # 0 => Alive(sgen) = {})
  /\ SGoto("cleanups")
  /\ UNCHANGED <<sgen, atShutdown, reqVars, chanVars, genVars, workVars, admVars,
                 histVars, lock>>

\* Wrong variant: oldWorkerCleanups is not waited for.
ShutdownSkipsCleanups ==
  /\ spc = "cleanups"
  /\ sgen' = requestQueues
  /\ SGoto("drain")
  /\ UNCHANGED <<atShutdown, reqVars, chanVars, genVars, workVars, admVars,
                 histVars, lock>>

ShutdownCleanups ==
  /\ spc = "cleanups" /\ CleanupPending = {}
  /\ sgen' = requestQueues
  /\ SGoto("drain")
  /\ UNCHANGED <<atShutdown, reqVars, chanVars, genVars, workVars, admVars,
                 histVars, lock>>

ShutdownDrain ==
  /\ spc = "drain" /\ sgen # 0
  /\ DrainOne(sgen, "closing")
  /\ UNCHANGED <<shutVars, reqVars, workVars, admVars, histVars, lock>>

ShutdownFinish ==
  /\ spc = "drain" /\ (sgen # 0 => queue[sgen] = <<>>)
  /\ swept' = swept \cup ({sgen} \ {0})
  /\ SGoto("done")
  /\ UNCHANGED <<sgen, atShutdown, reqVars, chanVars, genVars, workVars, admVars,
                 hooks, produced, late, lock>>

(***************************************************************************)
(* Specification.                                                          *)
(***************************************************************************)
\* Init(): the provider is not configured, or prepareProvider succeeded, or
\* its error was logged and the gateway started all the same.
InitState(how) ==
  /\ queue = [g \in Gens |-> <<>>]
  /\ closing = {}
  /\ requestQueues = (IF how = "absent" THEN 0 ELSE 1)
  /\ ngen = requestQueues
  /\ instances = (IF how = "ready" THEN {1} ELSE {})
  /\ wst = [x \in Gens \X Workers |->
              IF how = "ready" /\ x[1] = 1 THEN "idle" ELSE "unborn"]
  /\ wmsg = [x \in Gens \X Workers |-> NoMsg]
  /\ cleanup = [g \in Gens |-> "none"]
  /\ lock = NoActor
  /\ pc = [r \in Requests |-> "lookup"]
  /\ pq = [r \in Requests |-> 0]
  /\ slot = [r \in Requests |-> NoSlot]
  /\ ctxDone = {}
  /\ outcome = [r \in Requests |-> "none"]
  /\ owner = [s \in Slots |-> NoReq]
  /\ reply = [s \in Slots |-> {}]
  /\ apc = [a \in Admins |-> "idle"]
  /\ old = [a \in Admins |-> 0]
  /\ hand = [a \in Admins |-> NoSlot]
  /\ spc = "idle" /\ sgen = 0 /\ atShutdown = {}
  /\ hooks = [r \in Requests |-> 0]
  /\ produced = {} /\ swept = {} /\ late = {}

Init == \E how \in Startup : InitState(how)

RequestStep(r) ==
  \/ GetProviderQueue(r) \/ CreateProviderQueue(r) \/ PrepareForRequest(r)
  \/ ShortCircuit(r) \/ GetChannelMessage(r)
  \/ Reroute(r) \/ NoReroute(r) \/ CheckCandidate(r)
  \/ Enqueue(r) \/ SeeDone(r) \/ GiveUpSend(r) \/ QueueFull(r) \/ Recheck(r)
  \/ Receive(r) \/ LeaveOnCtx(r)

WorkerStep(g, w) ==
  \/ WorkerTake(g, w) \/ KeyError(g, w) \/ Deliver(g, w) \/ Abandon(g, w)
  \/ WorkerSeesDone(g, w) \/ WorkerDrain(g, w) \/ WorkerExit(g, w)

CleanupStep(g) == CleanupWait(g) \/ CleanupDrain(g) \/ CleanupFinish(g)

\* Steps of a lifecycle call that has begun.
UpdateStep(a) ==
  \/ UpdatePrepare(a) \/ UpdateConstructFails(a) \/ UpdatePublish(a)
  \/ TransferTake(a) \/ TransferPut(a) \/ TransferFull(a) \/ CancelRest(a)
  \/ TransferDone(a) \/ RetireOld(a) \/ PrepareForAdmin(a)
RemoveStep(a) ==
  RemoveWait(a) \/ RemoveDrain(a) \/ RemoveDrained(a) \/ RemoveFinish(a)
AdminBegin(a) == UpdateBegin(a) \/ GetProviderByKey(a) \/ RemoveBegin(a)
AdminStep(a) == UpdateStep(a) \/ RemoveStep(a)

ShutdownStep ==
  \/ ShutdownSignal \/ ShutdownRange \/ ShutdownWait \/ ShutdownCleanups
  \/ ShutdownDrain \/ ShutdownFinish

\* Every call has returned: the gateway idles.
Quiescent ==
  /\ \A r \in Requests : pc[r] = "done"
  /\ \A a \in Admins : apc[a] \in {"idle", "done"}
  /\ spc \in {"idle", "done"}
  /\ UNCHANGED vars

Next ==
  \/ \E r \in Requests : RequestStep(r) \/ Cancel(r)
  \/ \E g \in Gens, w \in Workers : WorkerStep(g, w)
  \/ \E g \in Gens : CleanupStep(g)
  \/ \E a \in Admins : AdminBegin(a) \/ AdminStep(a)
  \/ ShutdownBegin \/ ShutdownStep
  \/ Quiescent

Spec == Init /\ [][Next]_vars

\* Goroutines that can run do run, provider calls end (they carry timeouts),
\* and a mutex that stays free is eventually granted.  Nothing obliges a
\* context to be cancelled or a lifecycle call to be made.
Fairness ==
  /\ \A r \in Requests : WF_vars(RequestStep(r))
  /\ \A g \in Gens, w \in Workers : WF_vars(WorkerStep(g, w))
  /\ \A g \in Gens : WF_vars(CleanupStep(g))
  /\ \A a \in Admins : WF_vars(AdminStep(a))
  /\ WF_vars(ShutdownStep)

FairSpec == Spec /\ Fairness

(***************************************************************************)
(* Properties.                                                             *)
(***************************************************************************)
TypeReq ==
  /\ pc \in [Requests -> ReqPcs]
  /\ pq \in [Requests -> 0..MaxGen]
  /\ slot \in [Requests -> Slots \cup {NoSlot}]
  /\ ctxDone \subseteq Requests
  /\ outcome \in [Requests -> Outcomes]
TypeChan ==
  /\ owner \in [Slots -> Requests \cup {NoReq}]
  /\ reply \in [Slots -> SUBSET Reply]
TypeGen ==
  /\ queue \in [Gens -> Seq(Slots)]
  /\ closing \subseteq Gens /\ instances \subseteq Gens
  /\ requestQueues \in 0..ngen /\ ngen \in 0..MaxGen
TypeWork ==
  /\ wst \in [Gens \X Workers -> WorkerStates]
  /\ wmsg \in [Gens \X Workers -> Message \cup {NoMsg}]
  /\ cleanup \in [Gens -> {"none", "waiting", "draining", "finished"}]
TypeAdm ==
  /\ apc \in [Admins -> AdmPcs]
  /\ old \in [Admins -> 0..MaxGen]
  /\ hand \in [Admins -> Slots \cup {NoSlot}]
TypeShut == spc \in ShutPcs /\ sgen \in 0..MaxGen /\ atShutdown \subseteq Gens
TypeHist ==
  /\ hooks \in [Requests -> Nat]
  /\ produced \subseteq Requests \cup {NoReq}
  /\ swept \subseteq Gens /\ late \subseteq Slots
TypeLock == lock \in Requests \cup Admins \cup {NoActor}

\* Every variable has its type.
TypeOK ==
  /\ TypeReq /\ TypeChan /\ TypeGen /\ TypeWork
  /\ TypeAdm /\ TypeShut /\ TypeHist /\ TypeLock

\* The provider's write lock is held across the steps that need it, and the
\* key stays published while it is: what a lifecycle operation reads it may
\* rely on until it unlocks.
LockPcs == (UpdatePcs \ {"ulock"}) \cup RemovePcs \cup {"gprepare"}
ReplacePcs == {"transfer", "put", "cancel", "retire"}
LockInv ==
  /\ \A r \in Requests : pc[r] = "prepare" => lock = r
  /\ \A a \in Admins : apc[a] \in LockPcs => lock = a
  /\ lock # NoActor => requestQueues # 0
  /\ \A a \in Admins : apc[a] \in ReplacePcs \cup RemovePcs => old[a] \in 1..ngen
  /\ \A a \in Admins : apc[a] \in ReplacePcs => old[a] # requestQueues
  /\ \A a \in Admins : apc[a] \in RemovePcs => old[a] = requestQueues

InQueue(s) == \E g \in Gens : \E i \in 1..Len(queue[g]) : queue[g][i] = s
AtWorker(s) == \E x \in Gens \X Workers : wst[x] = "busy" /\ wmsg[x].slot = s
InHand(s) == \E a \in Admins : hand[a] = s
Outstanding(s) == InQueue(s) \/ AtWorker(s) \/ InHand(s)

\* A request that holds a message holds one that carries it, and UpdateProvider
\* has a message in hand exactly between taking it and placing it.
HoldInv ==
  /\ \A r \in Requests : pc[r] \in HoldPcs \cup {"wait"} =>
       slot[r] \in Slots /\ owner[slot[r]] = r
  /\ \A r \in Requests : pc[r] \in HoldPcs \cup {"hooks", "wait"} => pq[r] \in 1..ngen
  /\ \A a \in Admins : hand[a] # NoSlot <=> apc[a] = "put"

\* No message is in two places.
QueueDistinct ==
  \A g, h \in Gens : \A i \in 1..Len(queue[g]), j \in 1..Len(queue[h]) :
    queue[g][i] = queue[h][j] => g = h /\ i = j
WorkersDistinct ==
  \A x, y \in Gens \X Workers :
    wst[x] = "busy" /\ wst[y] = "busy" /\ wmsg[x].slot = wmsg[y].slot => x = y
PlacesDisjoint ==
  \A s \in Slots :
    /\ ~(InQueue(s) /\ AtWorker(s))
    /\ ~(InQueue(s) /\ InHand(s))
    /\ ~(AtWorker(s) /\ InHand(s))
OnePlace == QueueDistinct /\ WorkersDistinct /\ PlacesDisjoint

\* A message that is somewhere carries a request and is unanswered.
OutstandingOwned ==
  \A s \in Slots : Outstanding(s) => owner[s] # NoReq /\ reply[s] = {}
\* A message not yet enqueued is nowhere and unanswered.
HeldNowhere ==
  \A r \in Requests : pc[r] \in HoldPcs => ~Outstanding(slot[r]) /\ reply[slot[r]] = {}
\* A worker's message still carries the request the worker took.
WorkerCarries ==
  \A x \in Gens \X Workers : wst[x] = "busy" =>
    wmsg[x].slot \in Slots /\ owner[wmsg[x].slot] = wmsg[x].req
\* A channel holds at most one value, made for the request of its message.
ReplyOwn ==
  \A s \in Slots : \A u, v \in reply[s] : u = v /\ u.req = owner[s]
MsgInv == OutstandingOwned /\ HeldNowhere /\ WorkerCarries /\ ReplyOwn

\* The inductive invariant behind NoUseAfterRelease and OwnReplyOnly.
MessageInv == LockInv /\ HoldInv /\ OnePlace /\ MsgInv

\* A message some queue, worker or UpdateProvider still refers to is not in
\* the pool, and a worker still finds in it the request it took: the reason
\* tryRequest leaks the message when it leaves on ctx.Done.
NoUseAfterRelease ==
  /\ \A s \in Slots : Outstanding(s) => owner[s] # NoReq
  /\ \A g \in Gens, w \in Workers :
       wst[<<g, w>>] = "busy" => owner[wmsg[<<g, w>>].slot] = wmsg[<<g, w>>].req

\* What a caller finds in its channels was made for its own request, and there
\* is at most one such value, so its select cannot choose between two answers.
OwnReplyOnly ==
  \A r \in Requests : pc[r] = "wait" =>
    /\ \A v \in reply[slot[r]] : v.req = r
    /\ \A u, v \in reply[slot[r]] : u = v
    /\ reply[slot[r]] # {} => ~Outstanding(slot[r])

\* A caller waiting for its answer has not been forgotten: the message is
\* queued, in process or in transfer, or answered, or the caller may leave
\* because its context is done.
WaiterNotForgotten ==
  \A r \in Requests : pc[r] = "wait" =>
    Outstanding(slot[r]) \/ reply[slot[r]] # {} \/ r \in ctxDone

\* The terminal post-hooks (billing, logging) run at most once for a request,
\* whether tryRequest or billAbandonedTerminal runs them.
HooksAtMostOnce == \A r \in Requests \ Streams : hooks[r] <= 1

\* Once RemoveProvider has unpublished the queue, no worker of any generation
\* is left running, the generations retired by earlier updates included.
RemovedMeansStopped == requestQueues = 0 => \A g \in Gens : Alive(g) = {}

\* Nobody will ever look at the queue of g again.
Unserved(g) ==
  /\ Alive(g) = {} /\ g \notin CleanupPending
  /\ \A a \in Admins : apc[a] # "idle" /\ apc[a] # "done" => g \notin {old[a], requestQueues}
  /\ \A r \in Requests : pc[r] = "prepare" => g # requestQueues
  /\ spc \in {"idle", "done"}

\* prepareProvider failed for g: it has no workers and never had any.
Unprepared(g) == \A w \in Workers : wst[<<g, w>>] = "unborn"

\* drainQueueWithErrors documents one residual window: a message deposited
\* after the sweep.  Of the queues whose workers ran, no other message is
\* ever left behind.
ResidualWindowOnly ==
  \A g \in Gens : Unserved(g) /\ ~Unprepared(g) =>
    \A i \in 1..Len(queue[g]) : queue[g][i] \in late

\* When Shutdown returns, every worker that ran when it began has exited,
\* those of generations retired by earlier updates included.
ShutdownWaits == spc = "done" => \A g \in atShutdown : Alive(g) = {}

\* The caller waits on a queue nobody serves: after the sweep, or one whose
\* provider could not be built.
Stranded(r) ==
  \E g \in Gens : \E i \in 1..Len(queue[g]) :
     queue[g][i] = slot[r] /\ (slot[r] \in late \/ Unprepared(g))

\* A caller whose message is enqueued gets its answer without help from its
\* context, whatever updates and removals happen meanwhile.
WaiterAnswered ==
  \A r \in Requests : pc[r] = "wait" ~> pc[r] = "done" \/ Stranded(r)

\* UpdateProvider and RemoveProvider return: waiting for workers under the
\* provider's lock, they never wait for one another or for a caller.
LifecycleReturns == \A a \in Admins : apc[a] # "idle" ~> apc[a] = "done"

\* No worker pool is left behind: the workers of a generation that is not, or
\* no longer, the published one exit, whether an update, a removal or Shutdown
\* retired it.
RetiredWorkersExit ==
  \A g \in Gens : Alive(g) # {} /\ g # requestQueues ~> Alive(g) = {} \/ g = requestQueues

\* Shutdown returns.  It may block only on a queue that getProviderQueue
\* created behind its signalling pass, which it waits for and never signals:
\* not on one it or UpdateProvider signalled, nor on a removal in progress.
ShutdownEnds ==
  spc # "idle" ~> spc = "done" \/ (spc = "wait" /\ sgen # 0 /\ sgen \notin closing)

\* "tryRequest returned on ctx.Done and will never receive it, so bill/log it
\* here": what the provider produced for a non-streaming request has been
\* billed once the call has returned.
EveryResultBilled ==
  \A r \in produced \ Streams : pc[r] = "done" => hooks[r] >= 1

====
