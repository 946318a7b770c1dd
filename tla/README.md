# celer-route: a TLA+ model of the gateway core

celer-route is a gateway in Go between applications and some forty vendors of
language models. This directory holds TLA+ modules translated from its source,
the TLC configurations that check them on small instances, and proofs checked
by TLAPS. Line numbers refer to the source tree in `src/`.

## 1. Inventory

| Part | State it keeps | Operations | What is hard about it |
|---|---|---|---|
| Provider queues and workers (`core/bifrost.go`) | one buffered channel, `done` signal and wait group per provider and generation; provider slice; pooled messages with reply channels; one write lock per provider | `tryRequest`, `tryStreamRequest`, `requestWorker`, `prepareProvider`, `getProviderQueue`, `getProviderByKey`, `UpdateProvider`, `RemoveProvider`, `Shutdown` | callers, workers, cleanup goroutines and lifecycle calls interleave; a message must never be lost, answered twice or reused too early |
| Retry loop and key rotation (`core/bifrost.go`) | attempt counter, used and dead keys, pending rotation marker, attempt trail, selected key in the context | `executeRequestWithRetries`, the worker's key provider, `selectKeyFromProviderForModelWithPool` | bounds of a loop that may extend itself, which failures rotate, refresh or bury a key |
| Fallback chain (`core/bifrost.go`) | position in the fallback list, primary error | `handleRequest`, `handleStreamRequest`, `shouldTryFallbacks`, `shouldContinueWithFallbacks`, `prepareFallbackRequest` | which error the caller sees; cancellation and a plugin veto stop the chain |
| Plugin pipeline (`core/bifrost.go`) | plugin list snapshot, count of executed pre-hooks, error lists | `RunPreRequestHooks`, `RunPreProviderHooks`, `RunLLMPreHooks`, `RunPostLLMHooks`, hot add, reorder and remove | short circuit after some of the pre-hooks; post-hooks in reverse for exactly those; list replaced meanwhile |
| Provider cooldown (`plugins/providercooldown`) | cooldown entries with expiry, index of scopes, counters | `PreProviderHook`, `PostLLMHook`, `MarkWithTTL`, `ClearKey`, `Stats`, the sweep of expired entries | lazy pruning under a lock upgrade, counters that must agree with the map |
| Session stickiness (`core/bifrost.go`) over the key-value store (`framework/kvstore`) | an entry per session with the key it is on and its expiry | look up, refresh, delete when stale, select, set if absent, second look; clean-up goroutine, `Close` | every operation reads the clock before it takes the lock; two requests of a session between any two operations; keys withdrawn meanwhile |
| Distributed lock (`framework/configstore/dlock.go`) | lease row with holder and expiry | `TryLock`, `LockWithRetry`, `Extend`, `IsHeld`, `Unlock`, clean up | expiry during work, two holders, clocks apart, answers lost after the write was made |
| Streaming accumulator (`framework/streaming`) | chunks per request, final flag, gate | add chunk, finish, clean up | chunks out of order, finish twice, stale sweep |
| Governance (`plugins/governance`) | budgets, rate limits, virtual keys | check, update usage, reset, flush | check-then-act on budgets, periodic reset |
| Logging (`plugins/logging`) | bounded write queue, pending logs | enqueue, batch, flush on close | queue at its limit, shutdown with entries pending |
| MCP clients (`core/mcp`) | connection state per client, tool maps | connect, reconnect, remove, health check, agent loop | make-before-break reconnect, stale callbacks |
| Background jobs (`framework/sidekiq`, `plugins/logging/costrecalc.go`) | job rows with owner, attempts, checkpoint and heartbeat; per process a semaphore, the jobs in flight and their cancel functions | `Enqueue`, dispatcher, claim, heartbeat, checkpoint, complete, fail, `Cancel`, `Shutdown` | a heartbeat that lapses under a runner at work, claims of one job by two processes or twice by one, cancellation between claim and registration, crash at every step |
| Async jobs and webhooks (`framework/logstore/asyncjob.go`, `framework/webhooks`) | job rows; one queue row per delivery with attempt count and lease; delivery records; endpoint counters; slots per endpoint | submit, run, announce, reap; list, claim, attempt, record, reschedule or retire, count; redeliver | lease overrun by a slow attempt on a node whose runner id is empty, one failing write of several, crash between them, endpoint edited meanwhile |
| Stores, adapters, HTTP handlers, UI, CLI | database rows, HTTP connections | CRUD, conversion | I/O and parsing; not modelled |

How they interact: an HTTP handler calls `handleRequest`, which runs the
pre-request hooks and walks the fallback chain; each link of the chain calls
`tryRequest`, which runs the plugin pipeline and hands a pooled message to the
provider's queue; a worker takes it, chooses a key, runs the retry loop around
the adapter, and answers on the message's channels. Plugins (governance,
logging, cooldown, cache) run inside the pipeline, in the caller's goroutine.
Configuration changes arrive as lifecycle calls from other handlers. When a
provider has several keys and the request names a session, the key is chosen
through the session's entry in the key-value store. Async jobs run a request
through the same path in the background and put a delivery into the webhook
queue when it ends. Background jobs run maintenance such as the recalculation of
costs; several processes share their table, and the distributed lock guards
work that only one process should do (the synchronisation of the model catalog
and the reset of expired limits at start-up).


## 2. Plan

Done, in this order, because every request passes through the first three and
the others are the protocols that several goroutines or processes speak over
shared rows:

1. `ProviderQueue`: the queue, its workers and its lifecycle.
2. `RequestPath` with the plugin pipeline and the plugin registry, and the
   abstract `FallbackChain` it implements.
3. `RetryLoop`: the attempts of one request and the rotation of its keys.
4. `DistributedLock` and the abstract `ExclusiveLock` it implements.
5. `Jobs`: background jobs over the sidekiq table.
6. `Sessions`: session stickiness over the key-value store.
7. `Webhooks`: async jobs and the delivery of their ends.

Each has an `MC` module with its instances, a `.cfg` per run and a module of
proofs (`ExclusiveLock` and `FallbackChain` are abstract and have neither;
`ProviderQueue` has two, `ProviderQueueProofs` for its messages and
`ProviderLifecycleProofs` for its generations).

Left, in this order: the provider cooldown (the filter that `RetryLoop` treats
as arbitrary); the streaming accumulator and its gate; the logging writer's
bounded queue; governance budgets; MCP client connections. Theorems worth
adding: what `Symmetric` becomes when plugins are removed (which post-hooks may
be missed), and when a stream is left with neither an answer nor an error.

### Runs

| Run | Module | Distinct states | Temporal |
|---|---|---|---|
| `pq_lifecycle` | `ProviderQueue` | 1.4 million | |
| `pq_live` | `ProviderQueue` | 112 thousand | `FairSpec` |
| `pq_shutdown` | `ProviderQueue` | 126 thousand | `FairSpec` |
| `pq_unbilled` | `ProviderQueue` | expects a violation | |
| `rt_loop` | `RetryLoop` | 0.9 million | |
| `rp_chain` | `RequestPath` | 1.2 million | refinement |
| `rp_hooks` | `RequestPath` | 3.9 million | |
| `lock` | `DistributedLock` | 0.5 million | refinement, action property |
| `jobs_fence` | `Jobs` | 0.7 million | action properties |
| `jobs_keys` | `Jobs` | 182 thousand | `FairSpec` |
| `sessions` | `Sessions` | 2.7 million | action property |
| `webhooks` | `Webhooks` | 2.5 million | |

The states are those TLC explores in full, so each run answers its question for
its whole instance. Three runs are kept small by a named `CONSTRAINT` of their
`MC` module (`FewActors`, `FewChanges`, `FewTroubles`), which leaves out
combinations of rare events, never a single one; each is explained with its run.

## 3. ProviderQueue

One provider key of one `Bifrost` value. Every `ProviderQueue` object ever
created for the key is a *generation* 1..MaxGen: `UpdateProvider` replaces the
generation in force, `prepareProvider` makes a new one.

| Variable | Code |
|---|---|
| `queue[g]`, `closing` | `pq.queue` and the `done` channel with `closing` of each generation |
| `requestQueues` | what `bifrost.requestQueues` holds under the key (`waitGroups` is stored and deleted together with it) |
| `instances` | the generations whose `Provider` is in the `bifrost.providers` slice |
| `wst`, `wmsg` | the worker goroutines and the message each processes |
| `cleanup` | the goroutine `UpdateProvider` starts for the old generation; counted by `oldWorkerCleanups` and `retiredWorkerWaits` |
| `lock` | the provider's write mutex; readers need it free |
| `pc`, `pq`, `slot`, `ctxDone`, `outcome` | the caller in `tryRequest`/`tryStreamRequest` |
| `owner`, `reply` | pooled `ChannelMessage` objects with their three channels, each with a buffer of one |
| `apc`, `old`, `hand` | lifecycle calls in progress |
| `spc`, `sgen`, `atShutdown` | `Shutdown` |
| `hooks`, `produced`, `swept`, `late` | history, read by properties only |

Actions and code:

* callers: `GetProviderQueue`, `CreateProviderQueue`, `PrepareForRequest` (the
  double-checked lookup), `ShortCircuit` and `GetChannelMessage` (the hooks, which
  may end the request with or without post-hooks, and the pool), `Reroute`, `NoReroute`, `CheckCandidate` (the closing check before
  the send), `Enqueue`, `SeeDone`, `GiveUpSend`, `QueueFull`, `Recheck` (the two
  selects), `Receive`, `LeaveOnCtx` (the wait);
* workers: `WorkerTake`, `KeyError`, `Deliver`, `Abandon`, `WorkerSeesDone`,
  `WorkerDrain`, `WorkerExit`;
* the cleanup goroutine: `CleanupWait`, `CleanupDrain`, `CleanupFinish`;
* `UpdateProvider`: from `UpdateBegin` to `RetireOld`, with the transfer of
  queued messages one by one, since old workers, new workers and stale
  producers run meanwhile; `RemoveProvider`, `getProviderByKey`, `Shutdown`
  likewise, split where another goroutine can observe the difference.

Go's `select` chooses any ready case, so the cases are separate actions and the
`default` case is enabled only when no other is. A context may be cancelled at
any time before its call returns. `Shutdown` and `UpdateProvider` exclude each
other (`providerLifecycleMu`); `RemoveProvider` and lazy creation do not take
that lock.

What a provider call answers is abstracted to `ok` or `err`. What a plugin or an
adapter does inside a step is outside this module.

### Runs

| Run | Instance | Shows |
|---|---|---|
| `pq_lifecycle` | 2 callers with 2 lifecycle calls, or 3 with 1 update (`FewActors`), one of them streaming, 2 messages, 1 worker, 3 generations, buffer 1, every startup | no waiting caller is forgotten; removal leaves no worker; answers never cross; the post-hooks run at most once; messages are left in a queue only in the window that `drainQueueWithErrors` documents |
| `pq_live` | 2 callers, 1 lifecycle call, `FairSpec` | an enqueued request is answered although no context is obliged to be cancelled, except in the documented window or on a queue that was never served; the workers of every retired queue exit |
| `pq_shutdown` | 1 caller, 2 lifecycle calls, Shutdown, 2 generations, `FairSpec` | Shutdown does not return before the workers that ran when it began have exited; it returns, or blocks only on a queue created behind its signalling pass; updates and removals return |
| `pq_unbilled` | the smallest that shows it | the disagreement between comment and code under *Finding* |

`pq_shutdown` says `CHECK_DEADLOCK FALSE` because Shutdown may really block for
ever (see below); the other two check deadlock.

Why the bounds are enough: three generations make one retired generation, one
being retired and one in force; a buffer of one is full after one message, so
every select has its blocked case; two lifecycle calls give every pair (update
against update, update against remove, remove against lazy creation). The third
caller makes the pool run dry, so that a message is returned and taken again, and
lets an update meet a full new queue with more messages left in the old one.
`FewActors` keeps the product of all this finite in practice: with two lifecycle
calls at most one context ends, and the third caller (`Third`) takes part only
in a single update and with no context ended. Two generations are enough for
`pq_shutdown`, where one is retired while the other is waited for. Every safety
property of these runs is also proved, whatever the numbers, so the constraint
limits only what `pq_lifecycle` says about deadlock.

Fairness (`FairSpec`): goroutines that can run do run; a provider call ends,
since adapters carry timeouts; a free mutex is eventually granted. Weak fairness
per goroutine is what the Go scheduler gives. No context is obliged to be
cancelled, and no lifecycle call is obliged to begin.

### Finding

`pq_unbilled` expects a violation. The comments at `bifrost.go:7452-7454` and
7467-7469 say that a result the caller does not receive is billed by the worker.
The reply channels have a buffer of one, so the worker's send may succeed
although the caller leaves on its own `ctx.Done`; then nobody runs the
post-hooks that bill and log the result.

Four more behaviours of the model are worth knowing and have no run of their
own:

* `prepareProvider` publishes the queue before it builds the provider and leaves
  it published when that fails (`bifrost.go:4642`); later callers enqueue into a
  queue that has no workers and wait for their context. `Startup = "failed"` is
  that state, and `WaiterAnswered` says so as its exception.
* The re-route that should spare callers spurious errors is tried once, before
  the select. An update alone can therefore make a caller fail with "provider
  is shutting down".
* `Shutdown` passes over `requestQueues` to signal and later over `waitGroups`
  to wait, without the provider locks. A queue that `getProviderQueue` creates
  between the passes is waited for and never signalled: `Shutdown` blocks. This
  is the exception `ShutdownEnds` states.
* A queue created after both passes is neither signalled nor waited for; its
  workers outlive `Shutdown`.

### Proofs (`ProviderQueueProofs`)

For every number of callers, messages, workers, lifecycle calls, generations
and every buffer size, under `ConstantsAssumption` only:

* `TypeCorrect`: `Spec => []TypeOK`;
* `PoolSafe`: `Spec => []NoUseAfterRelease`;
* `RepliesOwn`: `Spec => []OwnReplyOnly`.

The inductive invariant `IndInv` has four parts. `TypeOK` is not inductive
alone: that a lifecycle step finds a queue at `old[a]`, or a caller a message in
`slot[r]`, needs `LockInv` (who holds the write lock, and that the key stays
published while it is held) and `HoldInv` (a caller between `getChannelMessage`
and its return owns the message it holds). `Places` says that a message is in at
most one place (one position of one queue, one busy worker, or the hand of the
one update that holds the lock) and that while it is somewhere it is owned and
unanswered. Each has a lemma with one step per action (`TypeStep`, `LockStep`,
`HoldStep`, `MessageStep`); `MessageStep` rests on one lemma per kind of move
(`ReleaseMoves`, `AcquireMoves`, `EnqueueMoves`, `WorkerTakeMoves`,
`AnswerMoves`, `DrainMoves`, the three transfer lemmas, and `NothingMoves`).

### Proofs about the lifecycle (`ProviderLifecycleProofs`)

Again for all constants, over `IndInv`:

* `WorkersWaitedFor` and `RemovalStopsWorkers` (`RemovedMeansStopped`). The
  property says nothing of a generation that is not published while its workers
  run, so it is not inductive. `WorkInv` says who answers for them: the cleanup
  goroutine, or the one update that is replacing the generation (`Retiring`); that
  workers are started once (`PreparedOnce`); and that a published queue with
  workers has its `Provider` listed, so that `getProviderByKey` does not build
  another over it (`Instanced`).
* `ShutdownTracks` and `ShutdownStopsWorkers` (`ShutdownWaits`). `ShutInv` follows
  the generations that ran when `Shutdown` began through its passes: an update
  cannot start under it (`NoUpdates`, `providerLifecycleMu`), and each of them is
  stopped before `Shutdown` goes on: the published one first, then, through the
  cleanup goroutines, the retired ones (`Waits`).
* `SweepInvariance` and `OnlyResidualWindow` (`ResidualWindowOnly`). `SweepInv`
  says that every signalled queue was swept or has a sweeper that is still to
  come; `SweptLate` that whatever a swept queue holds came after the sweep;
  `DrainedClosed` that workers stop on the signal only.
* `MessagesOwned` and `WaitersRemembered` (`WaiterNotForgotten`). `OwnInv` is the
  one-to-one relation of requests and messages out of the pool. The lemma
  `EffectsStep` reduces every action to what it does to one message: it stays
  where it is, moves on, or is answered.
* `BilledAtMostOnce` (`HooksAtMostOnce`). `BillInv`: a request that was billed has
  come back from the queue, so no worker will find it again, and no answer is
  left for its caller to bill.

Most actions do not touch the lifecycle at all. They are shown to be `Calm` once
(`CallerCalm` and its like), and each invariant is then proved for the steps of
`LifeStep` one by one.

Only model-checked: the liveness properties (fairness is out of the prover's
reach).

## 4. RetryLoop

One call of `executeRequestWithRetries` as a worker makes it: the attempts of
one request at one provider, with the key provider the worker built for it.

| Variable | Code |
|---|---|
| `kind`, `pool` | which `keyProvider` `requestWorker` built (none; one key that is pinned, sticky or alone; several to rotate over) and the keys it captured |
| `attempts`, `extra`, `stripped` | `attempts`, `extraAttempts`, `strippedEncryptedContent` |
| `key`, `prev`, `used`, `dead` | `currentKey`, `previousKeyID`, `usedKeyIDs`, `deadKeyIDs` |
| `lastPerKey`, `lastPermanent`, `lastStrip` | `lastWasPerKeyFailure`, `lastWasPermanentKeyFailure` and the strip flag of the previous iteration |
| `pending`, `trail` | `pendingRotationAttemptIdx` and the attempt trail in the context |
| `selected` | the selected key in the context; it starts with any key, left by an earlier request or link of the chain |
| `calls`, `skipped` | history, read by properties only |

Actions: `SameKey`, `PickFixed`, `PickFresh`, `NewRound` are the heads of an
iteration that reach the handler; `AllFiltered`, `AllDead`, `SelectorFails` the
heads that do not; `Break`, `GiveUp`, `Denied`, `Limited`, `Transient`, `Strip`
are its tails, one per class of answer.

Abstractions. An answer is one of eight classes, the ones the loop tells apart.
The key pool filter (the cooldown plugin) may suppress any keys at any time, so
every choice among the eligible keys is possible; which keys are eligible for a
model is a free choice of `pool`. The weighted draw is any draw. Whether a
rejected request holds something to strip is free. The durations of the backoff
are left out, but whether a call waited is recorded. A context may be used for
several requests, so its trail may start non-empty and it may name a selected
key; the tracer is always set,
since `tryRequest` sets it.

### Run

`rt_loop`: three keys, four retries. Three keys give a round with a dead, a
rate-limited and a fresh key at once; four retries let a round end, a new one
begin, and a strip happen at every position, the last included. It checks that
a denied key is never used again (`DeadKeyNeverCalled`), that rate limits rotate
fairly (`FairRotation`), that the attempt trail tells the truth
(`TrailTruthful`), when a retry may skip its backoff (`BackoffKept`), the budget
(`BudgetKept`) and the two sentinel errors (`VerdictTruthful`). Deadlock is
checked, so every answer of the provider has a tail; that the loop ends follows
from `BudgetKept`, since every round makes a call or returns.

### Proofs (`RetryLoopProofs`)

For every set of keys and every `MaxRetries`, under `RetryAssumption` only:
`RetryTypes` (`TypeOK`), `DeadKeysStayDead` (`DeadKeyNeverCalled`),
`BudgetIsKept` (`BudgetKept`), `VerdictsAreTrue` (`VerdictTruthful`) and
`SelectedIsServed` (`SelectedServed`: after a request that needs a key, the
context names a key only when that key served it, whatever it named before).

The invariant `RetryInv` adds to `TypeOK` three parts. `CallInv` ties the number
of calls to the attempt counter and says that the call in progress is the last
recorded one; without it neither the range of `attempts` nor the budget is
inductive, since the bound moves when a strip happens. `KeyInv` says that a key
has been selected once an attempt was made, which the indexing of the trail
needs. `DeadInv` says that `deadKeyIDs` is exactly the set of denied keys, and
that when the key in hand is dead the next iteration selects another. The last
point is what makes `DeadKeyNeverCalled` inductive: `SameKey` repeats the
key without looking at `deadKeyIDs`. `SelectedServed` needs `SelectedInv`, the
value of the context at every label of an iteration.

`BackoffIsKept` (`BackoffKept`) needs `LastInv`: at the head of the loop the three
flags and `previousKeyID` describe the last call. `TrailIsTruthful`
(`TrailTruthful`) needs `TurnInv` as well: the pending rotation marker points at
the last record exactly after a failure of the key, so that `ToldBefore` holds of
the trail whenever a key is about to be called, the last record included.
`RotationIsFair` (`FairRotation`) rests on `RoundInv`, which counts the limits of
two keys and takes off the one of this round for a key that rests (`Rested`);
in this form no step can widen the difference, and it gives the bound of one.

### Behaviours worth knowing

* A request that needs no key neither sets nor clears `selected_key_id`: both
  happen under `keyProvider != nil` (`bifrost.go:6428`, `6471`, `6899`). A keyless
  request on a reused context, or a keyless fallback after a link that had a key,
  reports whatever the context named before; the comment at `6425` ("populated
  only on a successful response") holds of requests that need a key. This is the
  exemption in `SelectedServed`.

## 5. RequestPath and FallbackChain

`RequestPath` is one top-level request, from `handleRequest` or
`handleStreamRequest` to its return, while other goroutines change the plugin
list. `FallbackChain` is the abstract specification of what its caller is
promised; `RequestPath` implements it with `fallbacks`, `trail` and `result`
under the same names (`FC`, `ChainSpec`).

| Variable | Code |
|---|---|
| `llmPlugins` | the atomic pointer, as the identity of a slice and its contents |
| `cleaned`, `fresh` | plugin instances after `Cleanup`, and not yet handed over |
| `apc`, `op`, `seen` | `RemovePlugin`, `ReloadPlugin`, `ReorderPlugins` in progress |
| `pc`, `mode`, `skip` | place of the request, unary or stream, the flag that skips the pipeline |
| `fallbacks`, `link` | the fallback list and `BifrostContextKeyFallbackIndex` |
| `pipeline`, `idx`, `reqOK`, `reply`, `via`, `count`, `given` | the `PluginPipeline` and the locals of `tryRequest`/`tryStreamRequest` around it |
| `ctxDone`, `routing` | the context: whether it is done, and its `RoutingInfo`, by the link it names as serving and as primary |
| `trail`, `result` | what each link returned and what the caller is given |
| `pres`, `posts`, `stashed` | history: hooks run in this attempt; whether the primary attempt has written `routing` |

Actions: routing is `Begin`, `PreRequestHook`, `Routed`, `Unresolved`; an
attempt is `NoQueue`, `TryRequest`, the pre-provider and pre-LLM hooks, one per
plugin, `Refused`, `CtxDone`, `Enqueue`, `Streaming`, `Answered`, `PostLLMHook`,
`Return`, `MessageChanPanics`; the chain is `AfterPrimary`, `AfterFallback`, `TryFallback`,
`SkipFallback`, `Exhausted`; a change of the list is `ChangeBegin`,
`LoadPlugins`, `CompareAndSwap`, `Cleanup`.

Abstractions. A plugin is an instance with a name. A pre-hook passes the request
on, drops it, or short-circuits with a response, an error, a stream or nothing
its caller reads; a post-hook returns any pair of a response or none and an error
or none. An error is one of the kinds the chain tells apart:
`plain`, `veto` (`AllowFallbacks` false), `cancelled`, `filtered` (no eligible
keys), `empty` (an `Error` with no field set), `bare` (no `Error` at all). A
provider call answers or is refused: what happens in the queue is
`ProviderQueue`, what happens in the worker `RetryLoop`. The chunks of a stream,
whose post-hooks run in the adapter's goroutine, the MCP pipeline and the pool of
pipelines are not modelled.

### Runs

| Run | Instance | Shows |
|---|---|---|
| `rp_hooks` | unary and stream, 2 fallbacks, retries, fresh and reused contexts, 2 additions, replacements or reorderings | post-hooks mirror the pre-hooks of the same instances; a fallback names the primary (`PrimaryNamed`) |
| `rp_chain` | unary, 2 fallbacks, every hook outcome, cancellation; 2 admins remove, reload and reorder | the request implements `FallbackChain` and is given a response or an error unless the last hook returned neither; names in the registry stay unique, a cleaned-up instance never reappears and no instance is lost |

Bounds: two installed plugins are the fewest for which order matters; a third
instance replaces one, a fourth is added. Two fallbacks give a fallback that is
neither first nor last to decide; while more than one fallback is still to be
tried, or was, the list changes once (`FewChanges`), and twice with at most one.
An attempt's handler runs up to twice: a third snapshot
repeats the second. `rp_hooks` leaves removals and empty short-circuits out
because they break `Symmetric`, and `rp_chain` leaves out `bare` errors, which end in a panic,
and streams, which break `AnswerNotEmpty` (all three below).

Both runs check deadlock and neither assumes fairness.

### Behaviours worth knowing

* The number of post-hooks is the length of the plugin list
  as it is after the enqueue, and they run on the list as it was before the
  pre-hooks. When one plugin is removed in between, another, which was not
  removed, misses its post-hook. The comment at `bifrost.go:5807` and
  `schemas/plugin.go:198` ("ensures symmetry") promise otherwise.
* When a plugin recovers the error of a pre-provider
  short-circuit of a stream, `tryStreamRequest` returns neither a stream nor an
  error (`bifrost.go:5990`), and `handleStreamRequest` takes that for a success.
* A post-hook may return neither a response nor an error, and `RunPostLLMHooks`
  passes that on (`bifrost.go:8216`). `tryRequest` then returns `nil, nil` to its
  caller (`5836`, `5885`). `tryStreamRequest` guards the case after a provider's
  error only (`6240`, it returns that error); after a short-circuit it hands the
  nil response to `newBifrostMessageChan`, whose goroutine dereferences it (the
  state `panicked`). `AnswerNotEmpty` states the exception.
* `clearCtxForFallback` does not name every value an attempt sets. It leaves
  `NumberOfRetries` (`6374`), `SelectedKeyID` (`6428`, `6471`), `ResolvedAlias`
  (`7269`) and `RoutingInfo` (`7304`). The first and the third are overwritten by
  the next attempt's own start and handler, `RoutingInfo` is kept on purpose (the
  comment at `7283`), and a `SelectedKeyID` survives into a fallback that selects
  no key (section 4).
* A stream's fallback takes its primary from the `RoutingInfo` it finds. If the
  primary attempt never reached its provider (no eligible key, a refused or
  drained queue), that is the first fallback that did, or what an earlier request
  left in a reused context: the chunks then name it as primary, while the headers,
  which `handleStreamRequest` layers over (`5569`), name the request's primary.
  The comment at `7283` ("headers and SSE body agree") promises otherwise;
  `PrimaryNamed` has the condition under which it holds.
* An attempt that ends between the pre-hooks and the answer (the queue refuses
  it, the context ends, a hook returns a nil request) runs no post-hook.
* After a pre-provider short-circuit, or one with nothing its caller reads (a
  stream for a unary request),
  post-hooks run for plugins whose `PreLLMHook` did not.
* `RemovePlugin` and `ReloadPlugin` call `Cleanup` on an instance while requests
  that copied the list may still run its hooks (`bifrost.go:3632`). Nothing in the
  core protects them; what it means is up to the plugin.
* `shouldContinueWithFallbacks` reads the type of an error whose `Error` is nil;
  a plugin's `bare` error on a fallback leads to the state `panicked`.

### Proofs (`RequestPathProofs`)

For any plugins, hook outcomes, list changes and number of fallbacks, under
`RequestPathAssumption` only:

* `ChainRefined`: `Spec => ChainSpec`. Initial states map to initial states;
  a routing hook is a `Route`, the end of an attempt and a skipped fallback are a
  `Link`, the verdicts that end the request an `Answer`, everything else a
  stutter. `ChainInv` carries what the mapping needs: between attempts the trail
  has one outcome per link so far, and whenever another link is to be tried no
  outcome so far was decisive.
* `RequestTypes`: `Spec => []TypeOK`.
* `PrimaryIsNamed`: `Spec => []PrimaryNamed`, by `PrimaryInv`: from the primary
  attempt's snapshot on, the context's `RoutingInfo` either is a primary's that
  names link 0 as serving or a fallback's that names link 0 as primary, which is
  what makes the next fallback find link 0 whichever of the two it reads.
* `UnaryAnswerNotEmpty`: without streams, `Spec => []AnswerNotEmpty`. `AnswerInv`
  carries it through the chain: every link the chain went past returned an error,
  and the last one a response or an error unless its hooks left neither. The
  hypothesis `"stream" \notin Modes` is the code's own exception (above), not one
  of the proof.
* `RegistryStaysConsistent` and `NoInstanceIsLost`: `RegistryConsistent` and
  `NoInstanceLost`, for any number of callers that change the list at once. `RegInv`
  adds what the compare-and-swap loops rely on: the pointer that a call compares
  with is the one of the list it copied (`SeenInv`), and an instance that one call
  is to clean up is neither listed, nor fresh, nor in the hands of another
  (`Apart`). That `Reordered` has exactly the elements of the list it sorts rests
  on a counting lemma: the number of elements before an element takes every value
  from 0 to the length less one.
* `HooksMirrored`: `Orderly => (Spec => []Symmetric)`. `Orderly` says that plugins
  are added, replaced and reordered but not removed, and that no hook
  short-circuits with nothing its caller reads, the two cases in which the code does break the
  symmetry (above). `HookInv` needs `Room`: the list is at least as long as the
  attempt's copy of it, so that the number of post-hooks, taken from the list, is
  not below the number of pre-hooks that ran.


## 6. DistributedLock and ExclusiveLock

`DistributedLock` is one row of the lock table and any number of
`DistributedLock` objects (*handles*), each in a process of its own.
`ExclusiveLock` is what a lock promises: at most one holder, and it passes on
only through nobody. `DistributedLock` implements it with the unexpired leases
as its holders (`ImplementsLock`).

| Variable | Code |
|---|---|
| `row`, `left` | `holder_id` and `expires_at` of the row, the latter as the time left |
| `pc`, `acquired`, `tries`, `timer` | the caller of a handle: its place, `l.acquired`, the loop's `i`, the sleep |
| `want`, `lease` | the expiry computed for the next write, and the last one the handle knows it wrote |
| `hindered` | history, read by `OutlivesOrphan` only |

Actions: `Begin`, `Clean`, `Insert`, `InsertErrs`, `Refused`, `Wake`, `Stop` are
`LockWithRetry` around `TryLock`; `ExtendBegin`, `Extend`, `IsHeld`, `Unlock` the
calls under the lock; `CleanupExpiredLocks` the sweep; `Crash` the end of a
process at any point. Every store call may fail, with its write made or not.
The expiry is computed before the write, and expiry is judged by the clock of
whoever looks; clocks differ by at most `MaxSkew`. Each statement of the store
(insert on conflict, conditional update, conditional delete) is atomic, as the
database makes it. `Lock` is the same loop with a flat wait. No caller in the
repository extends a lock; `Extend` is modelled because the type offers it.

Run `lock`: two handles, TTL 3, clocks one tick apart, four tries with waits of 1,
2 and 2 ticks, so that the waits just outlast the TTL and the skew. Time is kept
relative to the present, so the run covers every duration.

* `ImplementsLock`: no two handles hold unexpired leases, through crashes, lost
  answers and slow callers.
* `NotStolen`: a row that has not expired on the fastest clock goes only by its
  own holder's `Unlock`.
* `OutlivesOrphan`: `LockWithRetry` gives up only if a rival got or renewed the
  lock meanwhile. It is why the backoff must grow: with the wait of `Lock`
  (`FlatBackoff`) a row left by a dead process is enough. The comment at
  `modelcatalog/main.go:524` ("retries=0 blocks until acquired") is not what
  `Lock` does: its default tries add up to about 10 s, less than the default TTL
  of 30 s.

Proofs (`DistributedLockProofs`), for any number of handles, any TTL and any
clocks at most `MaxSkew` apart: `LockTypes`, `LeasesAreExclusive`, `NeverStolen`,
`LockRefines`, `OrphansAreOutlived`. The invariant says that an unexpired lease is in the row, with at
least the time the handle believes it has left (`LeaseInRow`), and that what a
handle is about to write or has written is never later than what it would write
now, nor, while it extends, earlier than the lease it knows of (`TimesOrdered`);
without the last point an `Extend` whose answer was lost could leave the row with
less time than its handle believes.

`OrphansAreOutlived` is `Patient => (Spec => []OutlivesOrphan)`. `Patient` says that
the waits of the loop add up to more than the TTL and the skew; the sums are a
function `W` with `W[i + 1] = W[i] + Backoff(i)`. By `Aging`, a row that no rival has
written since the handle began has aged by what the handle waited, so the last
clean-up finds it expired and nothing is there to refuse the last insert. `Patient`
is needed: a handle that may retry twice gives up before a TTL of 30 s is over. The
lemma `StartupResetIsPatient` shows it for the values the governance plugin uses
(`plugins/governance/main.go:184-192`).


## 7. Jobs

The `Runner` of `framework/sidekiq` in several processes over the sidekiq table,
with the cost recalculation of the logging plugin as the handler.

| Variable | Code |
|---|---|
| `runnerID`, `slots` | what `sidekiq.New` is given: the runner id (`Namings` are the ways the processes may be named) and the capacity of the semaphore (one of `Caps`) |
| `status`, `owner`, `attempts`, `cursor` | the row: status, `runner_id`, attempts, the checkpoint in its metadata |
| `live` | `updated_at >= staleBefore`; `Lapse` is the passing of `StaleAfter` |
| `born`, `clock` | `created_at` as a rank |
| `up`, `sem`, `inflight`, `jobCancels`, `listed` | a process: running, stopping or down, its semaphore, its two maps, what is left of the dispatcher's list |
| `pc`, `on`, `job`, `ticket`, `cur`, `dead` | a goroutine in `execute`: its place, process and job, the attempt number it claimed, its handler's cursor, whether `jobCtx` is cancelled |
| `entering`, `cancelling`, `asked` | calls of `Enqueue` between the row and `spawn`, of `Cancel` between the row and the local context, and recalculations that passed the check for one in flight |
| `ahead`, `shared`, `told`, `blind`, `lapsed`, `starts` | history, read by properties only: the rows that existed when a row was inserted, the jobs taken over from another process at work with the same runner id, ... |

Actions: `CheckInFlight`, `Stamp`, `Enqueue` and `Spawn`; the dispatcher's `Scan`, `Skip`, `Full`,
`Dispatch`; a goroutine's `AcquireSlot`, `Abandon`, `LookAround`, `Claim`, `NotClaimed`,
`Fetch`, `FetchFails`, `Register`, `Recheck`; the handler's `Batch`,
`Checkpoint`, `StopEarly`, `Finish`, `HandlerErrs`, `HandlerPanics`; the end of
`execute` in `Complete`, `ErrCheck`, `Fail`, `Refused`, `GivesUp`, `Settle`,
`Finalize`; `Heartbeat`; `Cancel` and `CancelLocal`; `Shutdown`, `Stopped`,
`Crash`, `Restart`.

The clock is read (`Stamp`) before the row is inserted (`Enqueue`), as in
`CreateSidekiqJob`, and `spawn` follows the insert: rows may appear in another
order than they are stamped, and a dispatcher may start a job before its `Spawn`
does. A job without a key is claimed in one step (`ClaimSidekiqJob` reads its own
row only). The claim of a job with a key is two: `LookAround` is the snapshot in
which `ClaimPartitionedSidekiqJob` looks for siblings (`G1`, `G2`), `Claim` the
write, which looks again only at the row it locks. That is what READ COMMITTED
gives; on SQLite the two steps follow each other at once, a special case.

Abstractions. Every other store call is one atomic statement, and fails without
effect. A batch is one page; what it recomputes is left out. `staleBefore` is read
when the row is: a row that lapses during the statement may count as stale, which
only adds behaviours.

Runs. Both say `CHECK_DEADLOCK FALSE`, because a process whose jobs are settled
has nothing to do and the bounds end the faults.

| Run | Instance | Shows |
|---|---|---|
| `jobs_fence` | 2 processes, with node ids and with empty ids, 1 job that is also cancelled, 2 goroutines, 2 slots, 3 attempts, `MaxTrouble` = 2: failing store calls, lapses under a runner at work, crashes or shutdowns (`FewTroubles`: a job that is cancelled meets one of them) | only the goroutine of the latest claim writes the row, unless the job was taken over from another process at work with the same id (`FenceExact`); a settled job stays settled (`TerminalIsFinal`); checkpoints only advance, with the same exception (`CursorNeverBack`); a cancel that returned is heard by the handler (`CancelReaches`); a job that keeps killing its runner is started less than `MaxAttempts` times (`PoisonBounded`) |
| `jobs_keys` | 1 process with 1 or 2 slots and 2 goroutines, 2 jobs of one key, 2 attempts, `MaxTrouble` = 1, `FairSpec` (`StampedFirst`: the jobs are alike, `j1` names the one stamped first) | jobs of one key whose rows appeared in the order of their stamps start in order (`StartedInOrder`) and overlap only after a lapse (`OverlapOnlyAfterLapse`); every job is settled in the end (`EveryJobSettles`) |

Why the bounds are enough: with one job two goroutines are the old owner and the
one that took over; two processes give a takeover by another and by oneself. Two
jobs of one key are the smallest queue. One slot makes one wait for the other,
two let their claims race; that they race in one process or in two makes no
difference to the rows, since a claim does not look at `runner_id`.

Fairness (`jobs_keys` only): goroutines run and handlers return; the dispatcher
ticks; time passes over a row nobody renews; a stopped process is started again.
A goroutine that waits for a slot gets one although the dispatcher competes for
it (strong fairness of `AcquireSlot`): senders blocked on a Go channel are served
first in, first out, before a non-blocking send can succeed. `Spawn`,
`Heartbeat` and `CancelLocal` need none. No trouble and no cancel is obliged to
happen.

Proofs (`JobsProofs`), for any processes and runner ids, jobs, keys, slots, pages
and amount of trouble: `JobTypes`, `FenceIsExact`, `NodeIdsFence`,
`KeysStartInOrder`, `OverlapNeedsLapse`, `CancelIsHeard`, `TerminalForGood`,
`CursorForward`, `PoisonIsBounded`. The fence is `runner_id` and status, and a
runner may claim the same job twice after a lapse; that it is exact rests on
`OnePerJob`: a process never has two goroutines for a job, and whatever it runs is
in its `inflight` map (`Placing`). `Tickets` says that no goroutine holds a later
attempt than the row and no two goroutines the same one. `NodeIdsFence` is what a
cluster that follows the doc of `sidekiq.New` has: with a runner id of its own for
each process there is no exception. `Begun` says that a goroutine works only on a
row that exists and that only existing rows are listed; `Looked` what a claim
between its snapshot and its write still knows of its siblings: an older one that
was inserted before is not pending any more, and one that is running has lapsed.
`CurAhead` says that the cursor of a job's owner is never behind the stored one
while the job is not shared; `StaleLapsed` that a running row without heartbeat
counts as lapsed; `Reachable` that the cancel function of a registered job is its
goroutine's, and that a job on which `Cancel` has written is settled. `Counted`
carries `PoisonBounded`: every start is paid for by a claim of its own, so the
starts and the goroutines still between claim and start together never exceed the
row's `attempts`, and only those that `MaxAttempts` leaves room for are let
through. Model-checked only: `EveryJobSettles`.

Behaviours worth knowing:

* The server passes the empty runner id in every process (`server.go:2843`,
  `sidekiq.New(..., 4, "")`), although `sidekiq.go:85-87` asks for a node id in a
  cluster. With several processes over one database the fence does not tell them
  apart: after a lapse the former owner, still at work, goes on writing
  checkpoints, heartbeats and ends beside the new one, and an older cursor may
  replace a newer one. The comment at `configstore/sidekiq.go:150-152` ("a stale
  runner that revives affects 0 rows") holds for node ids (`NodeIdsFence`). These
  are the exceptions in `FenceExact` and `CursorNeverBack`.
* Two jobs of one key may run at once after a lapse, and, where statements of two
  transactions overlap (Postgres at READ COMMITTED), also when their rows were
  inserted in another order than stamped: the younger is alone when its claim
  looks, and the older's claim looks before the younger's is written. The comment
  at `configstore/sidekiq.go:97` ("at-most-one-running plus FIFO execution per
  key, cluster-wide") holds up to that.
* "Only one recalculation runs at a time" (`handlers/logging.go:2262`) is a check
  followed by an enqueue: two calls may both pass the check.
* `sidekiq.go:85-87` says that an empty runner id makes a running job
  re-claimable at once after a restart; `StartDispatcher` is given the stale
  window (`server.go:2962`), so it takes that long.
* A job whose row cannot be read after its claim (`FetchFails`) stays `running`
  until it lapses and has spent an attempt.


## 8. Sessions

One session at one provider and model: the entry of the key-value store that
keeps it on one key, and any number of its requests in
`selectKeyFromProviderForModelWithPool`.

| Variable | Code |
|---|---|
| `data`, `closed` | the entry under the session's key (key id, expiry), `Store.closed` |
| `now`, `config` | the clock; the keys that at present support the model |
| `pc`, `pool`, `t`, `id` | a request: its place, its `supportedKeys`, the time its operation has read, the key it read or selected |
| `era`, `from`, `upto` | history: how often the session lost its key, and the era in which a request came and was served |

Actions: `Arrive`; `Get` and its second half `Drop`; `Refresh`, `Delete`,
`Select`, `SetNX`, of a first and a second look; the store's `cleanupExpired` and
`Close`; `Tick` and `Reconfigure`. Every operation of the store reads the clock
first and takes the lock later, so a slow one writes an entry that is older than
it looks, perhaps born expired.

Run `sessions`: three requests, three keys, pools of three, two and one, TTL of one
tick, two ticks, one reconfiguration. Three requests are a first one, one that
races it and one with the configuration from before or after the change. The run
ends where all requests are served, so `CHECK_DEADLOCK FALSE`.

* `SplitNeedsLoss`: two requests that came and were served without the session
  losing its key in between got the same key. It is what `SetNX` and the
  second look of the loser are for.
* `LiveEntryKept`: neither the clean-up nor the lazy deletion of `Get` removes an
  entry that was renewed after they found it expired; only a request that found a
  key it may not use does.

Proofs (`SessionsProofs`), for any requests, keys, pools and TTL: `SessionTypes`,
`NoSplitWithoutLoss`, `AlwaysSupported` (a request is served with a key of its own
pool), `RenewedIsKept`. The invariant `Agreement` says that, as long as the
session has lost nothing since a request came, what the request found taken is
still live, what it read is still there, and the entry names the key of everyone
served; `Ordered` that no operation has read a time or an era of the future.

Worth knowing: a request that still has the pool of an old configuration deletes
an entry that a request with the new one has just made, and the session moves
again. The comment at `bifrost.go:9122-9123` ("Subsequent requests reuse it for
the session lifetime") holds up to that; in the model it is a loss, so a new era.


## 9. Webhooks

Async jobs and the announcement of their end: executor and cleaner
(`framework/logstore/asyncjob.go`), dispatcher (`framework/webhooks/dispatcher.go`),
the queue in the configuration store and the redelivery endpoint.

| Variable | Code |
|---|---|
| `status`, `ex`, `home`, `end`, `tries` | the async job's row, the executor's place and node, the end it came to, its inserts into the queue |
| `epRow`, `ep`, `editing`, `streak` | the endpoint's row (enabled, disabled, deleted), the copy each node keeps in memory, the edit whose reload is outstanding, and whether `consecutive_failures` is above 0 |
| `queued`, `count`, `next`, `by`, `until` | the queue row: `attempt_count`, `next_attempt_at`, the claim's owner and expiry |
| `pc`, `on`, `job`, `snap`, `seen`, `lease`, `at`, `out`, `touch` | a delivery goroutine: its place, node and job, the attempt count as it was listed, the endpoint as it was looked up, its lease, the start and the outcome of its attempt |
| `slots` | `perEndpoint` of each node |
| `history` | the outcomes of the delivery records since the job was queued last |
| `claims`, `ticket`, `late`, `told` | history, read by properties only |

Actions: `SubmitJob`, `MarkProcessing`, `Operation`, `Finish`, `Unwanted`,
`EnqueueJobEvent` (the executor); `Reap` (cleaner and TTL); `Redeliver`; `Offer`
and `Resolve` (listing, and the start of `processDue`), `Claim`, `NotClaimed`,
`Read`, `Deliver`, `Record`, `Requeue`, `Count`; `EditEndpoint` (the row) and
`ReloadEndpoint` (the copy of the node that served the edit); `Tick`, `Crash`.
Store calls may fail; inserts, claims and records may fail with the row written.
What the receiver answers is free. The endpoint is one; secrets, signatures and
bodies are left out, except which status the body names.

Run `webhooks`: one node with an empty runner id (the hardest case, since all its
claims bear the same owner), one job, two goroutines, lease and backoff of one
tick, three ticks, and of one failing call, one crash, one edit and one
redelivery any two, but not the last two together (`FewTroubles`). A
lease of one tick expires under a slow attempt, so one goroutine claims
what the other still works on. With two goroutines the cap of two is reached and
never refuses a third; that slots are neither lost nor left over is
`SlotsExact`. The run ends when the clock does, so `CHECK_DEADLOCK FALSE`.

* `FenceExact`: whoever the fence lets through to reschedule or retire the row
  made its latest claim. The fence is the pair of owner and expiry, and the owner
  is the same for all.
* `RetiredIsRecorded`: a claimed delivery that left the queue has a record of how
  it ended, through crashes and failed writes.
* `ToldTheTruth`: a receiver is told one end of a job, the one a poll shows.
* `RetriesBounded`: at most `MaxRetries` retries, unless the row was claimed by a
  goroutine that listed it before somebody else's attempt.
* `SlotsExact`: the slots of a node are those of its goroutines.

Proofs (`WebhooksProofs`), for any nodes, runner ids (equal ones included), jobs,
goroutines, lease and backoff: `WebhookTypes`, `OnlyTheLatestWrites`,
`NothingRetiredUnrecorded`, `ReceiversToldTheTruth`, `RetriesAreBounded`,
`SlotsAreExact`. The
invariant `Claims` has three parts: while a goroutine of the latest claim is at
work the row bears its owner and expiry (`Latest`); the lease of every other
goroutine is over and is not the row's (`Outdated`); two claims of a row never have the same
number (`Distinct`). It rests on a lemma that reduces every action to one of four
kinds of step of the row (`StepKinds`). `Announced` carries the truth of what is
told, `Recorded` and `Retries` the next two. `SlotsAreExact` rests on `Seating`: an
idle goroutine is of no node, so the goroutines of a node are added to and taken
from one at a time, or all at once by a crash.

Behaviours worth knowing:

* An edit of the endpoint is a write to its row and then a reload of the copy in
  memory. When the reload fails, or on another node (the reload notifies none),
  deliveries go on with the old copy until the process restarts.
* The insert into the queue is retried when it fails, and its answer may have been
  lost: if the row was delivered meanwhile it is inserted and delivered again.
  Receivers tell by the delivery's id.
* The attempt number comes from the row as it was listed; a late claim therefore
  may retry once more than `MaxRetries` (`late`).
* A crash between the creation of an async job and its `processing` mark leaves a
  `pending` row that the cleaner does not take.


## 10. What is proved, and what is only model-checked

| Module | Proved for all constants | Model-checked only |
|---|---|---|
| `ProviderQueue` | `TypeOK`, `NoUseAfterRelease`, `OwnReplyOnly`, `RemovedMeansStopped`, `ShutdownWaits`, `ResidualWindowOnly`, `WaiterNotForgotten`, `HooksAtMostOnce` | `WaiterAnswered`, `RetiredWorkersExit`, `ShutdownEnds`, `LifecycleReturns` |
| `RetryLoop` | `TypeOK`, `DeadKeyNeverCalled`, `BudgetKept`, `VerdictTruthful`, `SelectedServed`, `BackoffKept`, `TrailTruthful`, `FairRotation` | |
| `RequestPath` | `TypeOK`, `ChainSpec`, `PrimaryNamed`, `RegistryConsistent`, `NoInstanceLost`, `AnswerNotEmpty` (unary), `Symmetric` (no removals, no empty short-circuits) | |
| `DistributedLock` | `TypeOK`, `LeaseExclusive`, `NotStolen`, `ImplementsLock`, `OutlivesOrphan` (waits longer than TTL and skew) | |
| `Jobs` | `TypeOK`, `FenceExact`, `StartedInOrder`, `OverlapOnlyAfterLapse`, `CancelReaches`, `TerminalIsFinal`, `CursorNeverBack`, `PoisonBounded` | `EveryJobSettles` |
| `Sessions` | `TypeOK`, `SplitNeedsLoss`, `ServedSupported`, `LiveEntryKept` | |
| `Webhooks` | `TypeOK`, `FenceExact`, `RetiredIsRecorded`, `ToldTheTruth`, `RetriesBounded`, `SlotsExact` | |

Type invariants, `NoUseAfterRelease`, `SelectedServed`, `LeaseExclusive` and
`ServedSupported` are proved and not asked of TLC again.

What stays with TLC is liveness: reasoning about fairness and `ENABLED` is beyond
the proof system. Three theorems have a hypothesis on the constants, given in
brackets above; in each case the runs' instances satisfy it and the code breaks
the property without it.

The proofs assume nothing but the named assumptions on the constants, which TLC
evaluates on every run. The bounds on faults, lapses, crashes, edits and time are
constants too, so the theorems hold for any number of them.

## 11. What is not modelled

* Provider adapters, request and response schemas, HTTP handlers, integrations,
  migrations, UI and CLI: conversion of data, SQL text and I/O, without state
  shared between calls. They are by far the largest part of the repository
  (some 400 thousand lines), so the modelled core is a small share of its lines.
  A model of a conversion would be the conversion again.
* The stores (configuration, logs, vectors, objects): what is interesting in
  them is the database's. The tables that carry a protocol between processes
  (locks, sidekiq, webhook queue) are modelled with their users.
* The remote forms of the key-value store (`SetRemote`, `DeleteRemote`): no code in
  the repository calls them.
* The chunks of a stream, the MCP pipeline, the cleanup of plugins in use, and the
  parts listed as left in the plan.
* Several providers at once: a `Bifrost` value keeps a queue, a lock and a wait
  group per provider, and no operation in the core takes two of the locks;
  `Shutdown` alone visits all of them, one after the other.
* `MarkStaleSidekiqJobsFailed`, which has no caller; `DeliverTest`, the rotation of
  secrets, the expiry of delivery records and `Stop` of the webhook dispatcher.
