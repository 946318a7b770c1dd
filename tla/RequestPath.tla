------------------------------ MODULE RequestPath ------------------------------
(***************************************************************************)
(* One top-level request of core/bifrost.go from handleRequest (or         *)
(* handleStreamRequest) to its return: the routing hooks, the attempts of  *)
(* the primary provider and of its fallbacks, and in every attempt the     *)
(* hooks of the plugin pipeline around the provider call.  Meanwhile       *)
(* RemovePlugin, ReloadPlugin and ReorderPlugins change the list of        *)
(* plugins, which every pipeline copies when it is taken from the pool.    *)
(*                                                                         *)
(* The provider's queue and its worker are the module ProviderQueue; here  *)
(* a provider call answers, or the caller gives up on its context.         *)
(***************************************************************************)
EXTENDS Integers, Sequences, FiniteSets, SequencesExt

CONSTANTS
  Plugins,        \* plugin instances
  NameOf,         \* GetName of each instance
  InitPlugins,    \* the list Init is given
  Admins,         \* callers of RemovePlugin, ReloadPlugin, ReorderPlugins
  Removals,       \* names that may be removed
  Reloads,        \* new instances that may be handed to ReloadPlugin
  Orders,         \* orderings (sequences of names) given to ReorderPlugins
  MaxChanges,     \* bound on the number of changes of the list
  MaxFallbacks,   \* bound on the number of fallbacks
  Modes,          \* subset of {"unary", "stream"}
  ShortCircuits,  \* what hooks short-circuit with; a "stray" is nothing the caller reads
  HookErrs,       \* kinds of errors plugins make
  ProviderErrs,   \* kinds of errors providers answer with
  EarlyEnds,      \* whether attempts may end without an answer
  CanRecover,     \* whether post-hooks recover from errors
  NoChange

\* A "veto" has AllowFallbacks = false; a "cancelled" error is of type
\* RequestCancelled; "filtered" is the synthetic no_eligible_keys; "empty" has
\* an Error without any field set; "bare" has no Error at all.
ErrKinds == {"plain", "veto", "cancelled", "filtered", "empty", "bare"}

Unique(list) == \A i, j \in DOMAIN list : NameOf[list[i]] = NameOf[list[j]] => i = j

ASSUME RequestPathAssumption ==
  /\ InitPlugins \in Seq(Plugins) /\ Unique(InitPlugins)
  /\ Reloads \subseteq Plugins
  /\ \A i \in DOMAIN InitPlugins : InitPlugins[i] \notin Reloads
  /\ \A o \in Orders : o \in Seq(Range(o))
  /\ MaxChanges \in Nat /\ MaxFallbacks \in Nat
  /\ Modes \subseteq {"unary", "stream"}
  /\ ShortCircuits \subseteq {"response", "error", "stream", "stray"}
  /\ HookErrs \subseteq ErrKinds \ {"empty", "filtered"}
  /\ ProviderErrs \subseteq {"plain", "cancelled", "filtered"}
  /\ EarlyEnds \in BOOLEAN /\ CanRecover \in BOOLEAN

VARIABLES
  llmPlugins,  \* the atomic pointer: identity of the slice it points to, and the slice
  cleaned,     \* instances whose Cleanup has been called
  fresh,       \* instances not yet handed to ReloadPlugin
  changes,     \* changes begun
  apc, op, seen, \* per admin: place, the change it makes, the slice it loaded
  pc,          \* place of the request in handleRequest and tryRequest
  mode,        \* unary (handleRequest) or stream (handleStreamRequest)
  skip,        \* BifrostContextKeySkipPluginPipeline
  fallbacks,   \* number of fallbacks of the request
  link,        \* BifrostContextKeyFallbackIndex
  pipeline,    \* p.llmPlugins of the pipeline in use
  idx,         \* position in it
  reqOK,       \* the request the last hook returned is not nil
  reply,       \* the response and error handed from hook to hook
  via,         \* what made tryRequest run the post-hooks
  count,       \* pluginCount
  given,       \* the error a streaming attempt received from its worker
  ctxDone,     \* the caller's context is done
  routing,     \* BifrostContextKeyRoutingInfo: which link it names as serving, as primary
  stashed,     \* the primary attempt has written routing
  trail,       \* what each link returned
  result,      \* what the caller is given
  pres, posts  \* PreLLMHooks and PostLLMHooks run in this attempt, in order

regVars  == <<llmPlugins, cleaned, fresh, changes>>
admVars  == <<apc, op, seen>>
pipeVars == <<pipeline, idx, reqOK, reply, via, count, given>>
callVars == <<mode, skip>>
chainVars == <<fallbacks, link, trail, result>>
histVars == <<pres, posts>>
ctxVars  == <<ctxDone, routing, stashed>>
vars == <<regVars, admVars, pc, pipeVars, callVars, chainVars, histVars, ctxVars>>

Links == 0..MaxFallbacks
Skipped == [resp |-> FALSE, err |-> "skipped"]
NoResult == [resp |-> FALSE, err |-> "pending"]
Outcomes == [resp : BOOLEAN, err : {"none"} \cup ErrKinds]
Ok == [resp |-> TRUE, err |-> "none"]
Neither == [resp |-> FALSE, err |-> "none"]
Failure(e) == [resp |-> FALSE, err |-> e]

\* RoutingInfo, by link: role is "fallback" when IsFallback is set.  Nobody is an
\* unset field, Other a provider that an earlier request on the context named.
Nobody == -1
Other == -2
NoInfo == [at |-> Nobody, role |-> "primary", primary |-> Nobody]
Leftovers == {NoInfo, [NoInfo EXCEPT !.at = Other]}
             \cup [at : {Other}, role : {"fallback"}, primary : {Nobody, Other}]

(***************************************************************************)
(* The list of plugins.  A change loads the pointer, builds a new slice    *)
(* and publishes it by compare-and-swap, starting over when another change *)
(* came first; only then does it clean up the instance it displaced.       *)
(***************************************************************************)
Changes == [kind : {"remove"}, arg : Removals] \cup [kind : {"reload"}, arg : Reloads]
           \cup [kind : {"reorder"}, arg : Orders]

TargetName(c) == IF c.kind = "remove" THEN c.arg ELSE NameOf[c.arg]

\* The instances of list that the change takes out of it.
Displaced(list, c) ==
  IF c.kind = "reorder" THEN {}
  ELSE {p \in Range(list) : NameOf[p] = TargetName(c)}

\* SliceStable by position in the order; names it does not list come last.
Position(list, order, x) ==
  IF \E i \in DOMAIN order : order[i] = NameOf[x]
  THEN CHOOSE i \in DOMAIN order : order[i] = NameOf[x]
  ELSE Len(order) + (CHOOSE i \in DOMAIN list : list[i] = x)

Precedes(list, order, p, q) == Position(list, order, p) < Position(list, order, q)

Reordered(list, order) ==
  [i \in DOMAIN list |->
     CHOOSE p \in Range(list) :
       Cardinality({q \in Range(list) : Precedes(list, order, q, p)}) = i - 1]

\* Names are unique: one instance at most is removed or replaced.
Changed(list, c) ==
  CASE c.kind = "remove" -> RemoveAt(list, CHOOSE i \in DOMAIN list : NameOf[list[i]] = c.arg)
    [] c.kind = "reorder" -> Reordered(list, c.arg)
    [] c.kind = "reload" ->
         IF Displaced(list, c) = {} THEN Append(list, c.arg)
         ELSE [i \in DOMAIN list |->
                 IF NameOf[list[i]] = TargetName(c) THEN c.arg ELSE list[i]]

reqVars == <<pc, pipeVars, callVars, chainVars, histVars, ctxVars>>

ChangeBegin(a, c) ==
  /\ apc[a] = "idle"
  /\ changes < MaxChanges
  /\ c.kind = "reload" => c.arg \in fresh
  /\ fresh' = IF c.kind = "reload" THEN fresh \ {c.arg} ELSE fresh
  /\ changes' = changes + 1
  /\ apc' = [apc EXCEPT ![a] = "load"]
  /\ op' = [op EXCEPT ![a] = c]
  /\ UNCHANGED <<llmPlugins, cleaned, seen, reqVars>>

LoadPlugins(a) ==
  /\ apc[a] = "load"
  /\ seen' = [seen EXCEPT ![a] = llmPlugins]
  /\ apc' = [apc EXCEPT ![a] =
       IF \/ op[a].kind = "remove" /\ Displaced(llmPlugins.list, op[a]) = {}
          \/ op[a].kind = "reorder" /\ llmPlugins.list = <<>>
       THEN "idle" ELSE "swap"]
  /\ UNCHANGED <<regVars, op, reqVars>>

\* Wrong variant: the slice is stored without comparing the pointer.
StoreUnchecked(a) ==
  /\ apc[a] = "swap"
  /\ llmPlugins' = [at |-> llmPlugins.at + 1, list |-> Changed(seen[a].list, op[a])]
  /\ apc' = [apc EXCEPT ![a] =
       IF Displaced(seen[a].list, op[a]) = {} THEN "idle" ELSE "cleanup"]
  /\ UNCHANGED <<cleaned, fresh, changes, op, seen, reqVars>>

CompareAndSwap(a) ==
  /\ apc[a] = "swap"
  /\ IF llmPlugins.at = seen[a].at
     THEN /\ llmPlugins' = [at |-> llmPlugins.at + 1, list |-> Changed(seen[a].list, op[a])]
          /\ apc' = [apc EXCEPT ![a] =
               IF Displaced(seen[a].list, op[a]) = {} THEN "idle" ELSE "cleanup"]
     ELSE /\ apc' = [apc EXCEPT ![a] = "load"]
          /\ UNCHANGED llmPlugins
  /\ UNCHANGED <<cleaned, fresh, changes, op, seen, reqVars>>

\* Wrong variant: the displaced instance is forgotten.
SkipCleanup(a) ==
  /\ apc[a] = "cleanup"
  /\ apc' = [apc EXCEPT ![a] = "idle"]
  /\ UNCHANGED <<llmPlugins, cleaned, fresh, changes, op, seen, reqVars>>

Cleanup(a) ==
  /\ apc[a] = "cleanup"
  /\ cleaned' = cleaned \cup Displaced(seen[a].list, op[a])
  /\ apc' = [apc EXCEPT ![a] = "idle"]
  /\ UNCHANGED <<llmPlugins, fresh, changes, op, seen, reqVars>>

(***************************************************************************)
(* handleRequest and handleStreamRequest: routing.                         *)
(***************************************************************************)
\* getPluginPipeline; with the skip flag no hook of it runs.
Pipeline == IF skip THEN <<>> ELSE llmPlugins.list

Cancel ==
  /\ EarlyEnds
  /\ pc \notin {"idle", "done", "panicked"}
  /\ ~ctxDone
  /\ ctxDone' = TRUE
  /\ UNCHANGED <<regVars, admVars, pc, pipeVars, callVars, chainVars, histVars, routing, stashed>>

\* Only streams read the RoutingInfo of the context.
Begin ==
  /\ pc = "idle"
  /\ pc' = "preRequest"
  /\ mode' \in Modes
  /\ skip' \in BOOLEAN
  /\ fallbacks' \in Links
  /\ pipeline' = IF skip' THEN <<>> ELSE llmPlugins.list
  /\ idx' = 1
  /\ routing' \in IF mode' = "stream" THEN Leftovers ELSE {NoInfo}
  /\ UNCHANGED <<regVars, admVars, reqOK, reply, via, count, given, link, trail, result,
                 histVars, ctxDone, stashed>>

\* One plugin's PreRequestHook may rewrite the fallbacks; its error is ignored.
PreRequestHook ==
  /\ pc = "preRequest"
  /\ idx <= Len(pipeline)
  /\ fallbacks' \in Links
  /\ idx' = idx + 1
  /\ UNCHANGED <<regVars, admVars, pc, pipeline, reqOK, reply, via, count, given, callVars,
                 link, trail, result, pres, posts, ctxVars>>

\* validateRequestAfterPreRequestHooks found a provider and a model.
Routed ==
  /\ pc = "preRequest"
  /\ idx > Len(pipeline)
  /\ pc' = "attempt"
  /\ UNCHANGED <<regVars, admVars, pipeVars, callVars, chainVars, histVars, ctxVars>>

\* It found no provider or no model.
Unresolved ==
  /\ pc = "preRequest"
  /\ idx > Len(pipeline)
  /\ pc' = "done"
  /\ result' = Failure("plain")
  /\ UNCHANGED <<regVars, admVars, pipeVars, callVars, fallbacks, link, trail, histVars, ctxVars>>

(***************************************************************************)
(* tryRequest and tryStreamRequest: one attempt.                           *)
(***************************************************************************)
\* The attempt returns r.
Ended(r) ==
  /\ pc' = "verdict"
  /\ trail' = Append(trail, r)
  /\ UNCHANGED <<fallbacks, link, result>>

\* Returns of tryRequest that run no post-hook.
Unanswered(e) ==
  /\ Ended(Failure(e))
  /\ UNCHANGED <<regVars, admVars, pipeVars, callVars, histVars, ctxVars>>

NoQueue ==
  /\ pc = "attempt"
  /\ EarlyEnds
  /\ pc' = "verdict"
  /\ trail' = Append(trail, Failure("plain"))
  /\ pres' = <<>> /\ posts' = <<>> /\ via' = "none"
  /\ UNCHANGED <<regVars, admVars, pipeline, idx, reqOK, reply, count, given, callVars,
                 fallbacks, link, result, ctxVars>>

TryRequest ==
  /\ pc = "attempt"
  /\ pc' = "preProvider"
  /\ pipeline' = Pipeline
  /\ idx' = 1
  /\ reqOK' = TRUE
  /\ via' = "none"
  /\ pres' = <<>> /\ posts' = <<>>
  /\ UNCHANGED <<regVars, admVars, reply, count, given, callVars, chainVars, ctxVars>>

\* A hook lets the request pass, and may return a nil request.  One that
\* short-circuits with nothing the caller reads ends the pre-hooks all the same.
Pass ==
  /\ idx' \in {idx + 1} \cup (IF "stray" \in ShortCircuits THEN {Len(pipeline) + 1} ELSE {})
  /\ reqOK' \in IF EarlyEnds THEN BOOLEAN ELSE {TRUE}
  /\ UNCHANGED <<pc, pipeline, reply, via, count, given>>

\* A hook short-circuits: the post-hooks of the plugins up to it follow.
ShortCircuit(withResponse, withError) ==
  /\ \/ /\ "response" \in ShortCircuits
        /\ reply' = Ok
        /\ via' = withResponse
     \/ /\ "error" \in ShortCircuits
        /\ reply' \in {Failure(e) : e \in HookErrs}
        /\ via' = withError
  /\ pc' = "post"
  /\ UNCHANGED <<pipeline, idx, reqOK, count, given>>

PreProviderHook ==
  /\ pc = "preProvider"
  /\ idx <= Len(pipeline)
  /\ Pass \/ ShortCircuit("provider", "providerErr")
  /\ UNCHANGED <<regVars, admVars, callVars, chainVars, pres, posts, ctxVars>>

\* tryStreamRequest keeps its own request when the hooks returned nil.
PreProviderDone ==
  /\ pc = "preProvider"
  /\ idx > Len(pipeline)
  /\ reqOK \/ mode = "stream"
  /\ pc' = "preLLM"
  /\ idx' = 1
  /\ reqOK' = TRUE
  /\ UNCHANGED <<regVars, admVars, pipeline, reply, via, count, given, callVars, chainVars,
                 histVars, ctxVars>>

PreProviderNil ==
  /\ pc = "preProvider"
  /\ idx > Len(pipeline)
  /\ ~reqOK /\ mode = "unary"
  /\ Unanswered("plain")

\* A short-circuit with a stream ends a streaming attempt: its chunks pass the
\* post-hooks in a goroutine.
StreamShortCircuit ==
  /\ mode = "stream" /\ "stream" \in ShortCircuits
  /\ Ended(Ok)
  /\ via' = "stream"
  /\ UNCHANGED <<pipeline, idx, reqOK, reply, count, given>>

PreLLMHook ==
  /\ pc = "preLLM"
  /\ idx <= Len(pipeline)
  /\ pres' = Append(pres, pipeline[idx])
  /\ \/ Pass /\ UNCHANGED chainVars
     \/ ShortCircuit("llm", "llm") /\ UNCHANGED chainVars
     \/ StreamShortCircuit
  /\ UNCHANGED <<regVars, admVars, callVars, posts, ctxVars>>

PreLLMNil ==
  /\ pc = "preLLM"
  /\ idx > Len(pipeline)
  /\ ~reqOK
  /\ Unanswered("plain")

\* The queue refuses the message: the provider shuts down, or it is full.
Refused ==
  /\ pc = "preLLM"
  /\ idx > Len(pipeline)
  /\ reqOK
  /\ EarlyEnds
  /\ Unanswered("plain")

\* newBifrostCtxDoneError forbids fallbacks, for a cancelled context and for
\* an expired one, while the message waits for the queue or for its answer.
CtxDone ==
  /\ \/ pc = "preLLM" /\ idx > Len(pipeline) /\ reqOK
     \/ pc = "wait"
  /\ ctxDone
  /\ Unanswered("cancelled")

Enqueue ==
  /\ pc = "preLLM"
  /\ idx > Len(pipeline)
  /\ reqOK
  /\ pc' = "wait"
  /\ count' = IF mode = "unary" THEN Len(llmPlugins.list) ELSE count
  /\ UNCHANGED <<regVars, admVars, pipeline, idx, reqOK, reply, via, given, callVars, chainVars,
                 histVars, ctxVars>>

\* RunPostLLMHooks starts at the last of the first n plugins of the pipeline.
PostFrom(n) == IF n > Len(pipeline) THEN Len(pipeline) ELSE n

Role == IF link > 0 THEN "fallback" ELSE "primary"

\* Wrong variant: the previous snapshot's provider is always the primary.
SnapshotPrevious(prev) ==
  [at |-> link, role |-> Role, primary |-> IF link > 0 THEN prev.at ELSE Nobody]

\* The RoutingInfo a streaming attempt stashes in the context: a fallback takes
\* its primary from the snapshot it finds there.
Snapshot(prev) ==
  [at |-> link,
   role |-> Role,
   primary |-> IF link = 0 THEN Nobody
               ELSE IF prev.role = "fallback" /\ prev.primary # Nobody THEN prev.primary ELSE prev.at]

\* If the worker's handler ran, it stashed a snapshot, and retries stashed it
\* again; more than one retry changes nothing.
Stash(ran) ==
  IF ran /\ mode = "stream"
  THEN /\ routing' \in {Snapshot(routing), Snapshot(Snapshot(routing))}
       /\ stashed' = (stashed \/ link = 0)
  ELSE UNCHANGED <<routing, stashed>>

\* A stream is handed to the caller; its hooks run with its chunks.
Streaming ==
  /\ pc = "wait" /\ mode = "stream"
  /\ Ended(Ok)
  /\ via' = "stream"
  /\ Stash(TRUE)
  /\ UNCHANGED <<regVars, admVars, pipeline, idx, reqOK, reply, count, given, callVars, histVars,
                 ctxDone>>

\* The worker's error may precede its handler (no key, a drained queue).
Answered ==
  /\ pc = "wait"
  /\ \E e \in {"none"} \cup ProviderErrs :
       /\ mode = "stream" => e # "none"
       /\ reply' = CASE e = "none" -> Ok [] e = "filtered" -> Failure("plain")
                     [] OTHER -> Failure(e)
  /\ given' = IF mode = "stream" THEN reply' ELSE given
  /\ \E ran \in BOOLEAN : Stash(ran)
  /\ pc' = "post"
  /\ via' = "answer"
  /\ idx' = PostFrom(IF mode = "unary" THEN count ELSE Len(llmPlugins.list))
  /\ UNCHANGED <<regVars, admVars, pipeline, reqOK, count, callVars, chainVars, histVars, ctxDone>>

(***************************************************************************)
(* RunPostLLMHooks, and the return of the attempt.                         *)
(***************************************************************************)
\* A hook may leave the pair alone, recover, invalidate, set both, or neither.
PostResults ==
  {reply} \cup [resp : BOOLEAN,
                err : HookErrs \cup IF CanRecover THEN {"none", "empty"} ELSE {}]

\* Wrong variant: the hooks are taken from the list as it is now.
PostLLMHookOfCurrent ==
  /\ pc = "post"
  /\ idx > 0
  /\ posts' = Append(posts, llmPlugins.list[idx])
  /\ reply' \in PostResults
  /\ idx' = idx - 1
  /\ UNCHANGED <<regVars, admVars, pc, pipeline, reqOK, via, count, given, callVars, chainVars,
                 pres, ctxVars>>

\* RunPostLLMHooks, one plugin: from the end of the pipeline's own copy.
PostLLMHook ==
  /\ pc = "post"
  /\ idx > 0
  /\ posts' = Append(posts, pipeline[idx])
  /\ reply' \in PostResults
  /\ idx' = idx - 1
  /\ UNCHANGED <<regVars, admVars, pc, pipeline, reqOK, via, count, given, callVars, chainVars,
                 pres, ctxVars>>

\* An empty error next to a response is a recovery; any other error wins.
Final(r) ==
  IF r.err = "none" \/ (r.err = "empty" /\ r.resp) THEN [resp |-> r.resp, err |-> "none"]
  ELSE Failure(r.err)

\* Wrong variant: a recovered short-circuit error leaves nothing to return.
DropRecovery ==
  IF via = "providerErr" /\ Final(reply).err = "none" THEN Neither ELSE Final(reply)

\* tryRequest returns what the hooks left, be it neither response nor error.
\* tryStreamRequest returns its error variable, by then nil, when the error of a
\* pre-provider short-circuit was recovered, and the error it was given when the
\* hooks left neither.
Returned ==
  CASE mode = "stream" /\ via = "providerErr" /\ Final(reply).err = "none" -> Neither
    [] mode = "stream" /\ via = "answer" /\ Final(reply) = Neither -> given
    [] OTHER -> Final(reply)

\* The hooks after any other short-circuit of a stream left neither.
NilMessage == mode = "stream" /\ via \in {"provider", "llm"} /\ Final(reply) = Neither

Return ==
  /\ pc = "post"
  /\ idx = 0
  /\ ~NilMessage
  /\ Ended(Returned)
  /\ UNCHANGED <<regVars, admVars, pipeVars, callVars, histVars, ctxVars>>

\* newBifrostMessageChan reads the fields of a nil response, in a goroutine.
MessageChanPanics ==
  /\ pc = "post"
  /\ idx = 0
  /\ NilMessage
  /\ pc' = "panicked"
  /\ UNCHANGED <<regVars, admVars, pipeVars, callVars, chainVars, histVars, ctxVars>>

(***************************************************************************)
(* The chain of fallbacks.                                                 *)
(***************************************************************************)
Outcome == trail[Len(trail)]

Halts(o) == o.err \in {"veto", "cancelled"}

Decisive(o) == o.err = "none" \/ Halts(o)

Finish(r) ==
  /\ pc' = "done"
  /\ result' = r
  /\ UNCHANGED <<regVars, admVars, pipeVars, callVars, fallbacks, link, trail, histVars,
                 ctxDone, stashed>>

ToFallback ==
  /\ pc' = "fallback"
  /\ link' = link + 1
  /\ UNCHANGED <<regVars, admVars, pipeVars, callVars, fallbacks, trail, result, histVars, ctxVars>>

\* Wrong variant: an error that forbids fallbacks is followed by them.
FallbacksWhateverError ==
  /\ pc = "verdict" /\ link = 0
  /\ IF Outcome.err = "none" \/ fallbacks = 0 
     THEN Finish(Outcome) /\ UNCHANGED routing ELSE ToFallback

\* shouldTryFallbacks on what the primary returned.
AfterPrimary ==
  /\ pc = "verdict" /\ link = 0
  /\ IF Decisive(Outcome) \/ fallbacks = 0
     THEN Finish(Outcome) /\ UNCHANGED routing ELSE ToFallback

\* The primary is layered onto the snapshot of a stream that a fallback serves.
SetFallbackRoutingInfo ==
  IF mode = "stream" /\ Outcome.err = "none" /\ routing # NoInfo
  THEN [routing EXCEPT !.role = "fallback", !.primary = 0] ELSE routing

\* shouldContinueWithFallbacks on what a fallback returned.  It reads the type
\* of an error that has no Error field.
AfterFallback ==
  /\ pc = "verdict" /\ link > 0
  /\ IF Outcome.err = "bare"
     THEN /\ pc' = "panicked"
          /\ UNCHANGED <<regVars, admVars, pipeVars, callVars, chainVars, histVars, ctxVars>>
     ELSE IF Decisive(Outcome) THEN Finish(Outcome) /\ routing' = SetFallbackRoutingInfo
          ELSE ToFallback

\* The fallback's provider is configured: try it.  clearCtxForFallback keeps the
\* RoutingInfo of the attempts before.
TryFallback ==
  /\ pc = "fallback" /\ link <= fallbacks
  /\ pc' = "attempt"
  /\ UNCHANGED <<regVars, admVars, pipeVars, callVars, chainVars, histVars, ctxVars>>

\* prepareFallbackRequest found no configuration.
SkipFallback ==
  /\ pc = "fallback" /\ link <= fallbacks
  /\ link' = link + 1
  /\ trail' = Append(trail, Skipped)
  /\ UNCHANGED <<regVars, admVars, pc, pipeVars, callVars, fallbacks, result, histVars, ctxVars>>

\* Every fallback failed or was skipped: the primary error is returned.
Exhausted ==
  /\ pc = "fallback" /\ link > fallbacks
  /\ Finish(trail[1]) /\ UNCHANGED routing

(***************************************************************************)
(* The specification.                                                      *)
(***************************************************************************)
Init ==
  /\ llmPlugins = [at |-> 0, list |-> InitPlugins]
  /\ cleaned = {} /\ fresh = Reloads /\ changes = 0
  /\ apc = [a \in Admins |-> "idle"]
  /\ op = [a \in Admins |-> NoChange]
  /\ seen = [a \in Admins |-> [at |-> 0, list |-> InitPlugins]]
  /\ pc = "idle" /\ mode = "unary" /\ skip = FALSE
  /\ fallbacks = 0 /\ link = 0 /\ trail = <<>> /\ result = NoResult
  /\ pipeline = <<>> /\ idx = 1 /\ reqOK = TRUE /\ reply = Ok /\ via = "none" /\ count = 0
  /\ given = Ok
  /\ pres = <<>> /\ posts = <<>>
  /\ ctxDone = FALSE /\ routing = NoInfo /\ stashed = FALSE

Routing == Begin \/ PreRequestHook \/ Routed \/ Unresolved
Attempt == \/ NoQueue \/ TryRequest \/ PreProviderHook \/ PreProviderDone \/ PreProviderNil
           \/ PreLLMHook \/ PreLLMNil \/ Refused \/ CtxDone \/ Enqueue \/ Streaming
           \/ Answered \/ PostLLMHook \/ Return \/ MessageChanPanics
Chain == AfterPrimary \/ AfterFallback \/ TryFallback \/ SkipFallback \/ Exhausted
Change(a) == \/ \E c \in Changes : ChangeBegin(a, c)
             \/ LoadPlugins(a) \/ CompareAndSwap(a) \/ Cleanup(a)

\* No request and no change of the list is under way.
Quiet ==
  /\ pc \in {"idle", "done", "panicked"}
  /\ \A a \in Admins : apc[a] = "idle"
  /\ UNCHANGED vars

Next == Routing \/ Attempt \/ Chain \/ Cancel \/ Quiet \/ \E a \in Admins : Change(a)

Spec == Init /\ [][Next]_vars

(***************************************************************************)
(* Properties.                                                             *)
(***************************************************************************)
Pcs == {"idle", "preRequest", "attempt", "preProvider", "preLLM", "wait", "post",
        "verdict", "fallback", "done", "panicked"}

\* The request is at a label of the code, its chain is a sequence of outcomes,
\* and so are what the worker answered and what the hooks hand on.
TypeOK ==
  /\ pc \in Pcs
  /\ fallbacks \in Links /\ link \in Nat
  /\ trail \in Seq(Outcomes \cup {Skipped})
  /\ reply \in Outcomes /\ given \in Outcomes

\* However removals, reloads and reorderings interleave, no two listed plugins
\* have the same name and no listed plugin has been cleaned up (the
\* compare-and-swap loops of removeLLMPlugin and reloadLLMPlugin).
RegistryConsistent ==
  /\ Unique(llmPlugins.list)
  /\ Range(llmPlugins.list) \cap cleaned = {}

\* An instance that was given to Init or to ReloadPlugin is listed, or has been
\* cleaned up, or some call still has it in hand: none is lost with its
\* resources open when changes collide.
NoInstanceLost ==
  \A p \in Range(InitPlugins) \cup (Reloads \ fresh) :
    \/ p \in Range(llmPlugins.list) \cup cleaned
    \/ \E a \in Admins :
         \/ apc[a] = "cleanup" /\ p \in Displaced(seen[a].list, op[a])
         \/ apc[a] \in {"load", "swap"} /\ op[a] = [kind |-> "reload", arg |-> p]

\* After an attempt that was answered, or that a PreLLMHook cut short, the
\* PostLLMHooks have run for exactly the instances whose PreLLMHook ran, in
\* reverse order, although plugins are added, replaced and reordered between
\* the two (RunLLMPreHooks, RunPostLLMHooks, getPluginPipeline).
Symmetric == pc = "verdict" /\ via \in {"llm", "answer"} => posts = Reverse(pres)

\* Once the primary attempt has reached its provider, every fallback that
\* reaches its own names the primary as the one it stands in for, in the header
\* snapshot and in the chunks, through any number of failed fallbacks and of
\* retries and whatever an earlier request left in the context (the carried-
\* through primary of requestWorker's stream handler).
PrimaryNamed ==
  pc = "verdict" /\ link > 0 /\ routing.at = link /\ stashed => routing.primary = 0

\* The caller is given a response or an error, whatever the hooks recovered,
\* invalidated or set on the way, unless the last hook of the attempt returned
\* neither (the returns of tryRequest and tryStreamRequest).
AnswerNotEmpty == pc = "done" => result.resp \/ result.err # "none" \/ reply = Neither

\* The request behaves as the chain of fallbacks its caller is promised.
FC == INSTANCE FallbackChain
ChainSpec == FC!Spec

====
