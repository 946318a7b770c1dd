------------------------------- MODULE RetryLoop -------------------------------
(***************************************************************************)
(* executeRequestWithRetries of core/bifrost.go: one attempt at a provider *)
(* is a loop of calls, each made with a key that the request's keyProvider *)
(* selects.  A denied key (401, 402, 403) is dead for the request, a       *)
(* rate-limited one rests until every other key had its turn, and any      *)
(* other transient failure is retried with the same key.  A request whose  *)
(* replayed encrypted reasoning is rejected is stripped of it and granted  *)
(* one attempt beyond the budget.                                          *)
(*                                                                         *)
(* The key pool filter (the cooldown plugin) may suppress any keys at any  *)
(* time; when it fails, or none is installed, it suppresses none.          *)
(***************************************************************************)
EXTENDS Naturals, Sequences, FiniteSets

CONSTANTS
  Keys,        \* the keys a provider may be configured with
  Kinds,       \* subset of {"none", "fixed", "rotating"}: the keyProviders that occur
  MaxRetries,  \* config.NetworkConfig.MaxRetries
  NoKey        \* the zero Key

ASSUME RetryAssumption ==
  /\ MaxRetries \in Nat
  /\ NoKey \notin Keys
  /\ Kinds \subseteq {"none", "fixed", "rotating"}

VARIABLES
  kind, pool,   \* which keyProvider, and the keys it captured
  pc,           \* "top" of the loop, "call" in the handler, or "done"
  attempts,     \* attempts
  extra,        \* extraAttempts
  stripped,     \* strippedEncryptedContent
  key, prev,    \* currentKey, previousKeyID
  used, dead,   \* usedKeyIDs, deadKeyIDs
  lastPerKey, lastPermanent, lastStrip, \* what the previous failure was
  pending,      \* pendingRotationAttemptIdx, 0 for none
  trail,        \* BifrostContextKeyAttemptTrail
  selected,     \* BifrostContextKeySelectedKeyID
  result,       \* the error returned, or "ok"
  calls,        \* history: the calls made, with key, wait before it, and answer
  skipped       \* history: keys the filter hid when a round was closed without them

setting == <<kind, pool>>
budget  == <<attempts, extra, stripped>>
keyVars == <<key, used>>
last    == <<prev, dead, lastPerKey, lastPermanent, lastStrip>>
vars == <<setting, pc, budget, keyVars, last, pending, trail, selected, result, calls, skipped>>

\* A provider's answer: success; an error of the gateway itself; RequestCancelled;
\* 401, 402 or 403; 429 or a rate-limit text; 5xx or a network error; a
\* rejection of encrypted reasoning; any other error.
Answers == {"ok", "internal", "cancelled", "denied", "limited", "transient", "rejected", "invalid"}
PerKey == {"denied", "limited"}

(***************************************************************************)
(* The head of an iteration: select a key, record the attempt, wait, call. *)
(***************************************************************************)
\* A key is selected on the first attempt and after a failure of the key.
Selects == kind # "none" /\ (attempts = 0 \/ lastPerKey)

\* The first attempt with a key empties the trail a reused context carries.
CtxTrail == IF kind # "none" /\ attempts = 0 THEN <<>> ELSE trail

\* The trail once key k is selected: the failed attempt that waits to learn
\* whether it caused a rotation learns it.
Resolved(k) ==
  IF pending # 0 /\ CtxTrail[pending].key # k
  THEN [CtxTrail EXCEPT ![pending].rotated = TRUE] ELSE CtxTrail

\* Wrong variant: every attempt after a strip goes out at once.
WaitsUnlessStripped(k) ==
  attempts > 0 /\ ~((lastPermanent /\ k # prev) \/ stripped)

\* Backoff is skipped for a fresh credential after a dead one, and after a strip.
Waits(k) == attempts > 0 /\ ~((lastPermanent /\ kind # "none" /\ k # prev) \/ lastStrip)

\* The attempt is recorded, backoff slept, and the handler called with k.
Call(k, t) ==
  /\ pc = "top"
  /\ pc' = "call"
  /\ trail' = IF kind = "none" THEN t
              ELSE Append(t, [key |-> k, rotated |-> FALSE, reason |-> "none"])
  /\ calls' = Append(calls, [key |-> k, waited |-> Waits(k), answer |-> "none"])
  /\ UNCHANGED <<setting, budget, last, result>>

Use(k) ==
  /\ Selects
  /\ Call(k, Resolved(k))
  /\ key' = k
  /\ selected' = k
  /\ pending' = 0

SameKey ==
  /\ ~Selects
  /\ Call(key, trail)
  /\ UNCHANGED <<keyVars, pending, selected, skipped>>

\* Wrong variant: a rate-limited key stays in the draw.
NotDead == pool \ dead

\* Keys neither dead nor rate-limited in this round.
Fresh == (pool \ dead) \ used

\* Wrong variant: rate-limited keys are counted out.
LiveAndUnused == (pool \ dead) \ used

Live == pool \ dead

PickFixed ==
  /\ kind = "fixed"
  /\ \E k \in Live : Use(k)
  /\ UNCHANGED <<used, skipped>>

PickFresh ==
  /\ kind = "rotating"
  /\ \E k \in Fresh : Use(k)
  /\ UNCHANGED <<used, skipped>>

\* Wrong variant: the new round is drawn from the whole pool.
NewRoundFromPool ==
  /\ kind = "rotating"
  /\ \E k \in pool : Use(k)
  /\ used' = {}
  /\ skipped' = skipped \cup Fresh

\* No fresh key, or the filter suppresses them all: the round ends, and the
\* next one is drawn from the live keys the filter lets pass.
NewRound ==
  /\ kind = "rotating"
  /\ \E k \in Live : Use(k)
  /\ used' = {}
  /\ skipped' = skipped \cup Fresh

\* The request ends without a call: selected_key is cleared.
Refuse(r) ==
  /\ pc = "top" /\ Selects
  /\ pc' = "done"
  /\ result' = r
  /\ selected' = NoKey
  /\ trail' = CtxTrail
  /\ UNCHANGED <<setting, budget, keyVars, last, pending, calls, skipped>>

\* Live keys exist, but the filter suppresses every one.
AllFiltered == Live # {} /\ Refuse("noEligibleKeys")

AllDead == Live = {} /\ Refuse("exhausted")

\* A custom keySelector fails; only the rotating keyProvider asks it.
SelectorFails == kind = "rotating" /\ Live # {} /\ Refuse("selector")

(***************************************************************************)
(* The tail of an iteration: what the answer means.                        *)
(***************************************************************************)
Answered(a) == calls' = [calls EXCEPT ![Len(calls)].answer = a]

\* FailReason of the attempt.
Reasoned(a) == IF trail = <<>> THEN trail ELSE [trail EXCEPT ![Len(trail)].reason = a]

\* On an error selected_key is cleared, when there was a key to select.
Stop(a) ==
  /\ pc' = "done"
  /\ result' = a
  /\ selected' = IF a # "ok" /\ kind # "none" THEN NoKey ELSE selected

\* Success, an error of the gateway, a cancellation: the loop breaks at once.
Break ==
  /\ pc = "call"
  /\ \E a \in {"ok", "internal", "cancelled"} : Answered(a) /\ Stop(a)
  /\ UNCHANGED <<setting, budget, keyVars, last, pending, trail, skipped>>

\* Not retryable: an error of the request, or a rejection of encrypted
\* reasoning after the strip or with nothing to strip.
GiveUp ==
  /\ pc = "call"
  /\ \E a \in {"invalid", "rejected"} : Answered(a) /\ Stop(a) /\ trail' = Reasoned(a)
  /\ lastStrip' = FALSE
  /\ UNCHANGED <<setting, budget, keyVars, prev, dead, lastPerKey, lastPermanent, pending, skipped>>

\* Wrong variant: the extra attempt does not count as one.
CandidateInBudget(x) == attempts < MaxRetries

\* Another iteration follows, so the failed attempt may turn out a rotation.
Candidate(x) == attempts < MaxRetries + x

\* The loop's own bookkeeping after a failure a that is retried.
Again(a, x) ==
  /\ lastPerKey' = (a \in PerKey)
  /\ lastPermanent' = (a = "denied" /\ kind # "none")
  /\ lastStrip' = (a = "rejected")
  /\ prev' = key
  /\ extra' = x
  /\ attempts' = attempts + 1
  /\ trail' = Reasoned(a)
  /\ pending' = IF a \in PerKey /\ kind # "none" /\ Candidate(x) THEN Len(trail) ELSE pending
  /\ IF attempts + 1 > MaxRetries + x THEN Stop(a)
     ELSE pc' = "top" /\ UNCHANGED <<result, selected>>
  /\ Answered(a)
  /\ UNCHANGED <<setting, key, skipped>>

\* 401, 402, 403: the key is dead for the rest of the request.
Denied ==
  /\ pc = "call"
  /\ Again("denied", extra)
  /\ dead' = IF kind = "none" THEN dead ELSE dead \cup {key}
  /\ UNCHANGED <<stripped, used>>

\* A rate limit: the key rests, and the failure marker hears of it.
Limited ==
  /\ pc = "call"
  /\ Again("limited", extra)
  /\ used' = IF kind = "none" THEN used ELSE used \cup {key}
  /\ UNCHANGED <<stripped, dead>>

Transient ==
  /\ pc = "call"
  /\ Again("transient", extra)
  /\ UNCHANGED <<stripped, used, dead>>

\* Wrong variant: every rejection is followed by a strip.
MayAlwaysStrip == TRUE

\* The fail-soft fires at most once per request.
MayStrip == ~stripped

\* stripResponsesEncryptedContent found something to strip.
Strip ==
  /\ pc = "call"
  /\ MayStrip
  /\ Again("rejected", extra + 1)
  /\ stripped' = TRUE
  /\ UNCHANGED <<used, dead>>

(***************************************************************************)
(* The specification.                                                      *)
(***************************************************************************)
\* selectKeyFromProviderForModelWithPool: no key is needed, or one is pinned,
\* sticky or the only one, or there are several to rotate over.
Pools(k) ==
  CASE k = "none" -> {{}}
    [] k = "fixed" -> {{x} : x \in Keys}
    [] k = "rotating" -> {P \in SUBSET Keys : \E x, y \in P : x # y}

\* The trail of a context that is new, or was used for a request before; such
\* a context, or that of an earlier link of the chain, also names a selected key.
Leftovers == {<<>>} \cup {<<[key |-> k, rotated |-> FALSE, reason |-> "none"]>> : k \in Keys}

Init ==
  /\ kind \in Kinds /\ pool \in Pools(kind)
  /\ pc = "top" /\ attempts = 0 /\ extra = 0 /\ stripped = FALSE
  /\ key = NoKey /\ prev = NoKey /\ used = {} /\ dead = {}
  /\ lastPerKey = FALSE /\ lastPermanent = FALSE /\ lastStrip = FALSE
  /\ pending = 0 /\ trail \in Leftovers /\ selected \in Keys \cup {NoKey}
  /\ result = "none" /\ calls = <<>> /\ skipped = {}

Step ==
  \/ SameKey \/ PickFixed \/ PickFresh \/ NewRound
  \/ AllFiltered \/ AllDead \/ SelectorFails
  \/ Break \/ GiveUp \/ Denied \/ Limited \/ Transient \/ Strip

Returned == pc = "done" /\ UNCHANGED vars

Next == Step \/ Returned

Spec == Init /\ [][Next]_vars

(***************************************************************************)
(* Properties.                                                             *)
(***************************************************************************)
Calls == [key : Keys \cup {NoKey}, waited : BOOLEAN, answer : Answers \cup {"none"}]
Records == [key : Keys, rotated : BOOLEAN, reason : Answers \cup {"none"}]

\* Every variable has the shape the code gives it; the attempts stay within
\* the budget and the one extra.
TypeOK ==
  /\ kind \in {"none", "fixed", "rotating"} /\ pool \subseteq Keys
  /\ pc \in {"top", "call", "done"}
  /\ attempts \in 0..MaxRetries + 2 /\ extra \in {0, 1} /\ stripped \in BOOLEAN
  /\ key \in Keys \cup {NoKey} /\ prev \in Keys \cup {NoKey}
  /\ used \subseteq Keys /\ dead \subseteq Keys /\ skipped \subseteq Keys
  /\ lastPerKey \in BOOLEAN /\ lastPermanent \in BOOLEAN /\ lastStrip \in BOOLEAN
  /\ pending \in 0..Len(trail) /\ trail \in Seq(Records)
  /\ selected \in Keys \cup {NoKey}
  /\ result \in Answers \cup {"none", "noEligibleKeys", "exhausted", "selector"}
  /\ calls \in Seq(Calls)

\* A key the provider denied is never called with again in this request,
\* however often rounds end and keys are suppressed in between.
DeadKeyNeverCalled ==
  \A i, j \in DOMAIN calls :
    i < j /\ calls[i].answer = "denied" /\ kind # "none" => calls[j].key # calls[i].key

Times(k) == Cardinality({i \in DOMAIN calls : calls[i].key = k /\ calls[i].answer = "limited"})

\* Rate limits rotate fairly: no key runs into its limit twice more often than
\* a key that is alive and was never hidden by the filter.
FairRotation ==
  \A x \in pool, y \in (pool \ dead) \ skipped : Times(x) <= Times(y) + 1

\* The attempt trail tells the truth: one record per call, with its key, and
\* TriggeredRotation exactly where the next call used another key.
TrailTruthful ==
  kind # "none" /\ (pc = "top" => attempts > 0) =>
    /\ Len(trail) = Len(calls)
    /\ \A i \in DOMAIN calls :
         /\ trail[i].key = calls[i].key
         /\ trail[i].rotated <=> i < Len(calls) /\ calls[i + 1].key # calls[i].key

\* A retry goes out without backoff exactly when waiting is pointless: after a
\* denied key was replaced, or after encrypted reasoning was stripped.
BackoffKept ==
  \A i \in DOMAIN calls : i > 1 =>
    (calls[i].waited <=>
       /\ ~(calls[i - 1].answer = "denied" /\ calls[i].key # calls[i - 1].key)
       /\ calls[i - 1].answer # "rejected")

\* The budget is kept, one call more after a strip, and a failure that could be
\* retried is returned only when the budget is used up.
BudgetKept ==
  /\ Len(calls) <= MaxRetries + 1 + extra /\ extra <= 1
  /\ result \in PerKey \cup {"transient"} => Len(calls) = MaxRetries + 1 + extra

\* Calls and attempts go together, and the call in progress is the last one.
CallInv ==
  /\ extra = (IF stripped THEN 1 ELSE 0)
  /\ pc = "top" => Len(calls) = attempts /\ attempts <= MaxRetries + extra /\ result = "none"
  /\ pc = "call" =>
       /\ Len(calls) = attempts + 1 /\ attempts <= MaxRetries + extra /\ result = "none"
       /\ calls[Len(calls)].key = key /\ calls[Len(calls)].answer = "none"

\* Once an attempt was made there is a key; before that no rotation is pending.
KeyInv ==
  /\ kind # "none" /\ (pc = "call" \/ attempts > 0) => key \in Keys
  /\ pc = "top" /\ attempts = 0 => pending = 0
  /\ kind = "none" => pending = 0
  /\ pc = "call" /\ kind # "none" => trail # <<>>

\* deadKeyIDs holds exactly the keys that were denied, and the loop never
\* goes on with one of them: it selects another.
DeadInv ==
  kind # "none" =>
    /\ \A i \in 1..Len(calls) : calls[i].answer = "denied" => calls[i].key \in dead
    /\ \A k \in dead : \E i \in 1..Len(calls) : calls[i].key = k /\ calls[i].answer = "denied"
    /\ pc = "call" => key \notin dead
    /\ pc = "top" /\ key \in dead => lastPerKey

\* The 502 upstream_credentials_exhausted is returned only when every key of
\* the pool was denied, the 429 no_eligible_keys only when some was not.
VerdictTruthful ==
  LET denied == {k \in pool : \E i \in DOMAIN calls : calls[i].key = k /\ calls[i].answer = "denied"}
  IN  /\ result = "exhausted" => denied = pool
      /\ result = "noEligibleKeys" => denied # pool

\* "selected_key_id / selected_key_name are populated only on a successful
\* response", and then name the key that served it: whatever the context held
\* before, unless the request needs no key, which leaves the value as it was.
SelectedServed ==
  pc = "done" /\ kind # "none" =>
    selected = IF result = "ok" THEN calls[Len(calls)].key ELSE NoKey
====
