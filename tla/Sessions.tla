-------------------------------- MODULE Sessions --------------------------------
(***************************************************************************)
(* Session stickiness: the part of selectKeyFromProviderForModel           *)
(* (core/bifrost.go) that keeps a session on one provider key, over the    *)
(* in-memory store of framework/kvstore/kvstore.go.                        *)
(*                                                                         *)
(* One session of one provider and model, so one key of the store.  Every  *)
(* operation of the store takes the time first and the lock later; between *)
(* two operations of a request anything may happen.                        *)
(***************************************************************************)
EXTENDS Naturals, FiniteSets

CONSTANTS
  Requests,     \* requests that carry the session's id
  KeyIds,       \* provider keys
  Pools,        \* the sets of supported keys a configuration may leave
  TTL,          \* the session's time to live
  Nil,          \* no entry, no key
  MaxNow,       \* bound: the clock
  MaxMoves      \* bound: changes of the configuration

\* An entry of the store: the id of a key and the time it expires.
Entry == [id : KeyIds, exp : Nat]

ASSUME SessionsAssumption ==
  /\ Pools \subseteq SUBSET KeyIds /\ {} \notin Pools
  /\ TTL \in Nat \ {0} /\ MaxNow \in Nat /\ MaxMoves \in Nat
  /\ Nil \notin KeyIds /\ Nil \notin Entry

VARIABLES
  data,       \* the entry under the session's key: [id, exp] or Nil
  closed,     \* Store.closed
  now,        \* the clock
  config,     \* the keys that support the model at present
  pc,         \* a request: where it is
  pool,       \* its supportedKeys
  t,          \* the time its operation has read
  id,         \* the key it has read or selected, in the end the one it is served with
  era,        \* history: how often the session lost the key it was on
  from, upto, \* history: the era in which a request came and was served
  moves

vars == <<data, closed, now, config, pc, pool, t, id, era, from, upto, moves>>
req == <<pool, from>>
world == <<now, config, moves>>

Labels == {"idle", "get", "drop", "refresh", "delete", "select", "setnx", "reget", "redrop",
           "redelete", "served", "alone", "failed"}
InStore == {"get", "drop", "refresh", "delete", "select", "setnx", "reget", "redrop", "redelete"}

isExpired(e, n) == n >= e.exp
Taken(n) == data # Nil /\ ~isExpired(data, n)
Live == Taken(now)

TypeOK ==
  /\ data \in Entry \cup {Nil} /\ closed \in BOOLEAN /\ now \in Nat /\ config \in Pools
  /\ pc \in [Requests -> Labels] /\ pool \in [Requests -> Pools]
  /\ t \in [Requests -> Nat] /\ id \in [Requests -> KeyIds \cup {Nil}]
  /\ era \in Nat /\ from \in [Requests -> Nat] /\ upto \in [Requests -> Nat]
  /\ moves \in Nat

Init ==
  /\ data = Nil /\ closed = FALSE /\ now = 0 /\ config \in Pools
  /\ pc = [q \in Requests |-> "idle"] /\ pool = [q \in Requests |-> config]
  /\ t = [q \in Requests |-> 0] /\ id = [q \in Requests |-> Nil]
  /\ era = 0 /\ from = [q \in Requests |-> 0] /\ upto = [q \in Requests |-> 0]
  /\ moves = MaxMoves

Goto(q, l) == pc' = [pc EXCEPT ![q] = l]

\* The next operation begins: time.Now() is its first call.
Then(q, l) == Goto(q, l) /\ t' = [t EXCEPT ![q] = now] /\ UNCHANGED upto

\* selectKeyFromProviderForModel returns k.
Serve(q, l, k) ==
  /\ Goto(q, l) /\ id' = [id EXCEPT ![q] = k] /\ upto' = [upto EXCEPT ![q] = era'] /\ UNCHANGED t

\* The entry becomes e, or is removed.  The session has lost its key when a live
\* entry is gone or names another key, or when the new one is born expired.
Put(e) ==
  /\ data' = e
  /\ era' = IF \/ Live /\ (e = Nil \/ e.id # data.id)
               \/ e # Nil /\ isExpired(e, now)
            THEN era + 1 ELSE era
Keep == UNCHANGED <<data, era>>

(***************************************************************************)
(* A request arrives with the keys that support its model.  A single one   *)
(* needs no store.                                                         *)
(***************************************************************************)
Arrive(q) ==
  /\ pc[q] = "idle"
  /\ pool' = [pool EXCEPT ![q] = config] /\ from' = [from EXCEPT ![q] = era]
  /\ Keep /\ UNCHANGED <<world, closed>>
  /\ IF Cardinality(config) = 1
     THEN \E k \in config : Serve(q, "alone", k)
     ELSE Then(q, "get") /\ UNCHANGED id

\* Get found id, found an id that is not supported, or found nothing.
Found(q, k) ==
  \/ pc[q] = "get" /\ Then(q, "refresh") /\ id' = [id EXCEPT ![q] = k]
  \/ pc[q] = "reget" /\ Serve(q, "served", k)
Stale(q) ==
  /\ \/ pc[q] = "get" /\ Then(q, "delete")
     \/ pc[q] = "reget" /\ Then(q, "redelete")
  /\ UNCHANGED id
Missed(q) ==
  \/ pc[q] \in {"get", "drop"} /\ Then(q, "select") /\ UNCHANGED id
  \/ pc[q] \in {"reget", "redrop"} /\ Serve(q, "served", id[q])

Get(q) ==
  /\ pc[q] \in {"get", "reget"} /\ Keep /\ UNCHANGED <<req, world, closed>>
  /\ \/ (closed \/ data = Nil) /\ Missed(q)
     \/ /\ ~closed /\ data # Nil /\ isExpired(data, t[q])
        /\ Goto(q, IF pc[q] = "get" THEN "drop" ELSE "redrop") /\ UNCHANGED <<t, id, upto>>
     \/ ~closed /\ Taken(t[q]) /\ data.id \in pool[q] /\ Found(q, data.id)
     \/ ~closed /\ Taken(t[q]) /\ data.id \notin pool[q] /\ Stale(q)

\* Wrong variant: what was expired a moment ago is removed, whatever is there now.
DropBlindly(q) ==
  /\ pc[q] \in {"drop", "redrop"} /\ Put(Nil) /\ Missed(q)
  /\ UNCHANGED <<req, world, closed>>

\* The second half of Get: the expired entry is removed if it is still expired.
Drop(q) ==
  /\ pc[q] \in {"drop", "redrop"}
  /\ IF data # Nil /\ isExpired(data, now) THEN Put(Nil) ELSE Keep
  /\ Missed(q)
  /\ UNCHANGED <<req, world, closed>>

\* SetWithTTL of the id just read: the entry is written whatever it is by now.
Refresh(q) ==
  /\ pc[q] = "refresh"
  /\ IF closed THEN Keep ELSE Put([id |-> id[q], exp |-> t[q] + TTL])
  /\ Serve(q, "served", id[q])
  /\ UNCHANGED <<req, world, closed>>

\* Delete of a stale entry: whatever is there by now goes.
Delete(q) ==
  /\ pc[q] \in {"delete", "redelete"}
  /\ IF closed \/ data = Nil THEN Keep ELSE Put(Nil)
  /\ IF pc[q] = "delete" THEN Then(q, "select") /\ UNCHANGED id ELSE Serve(q, "served", id[q])
  /\ UNCHANGED <<req, world, closed>>

\* The key selector picks one of the supported keys, or fails.
Select(q) ==
  /\ pc[q] = "select"
  /\ \/ \E k \in pool[q] : Then(q, "setnx") /\ id' = [id EXCEPT ![q] = k]
     \/ Goto(q, "failed") /\ UNCHANGED <<t, id, upto>>
  /\ Keep /\ UNCHANGED <<req, world, closed>>

\* Wrong variant: the loser of the race keeps the key it selected.
SetNXKeepsOwn(q) ==
  /\ pc[q] = "setnx"
  /\ IF closed \/ Taken(t[q]) THEN Keep
     ELSE Put([id |-> id[q], exp |-> t[q] + TTL])
  /\ Serve(q, IF closed THEN "alone" ELSE "served", id[q])
  /\ UNCHANGED <<req, world, closed>>

SetNX(q) ==
  /\ pc[q] = "setnx"
  /\ \/ closed /\ Keep /\ Serve(q, "alone", id[q])
     \/ ~closed /\ Taken(t[q]) /\ Keep /\ Then(q, "reget") /\ UNCHANGED id
     \/ /\ ~closed /\ ~Taken(t[q])
        /\ Put([id |-> id[q], exp |-> t[q] + TTL]) /\ Serve(q, "served", id[q])
  /\ UNCHANGED <<req, world, closed>>

(***************************************************************************)
(* The store's own goroutine, its end, the clock and the configuration.    *)
(***************************************************************************)
cleanupExpired ==
  /\ ~closed /\ data # Nil /\ isExpired(data, now) /\ Put(Nil)
  /\ UNCHANGED <<closed, world, pc, t, id, upto, req>>

Close ==
  /\ ~closed /\ closed' = TRUE /\ era' = era + 1
  /\ UNCHANGED <<data, world, pc, t, id, upto, req>>

Tick ==
  /\ now < MaxNow /\ now' = now + 1
  /\ era' = IF Live /\ isExpired(data, now + 1) THEN era + 1 ELSE era
  /\ UNCHANGED <<data, closed, config, moves, pc, t, id, upto, req>>

\* A key is added, removed, disabled, or no longer serves the model.
Reconfigure ==
  /\ moves > 0 /\ moves' = moves - 1 /\ \E P \in Pools \ {config} : config' = P
  /\ Keep /\ UNCHANGED <<closed, now, pc, t, id, upto, req>>

Step(q) == Arrive(q) \/ Get(q) \/ Drop(q) \/ Refresh(q) \/ Delete(q) \/ Select(q) \/ SetNX(q)

Next == (\E q \in Requests : Step(q)) \/ cleanupExpired \/ Close \/ Tick \/ Reconfigure

Spec == Init /\ [][Next]_vars

(***************************************************************************)
(* Properties.                                                             *)
(***************************************************************************)
Whole(q, e) == pc[q] = "served" /\ from[q] = e /\ upto[q] = e

\* Two requests of a session are served with different keys only if the session
\* lost its key on the way: an entry expired, was deleted as stale, or was
\* replaced.  No interleaving of the first requests of a session splits it.
SplitNeedsLoss ==
  \A p, q \in Requests : Whole(p, from[p]) /\ Whole(q, from[p]) => id[p] = id[q]

\* A request is served with a key that supports its model, however the key got
\* into the store.
ServedSupported == \A q \in Requests : pc[q] \in {"served", "alone"} => id[q] \in pool[q]

\* A live entry is removed only by a request that found it stale: neither the
\* clean-up nor the lazy deletion of Get takes an entry that was just renewed.
LiveEntryKept ==
  [][Live /\ data' = Nil => \E q \in Requests : pc[q] \in {"delete", "redelete"} /\ pc'[q] # pc[q]]_vars

====
