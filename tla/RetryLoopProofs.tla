--------------------------- MODULE RetryLoopProofs ---------------------------
(***************************************************************************)
(* What the retry loop guarantees for every pool of keys and every budget. *)
(* The invariant ties the loop's variables to the history of its calls:    *)
(* attempts to their number (CallInv), deadKeyIDs to the keys that were    *)
(* denied (DeadInv).                                                       *)
(***************************************************************************)
EXTENDS RetryLoop, TLAPS, FiniteSetTheorems

\* The inductive invariant.
RetryInv == TypeOK /\ CallInv /\ KeyInv /\ DeadInv

\* A step either starts a call, ends without one, ends a call or is idle.
Starts == SameKey \/ PickFixed \/ PickFresh \/ NewRound
Refuses == AllFiltered \/ AllDead \/ SelectorFails
Ends == Break \/ GiveUp \/ Denied \/ Limited \/ Transient \/ Strip

\* The next-state relation by these groups.
LEMMA StepGroups == [Next]_vars <=> Starts \/ Refuses \/ Ends \/ UNCHANGED vars
  BY Zenon DEF Next, Step, Returned, Starts, Refuses, Ends

\* What a step that starts a call does: the key is live unless it is kept.
LEMMA StartFacts ==
  ASSUME Starts
  PROVE  /\ \E t : Call(key', t) /\ (t = trail \/ t = Resolved(key')) /\ (~Selects => t = trail)
         /\ Selects => key' \in pool \ dead /\ selected' = key' /\ pending' = 0
         /\ ~Selects => key' = key /\ selected' = selected /\ pending' = pending
         /\ used' \in {used, {}}
         /\ skipped' \in {skipped, skipped \cup Fresh}
  <1>1. CASE SameKey
    BY <1>1 DEF SameKey, Call, keyVars
  <1>2. CASE PickFixed
    BY <1>2 DEF PickFixed, Use, Live
  <1>3. CASE PickFresh
    BY <1>3 DEF PickFresh, Use, Fresh
  <1>4. CASE NewRound
    BY <1>4 DEF NewRound, Use, Live
  <1> QED BY <1>1, <1>2, <1>3, <1>4 DEF Starts

\* What a step that refuses does.
LEMMA RefuseFacts ==
  ASSUME Refuses
  PROVE  \E r \in {"noEligibleKeys", "exhausted", "selector"} :
           /\ Refuse(r)
           /\ r = "exhausted" <=> Live = {}
  BY DEF Refuses, AllFiltered, AllDead, SelectorFails

\* What a step that ends a call with answer a does.
EndWith(a) ==
  /\ pc = "call" /\ pc' \in {"top", "done"}
  /\ Answered(a)
  /\ trail' \in {trail, Reasoned(a)}
  /\ result' = IF pc' = "done" THEN a ELSE result
  /\ selected' \in {selected, NoKey}
  /\ dead' = IF a = "denied" /\ kind # "none" THEN dead \cup {key} ELSE dead
  /\ used' \in {used, IF kind = "none" THEN used ELSE used \cup {key}}
  /\ pc' = "top" => attempts' = attempts + 1 /\ attempts + 1 <= MaxRetries + extra'
  /\ attempts' \in {attempts, attempts + 1}
  /\ pc' = "done" /\ a \in PerKey \cup {"transient"} => attempts + 1 > MaxRetries + extra'
  /\ \/ extra' = extra /\ stripped' = stripped
     \/ ~stripped /\ stripped' = TRUE /\ extra' = extra + 1
  /\ pending' \in {pending, IF kind = "none" THEN pending ELSE Len(trail)}
  /\ key' = key /\ kind' = kind /\ pool' = pool /\ skipped' = skipped
  /\ prev' \in {prev, key}
  /\ lastPerKey' \in BOOLEAN /\ lastPermanent' \in BOOLEAN /\ lastStrip' \in BOOLEAN
  /\ pc' = "top" /\ a = "denied" => lastPerKey'

LEMMA EndFacts ==
  ASSUME TypeOK, Ends
  PROVE  \E a \in Answers : EndWith(a)
  <1> USE DEF TypeOK, EndWith, Stop, Again, Answers, PerKey
  <1>1. CASE Break
    BY <1>1 DEF Break, setting, budget, keyVars, last
  <1>2. CASE GiveUp
    BY <1>2 DEF GiveUp, setting, budget, keyVars
  <1>3. ASSUME NEW a \in {"denied", "limited", "transient", "rejected"}, NEW x \in {extra, extra + 1},
               Again(a, x)
        PROVE  /\ lastPerKey' \in BOOLEAN /\ lastPermanent' \in BOOLEAN /\ lastStrip' \in BOOLEAN
               /\ pc' \in {"top", "done"}
               /\ pc' = "top" => attempts + 1 <= MaxRetries + x
               /\ pc' = "done" => attempts + 1 > MaxRetries + x
    BY <1>3, RetryAssumption
  <1>4. CASE Denied
    BY <1>3, <1>4 DEF Denied, setting
  <1>5. CASE Limited
    BY <1>3, <1>5 DEF Limited, setting
  <1>6. CASE Transient
    BY <1>3, <1>6 DEF Transient, setting
  <1>7. CASE Strip
    BY <1>3, <1>7 DEF Strip, MayStrip, setting
  <1> QED BY <1>1, <1>2, <1>4, <1>5, <1>6, <1>7 DEF Ends

\* Answering the last call changes nothing else of the history.
LEMMA AnsweredCalls ==
  ASSUME TypeOK, NEW a \in Answers, Answered(a), calls # <<>>
  PROVE  /\ calls' \in Seq(Calls) /\ Len(calls') = Len(calls)
         /\ \A i \in 1..Len(calls) :
              /\ calls'[i].key = calls[i].key /\ calls'[i].waited = calls[i].waited
              /\ calls'[i].answer = IF i = Len(calls) THEN a ELSE calls[i].answer
  <1>1. calls \in Seq(Calls) /\ Len(calls) \in 1..Len(calls)
    BY DEF TypeOK
  <1>2. calls[Len(calls)] \in Calls
    BY <1>1
  <1>3. [calls[Len(calls)] EXCEPT !.answer = a] \in Calls
    BY <1>2 DEF Calls
  <1>4. calls' = [calls EXCEPT ![Len(calls)] = [calls[Len(calls)] EXCEPT !.answer = a]]
    BY DEF Answered
  <1>5. calls' \in Seq(Calls) /\ Len(calls') = Len(calls)
    BY <1>1, <1>3, <1>4
  <1>6. ASSUME NEW i \in 1..Len(calls)
        PROVE  /\ calls'[i].key = calls[i].key /\ calls'[i].waited = calls[i].waited
               /\ calls'[i].answer = IF i = Len(calls) THEN a ELSE calls[i].answer
    <2>1. calls[i] \in Calls
      BY <1>1
    <2>2. CASE i = Len(calls)
      BY <1>1, <1>2, <1>4, <2>2 DEF Calls
    <2>3. CASE i # Len(calls)
      BY <1>1, <1>4, <2>3
    <2> QED BY <2>2, <2>3
  <1> QED BY <1>5, <1>6

\* A new call is appended to the history.
LEMMA AppendedCalls ==
  ASSUME TypeOK, NEW k \in Keys \cup {NoKey}, NEW t, Call(k, t)
  PROVE  /\ calls' \in Seq(Calls) /\ Len(calls') = Len(calls) + 1
         /\ \A i \in 1..Len(calls) : calls'[i] = calls[i]
         /\ calls'[Len(calls) + 1].key = k /\ calls'[Len(calls) + 1].answer = "none"
         /\ calls'[Len(calls) + 1].waited = Waits(k)
  <1>1. calls \in Seq(Calls)
    BY DEF TypeOK
  <1>2. Waits(k) \in BOOLEAN
    BY DEF Waits
  <1>3. [key |-> k, waited |-> Waits(k), answer |-> "none"] \in Calls
    BY <1>2 DEF Calls
  <1>4. calls' = Append(calls, [key |-> k, waited |-> Waits(k), answer |-> "none"])
    BY DEF Call
  <1> QED BY <1>1, <1>3, <1>4

\* The attempt trail keeps its type and never shrinks within the loop.
LEMMA TrailType ==
  ASSUME TypeOK, KeyInv
  PROVE  /\ CtxTrail \in Seq(Records)
         /\ \A a \in Answers : Reasoned(a) \in Seq(Records) /\ Len(Reasoned(a)) = Len(trail)
         /\ pc = "top" => \A k : Resolved(k) \in Seq(Records) /\ Len(Resolved(k)) = Len(CtxTrail)
  <1>1. trail \in Seq(Records) /\ pending \in 0..Len(trail)
    BY DEF TypeOK
  <1>2. CtxTrail \in Seq(Records) /\ (pc = "top" => pending \in 0..Len(CtxTrail))
    BY <1>1 DEF CtxTrail, KeyInv
  <1>3. ASSUME NEW a \in Answers
        PROVE  Reasoned(a) \in Seq(Records) /\ Len(Reasoned(a)) = Len(trail)
    <2>1. CASE trail = <<>>
      BY <1>1, <2>1 DEF Reasoned
    <2>2. CASE trail # <<>>
      <3>1. Len(trail) \in 1..Len(trail) /\ trail[Len(trail)] \in Records
        BY <1>1, <2>2
      <3>2. [trail[Len(trail)] EXCEPT !.reason = a] \in Records
        BY <3>1 DEF Records
      <3> QED BY <1>1, <2>2, <3>1, <3>2 DEF Reasoned
    <2> QED BY <2>1, <2>2
  <1>4. ASSUME NEW k, pc = "top"
        PROVE  Resolved(k) \in Seq(Records) /\ Len(Resolved(k)) = Len(CtxTrail)
    <2>1. CASE pending = 0
      BY <1>2, <2>1 DEF Resolved
    <2>2. CASE pending # 0
      <3>1. pending \in 1..Len(CtxTrail) /\ CtxTrail[pending] \in Records
        BY <1>1, <1>2, <1>4, <2>2
      <3>2. [CtxTrail[pending] EXCEPT !.rotated = TRUE] \in Records
        BY <3>1 DEF Records
      <3> QED BY <1>2, <3>1, <3>2 DEF Resolved
    <2> QED BY <2>1, <2>2
  <1> QED BY <1>2, <1>3, <1>4

\* The invariant holds initially.
LEMMA InitRetry == Init => RetryInv
  <1> SUFFICES ASSUME Init PROVE RetryInv
    OBVIOUS
  <1>1. pool \subseteq Keys
    BY RetryAssumption DEF Init, Pools
  <1>2. trail \in Seq(Records) /\ Len(trail) \in Nat
    <2>1. CASE trail = <<>>
      BY <2>1
    <2>2. ASSUME NEW k \in Keys, trail = <<[key |-> k, rotated |-> FALSE, reason |-> "none"]>>
          PROVE  trail \in Seq(Records) /\ Len(trail) \in Nat
      <3>1. [key |-> k, rotated |-> FALSE, reason |-> "none"] \in Records
        BY DEF Records
      <3> QED BY <2>2, <3>1
    <2> QED BY <2>1, <2>2 DEF Init, Leftovers
  <1>3. TypeOK
    <2>1. calls \in Seq(Calls)
      BY DEF Init
    <2>2. kind \in {"none", "fixed", "rotating"}
      BY RetryAssumption DEF Init
    <2>3. attempts \in 0..MaxRetries + 2 /\ extra \in {0, 1} /\ pending \in 0..Len(trail)
      BY <1>2, RetryAssumption DEF Init
    <2> QED BY <1>1, <1>2, <2>1, <2>2, <2>3 DEF Init, TypeOK
  <1> QED BY <1>3, RetryAssumption DEF Init, RetryInv, CallInv, KeyInv, DeadInv

\* A step that starts a call keeps the invariant.
LEMMA StartRetry ==
  ASSUME RetryInv, Starts
  PROVE  RetryInv'
  <1> USE DEF RetryInv
  <1>1. PICK t : /\ Call(key', t) /\ (t = trail \/ t = Resolved(key')) /\ (~Selects => t = trail)
                 /\ Selects => key' \in pool \ dead /\ selected' = key' /\ pending' = 0
                 /\ ~Selects => key' = key /\ selected' = selected /\ pending' = pending
                 /\ used' \in {used, {}}
                 /\ skipped' \in {skipped, skipped \cup Fresh}
    BY StartFacts
  <1>2. /\ pc = "top" /\ pc' = "call"
        /\ kind' = kind /\ pool' = pool /\ attempts' = attempts /\ extra' = extra
        /\ stripped' = stripped /\ prev' = prev /\ dead' = dead /\ result' = result
        /\ lastPerKey' = lastPerKey /\ lastPermanent' = lastPermanent /\ lastStrip' = lastStrip
    BY <1>1 DEF Call, setting, budget, last
  <1>3. key' \in Keys \cup {NoKey} /\ (kind # "none" => key' \in Keys \ dead)
    BY <1>1, <1>2 DEF TypeOK, Selects, KeyInv, DeadInv
  <1>4. t \in Seq(Records) /\ (pending' \in 0..Len(t))
    <2>1. CASE Selects
      BY <1>1, <1>2, <2>1, TrailType DEF TypeOK
    <2>2. CASE ~Selects
      BY <1>1, <2>2 DEF TypeOK
    <2> QED BY <2>1, <2>2
  <1>5. /\ trail' \in Seq(Records) /\ pending' \in 0..Len(trail')
        /\ kind # "none" => trail' # <<>>
    <2>1. CASE kind = "none"
      BY <1>1, <1>4, <2>1 DEF Call
    <2>2. CASE kind # "none"
      <3>1. [key |-> key', rotated |-> FALSE, reason |-> "none"] \in Records
        BY <1>3, <2>2 DEF Records
      <3>2. trail' = Append(t, [key |-> key', rotated |-> FALSE, reason |-> "none"])
        BY <1>1, <2>2 DEF Call
      <3>3. trail' \in Seq(Records) /\ Len(trail') = Len(t) + 1
        BY <1>4, <3>1, <3>2
      <3> QED BY <1>4, <3>3
    <2> QED BY <2>1, <2>2
  <1>6. /\ calls' \in Seq(Calls) /\ Len(calls') = Len(calls) + 1
        /\ \A i \in 1..Len(calls) : calls'[i] = calls[i]
        /\ calls'[Len(calls) + 1].key = key' /\ calls'[Len(calls) + 1].answer = "none"
    BY <1>1, <1>3, AppendedCalls
  <1>7. selected' \in Keys \cup {NoKey} /\ used' \subseteq Keys /\ skipped' \subseteq Keys
    BY <1>1, <1>3 DEF TypeOK, Fresh
  <1>8. TypeOK'
    BY <1>2, <1>3, <1>5, <1>6, <1>7 DEF TypeOK
  <1>9. CallInv'
    BY <1>2, <1>6 DEF CallInv, TypeOK
  <1>10. KeyInv'
    BY <1>1, <1>2, <1>3, <1>5 DEF KeyInv, Selects
  <1>11. DeadInv'
    <2> SUFFICES ASSUME kind # "none" PROVE DeadInv'
      BY <1>2 DEF DeadInv
    <2>1. Len(calls) \in Nat
      BY DEF TypeOK
    <2>2. \A i \in 1..Len(calls') : i \in 1..Len(calls) \/ calls'[i].answer = "none"
      BY <1>6, <2>1
    <2>3. \A i \in 1..Len(calls') : calls'[i].answer = "denied" => calls'[i].key \in dead
      BY <1>6, <2>2 DEF DeadInv
    <2>4. \A i \in 1..Len(calls) : i \in 1..Len(calls')
      BY <1>6, <2>1
    <2>5. \A k \in dead : \E i \in 1..Len(calls') : calls'[i].key = k /\ calls'[i].answer = "denied"
      BY <1>6, <2>4 DEF DeadInv
    <2> QED BY <1>2, <1>3, <2>3, <2>5 DEF DeadInv
  <1> QED BY <1>8, <1>9, <1>10, <1>11

\* A step that refuses keeps the invariant.
LEMMA RefuseRetry ==
  ASSUME RetryInv, Refuses
  PROVE  RetryInv'
  <1>1. PICK r \in {"noEligibleKeys", "exhausted", "selector"} : Refuse(r)
    BY RefuseFacts
  <1>2. CtxTrail \in Seq(Records) /\ (pc = "top" => pending \in 0..Len(CtxTrail))
    BY DEF RetryInv, TypeOK, CtxTrail, KeyInv
  <1> QED BY <1>1, <1>2 DEF RetryInv, TypeOK, CallInv, KeyInv, DeadInv, Refuse,
                           setting, budget, keyVars, last

\* A step that ends a call keeps the invariant.
LEMMA EndRetry ==
  ASSUME RetryInv, Ends
  PROVE  RetryInv'
  <1> USE DEF RetryInv
  <1>1. PICK a \in Answers : EndWith(a)
    BY EndFacts
  <1>2. /\ Len(calls) = attempts + 1 /\ Len(calls) \in Nat /\ attempts \in Nat
        /\ attempts <= MaxRetries + extra /\ calls # <<>>
        /\ calls[Len(calls)].key = key /\ calls[Len(calls)].answer = "none"
    BY <1>1 DEF EndWith, CallInv, TypeOK
  <1>3. /\ calls' \in Seq(Calls) /\ Len(calls') = Len(calls)
        /\ \A i \in 1..Len(calls) :
             /\ calls'[i].key = calls[i].key
             /\ calls'[i].answer = IF i = Len(calls) THEN a ELSE calls[i].answer
    BY <1>1, <1>2, AnsweredCalls DEF EndWith
  <1>4. extra' = (IF stripped' THEN 1 ELSE 0) /\ stripped' \in BOOLEAN /\ extra' \in {0, 1}
    <2>1. extra = (IF stripped THEN 1 ELSE 0) /\ stripped \in BOOLEAN /\ extra \in {0, 1}
      BY DEF CallInv, TypeOK
    <2>2. CASE extra' = extra /\ stripped' = stripped
      BY <2>1, <2>2
    <2>3. CASE ~stripped /\ stripped' = TRUE /\ extra' = extra + 1
      <3>1. extra = 0
        BY <2>1, <2>3
      <3>2. extra' = 1 /\ stripped'
        BY <2>3, <3>1
      <3> QED BY <2>3, <3>2
    <2> QED BY <1>1, <2>2, <2>3 DEF EndWith
  <1>5. attempts' \in 0..MaxRetries + 2
    BY <1>1, <1>2, RetryAssumption DEF EndWith, TypeOK
  <1>6. /\ trail' \in Seq(Records) /\ Len(trail') = Len(trail)
        /\ pending' \in 0..Len(trail')
    <2>1. trail' \in Seq(Records) /\ Len(trail') = Len(trail)
      BY <1>1, TrailType DEF EndWith, TypeOK
    <2> QED BY <1>1, <2>1 DEF EndWith, TypeOK
  <1>7. kind # "none" => key \in Keys
    BY <1>1 DEF EndWith, KeyInv
  <1>8. dead' \subseteq Keys /\ used' \subseteq Keys
    BY <1>1, <1>7 DEF EndWith, TypeOK
  <1>9. TypeOK'
    BY <1>1, <1>3, <1>4, <1>5, <1>6, <1>8 DEF EndWith, TypeOK
  <1>10. CallInv'
    BY <1>1, <1>2, <1>3, <1>4 DEF EndWith, CallInv
  <1>11. KeyInv'
    BY <1>1, <1>2, <1>7 DEF EndWith, KeyInv
  <1>12. DeadInv'
    <2> SUFFICES ASSUME kind # "none" PROVE DeadInv'
      BY <1>1 DEF EndWith, DeadInv
    <2>1. Len(calls) \in 1..Len(calls)
      BY <1>2
    <2>2. \A i \in 1..Len(calls') : calls'[i].answer = "denied" => calls'[i].key \in dead'
      BY <1>1, <1>2, <1>3 DEF EndWith, DeadInv
    <2>3. \A k \in dead : \E i \in 1..Len(calls) :
            i # Len(calls) /\ calls[i].key = k /\ calls[i].answer = "denied"
      BY <1>2 DEF DeadInv
    <2>4. \A k \in dead' : \E i \in 1..Len(calls') : calls'[i].key = k /\ calls'[i].answer = "denied"
      BY <1>1, <1>2, <1>3, <2>1, <2>3 DEF EndWith
    <2>5. pc' = "top" /\ key' \in dead' => lastPerKey'
      BY <1>1 DEF EndWith, DeadInv
    <2> QED BY <1>1, <2>2, <2>4, <2>5 DEF EndWith, DeadInv
  <1> QED BY <1>9, <1>10, <1>11, <1>12

\* Every step keeps the invariant.
LEMMA NextRetry ==
  ASSUME RetryInv, [Next]_vars
  PROVE  RetryInv'
  <1>1. CASE UNCHANGED vars
    BY <1>1 DEF RetryInv, TypeOK, CallInv, KeyInv, DeadInv, vars, setting, budget, keyVars, last
  <1> QED BY <1>1, StepGroups, StartRetry, RefuseRetry, EndRetry

\* The loop's variables agree with its history at every step.
THEOREM RetryInvariant == Spec => []RetryInv
  <1> QED BY InitRetry, NextRetry, PTL DEF Spec

\* Every variable keeps its type, and the attempts their bound.
THEOREM RetryTypes == Spec => []TypeOK
  <1>1. RetryInv => TypeOK
    BY DEF RetryInv
  <1> QED BY <1>1, RetryInvariant, PTL

(***************************************************************************)
(* A denied key is never called with again.                                *)
(***************************************************************************)
LEMMA NextDead ==
  ASSUME RetryInv, DeadKeyNeverCalled, [Next]_vars
  PROVE  DeadKeyNeverCalled'
  <1>1. calls \in Seq(Calls) /\ Len(calls) \in Nat /\ DOMAIN calls = 1..Len(calls)
    BY DEF RetryInv, TypeOK
  <1>2. CASE Starts
    <2>1. PICK t : Call(key', t) /\ (Selects => key' \in pool \ dead) /\ (~Selects => key' = key)
      BY <1>2, StartFacts
    <2>2. key' \in Keys \cup {NoKey} /\ (kind # "none" => key' \notin dead)
      BY <2>1 DEF Call, Selects, RetryInv, TypeOK, KeyInv, DeadInv
    <2>3. /\ calls' \in Seq(Calls) /\ Len(calls') = Len(calls) + 1
          /\ \A i \in 1..Len(calls) : calls'[i] = calls[i]
          /\ calls'[Len(calls) + 1].key = key'
      BY <2>1, <2>2, AppendedCalls DEF RetryInv
    <2>4. kind' = kind
      BY <2>1 DEF Call, setting
    <2> SUFFICES ASSUME NEW i \in DOMAIN calls', NEW j \in DOMAIN calls',
                        i < j, calls'[i].answer = "denied", kind # "none"
                 PROVE  calls'[j].key # calls'[i].key
      BY <2>4 DEF DeadKeyNeverCalled
    <2>5. i \in 1..Len(calls) /\ (j \in 1..Len(calls) \/ j = Len(calls) + 1)
      BY <1>1, <2>3
    <2>6. CASE j \in 1..Len(calls)
      BY <1>1, <2>3, <2>5, <2>6 DEF DeadKeyNeverCalled
    <2>7. CASE j = Len(calls) + 1
      <3>1. calls[i].key \in dead
        BY <2>3, <2>5 DEF RetryInv, DeadInv
      <3> QED BY <2>2, <2>3, <2>5, <2>7, <3>1
    <2> QED BY <2>5, <2>6, <2>7
  <1>3. CASE Ends
    <2>1. PICK a \in Answers : EndWith(a)
      BY <1>3, EndFacts DEF RetryInv
    <2>2. calls # <<>>
      BY <1>1, <2>1 DEF EndWith, RetryInv, CallInv, TypeOK
    <2>3. /\ calls' \in Seq(Calls) /\ Len(calls') = Len(calls)
          /\ \A i \in 1..Len(calls) :
               /\ calls'[i].key = calls[i].key
               /\ i # Len(calls) => calls'[i].answer = calls[i].answer
      BY <2>1, <2>2, AnsweredCalls DEF EndWith, RetryInv
    <2>4. kind' = kind
      BY <2>1 DEF EndWith
    <2> SUFFICES ASSUME NEW i \in DOMAIN calls', NEW j \in DOMAIN calls',
                        i < j, calls'[i].answer = "denied", kind # "none"
                 PROVE  calls'[j].key # calls'[i].key
      BY <2>4 DEF DeadKeyNeverCalled
    <2>5. i \in 1..Len(calls) /\ j \in 1..Len(calls) /\ i # Len(calls)
      <3>1. DOMAIN calls' = 1..Len(calls)
        BY <2>3
      <3>2. i \in 1..Len(calls) /\ j \in 1..Len(calls)
        BY <3>1
      <3> QED BY <1>1, <3>2
    <2> QED BY <1>1, <2>3, <2>5 DEF DeadKeyNeverCalled
  <1>4. CASE Refuses
    BY <1>4, RefuseFacts DEF Refuse, setting, DeadKeyNeverCalled
  <1>5. CASE UNCHANGED vars
    BY <1>5 DEF vars, setting, DeadKeyNeverCalled
  <1> QED BY <1>2, <1>3, <1>4, <1>5, StepGroups

\* A key that was answered 401, 402 or 403 is not called with again in the
\* request, for every pool, budget, filter and order of answers.
THEOREM DeadKeysStayDead == Spec => []DeadKeyNeverCalled
  <1>1. Init => DeadKeyNeverCalled
    BY DEF Init, DeadKeyNeverCalled
  <1> QED BY <1>1, NextDead, RetryInvariant, PTL DEF Spec

(***************************************************************************)
(* The budget.                                                             *)
(***************************************************************************)
LEMMA BudgetArithmetic ==
  ASSUME NEW m \in Nat, NEW n \in Nat, NEW e \in Nat, NEW f \in Nat, n <= m + e, e <= f
  PROVE  n + 1 <= m + 1 + f /\ (n + 1 > m + f => n + 1 = m + 1 + f)
  OBVIOUS

LEMMA NextBudget ==
  ASSUME RetryInv, BudgetKept, [Next]_vars
  PROVE  BudgetKept'
  <1>1. calls \in Seq(Calls) /\ Len(calls) \in Nat /\ extra \in {0, 1} /\ attempts \in Nat
    BY RetryAssumption DEF RetryInv, TypeOK
  <1>2. CASE Starts
    <2>1. PICK t : Call(key', t) /\ (Selects => key' \in pool \ dead) /\ (~Selects => key' = key)
      BY <1>2, StartFacts
    <2>2. key' \in Keys \cup {NoKey}
      BY <2>1 DEF RetryInv, TypeOK
    <2>3. Len(calls') = Len(calls) + 1
      BY <2>1, <2>2, AppendedCalls DEF RetryInv
    <2>4. pc = "top" /\ extra' = extra /\ result' = result
      BY <2>1 DEF Call, budget
    <2>5. Len(calls) = attempts /\ attempts <= MaxRetries + extra /\ result = "none"
      BY <2>4 DEF RetryInv, CallInv
    <2> QED BY <1>1, <2>3, <2>4, <2>5, RetryAssumption DEF BudgetKept, PerKey
  <1>3. CASE Ends
    <2>1. PICK a \in Answers : EndWith(a)
      BY <1>3, EndFacts DEF RetryInv
    <2>2. Len(calls) = attempts + 1 /\ attempts <= MaxRetries + extra /\ result = "none" /\ calls # <<>>
      <3>1. Len(calls) = attempts + 1 /\ attempts <= MaxRetries + extra /\ result = "none"
        BY <2>1 DEF EndWith, RetryInv, CallInv
      <3> QED BY <1>1, <3>1
    <2>3. Len(calls') = Len(calls)
      BY <2>1, <2>2, AnsweredCalls DEF EndWith, RetryInv
    <2>4. RetryInv'
      BY <1>3, EndRetry
    <2>5. extra' \in {0, 1} /\ extra <= extra'
      BY <1>1, <2>1, <2>4 DEF EndWith, RetryInv, TypeOK
    <2>6. result' \in PerKey \cup {"transient"} => attempts + 1 > MaxRetries + extra'
      BY <2>1, <2>2 DEF EndWith, PerKey
    <2>7. PICK f \in Nat : f = extra' /\ extra <= f /\ f <= 1
      BY <1>1, <2>5
    <2>8. PICK n \in Nat : n = attempts /\ Len(calls') = n + 1 /\ n <= MaxRetries + extra
      BY <1>1, <2>2, <2>3
    <2>9. n + 1 <= MaxRetries + 1 + f /\ (n + 1 > MaxRetries + f => n + 1 = MaxRetries + 1 + f)
      <3>1. extra \in Nat /\ MaxRetries \in Nat
        BY <1>1, RetryAssumption
      <3>2. n <= MaxRetries + extra /\ extra <= f
        BY <2>7, <2>8
      <3> QED BY <3>1, <3>2, BudgetArithmetic
    <2> QED BY <2>6, <2>7, <2>8, <2>9 DEF BudgetKept
  <1>4. CASE Refuses
    BY <1>4, RefuseFacts DEF Refuse, budget, BudgetKept, PerKey
  <1>5. CASE UNCHANGED vars
    BY <1>5 DEF vars, budget, BudgetKept
  <1> QED BY <1>2, <1>3, <1>4, <1>5, StepGroups

\* The provider is called at most MaxRetries + 1 times, once more after a
\* strip, and a retryable failure is returned only when that is used up.
THEOREM BudgetIsKept == Spec => []BudgetKept
  <1>1. Init => BudgetKept
    BY RetryAssumption DEF Init, BudgetKept, PerKey
  <1> QED BY <1>1, NextBudget, RetryInvariant, PTL DEF Spec

(***************************************************************************)
(* The verdict on the keys.                                                *)
(***************************************************************************)
LEMMA NextVerdict ==
  ASSUME RetryInv, VerdictTruthful, [Next]_vars
  PROVE  VerdictTruthful'
  <1>1. calls \in Seq(Calls) /\ DOMAIN calls = 1..Len(calls)
    BY DEF RetryInv, TypeOK
  <1>2. CASE Starts
    <2>1. result' = "none"
      BY <1>2, StartFacts DEF Call, RetryInv, CallInv
    <2> QED BY <2>1 DEF VerdictTruthful
  <1>3. CASE Ends
    <2>1. PICK a \in Answers : EndWith(a)
      BY <1>3, EndFacts DEF RetryInv
    <2>2. result' \in Answers \cup {"none"}
      BY <2>1 DEF EndWith, RetryInv, CallInv
    <2> QED BY <2>2 DEF VerdictTruthful, Answers
  <1>4. CASE Refuses
    <2>1. PICK r \in {"noEligibleKeys", "exhausted", "selector"} :
            Refuse(r) /\ (r = "exhausted" <=> Live = {})
      BY <1>4, RefuseFacts
    <2>2. pool' = pool /\ calls' = calls /\ result' = r /\ kind # "none"
      BY <2>1 DEF Refuse, setting, Selects
    <2>3. {k \in pool : \E i \in DOMAIN calls : calls[i].key = k /\ calls[i].answer = "denied"}
            = pool \cap dead
      BY <1>1, <2>2 DEF RetryInv, DeadInv
    <2>4. pool \cap dead = pool <=> Live = {}
      BY DEF Live
    <2>5. VerdictTruthful' <=>
            /\ r = "exhausted" => pool \cap dead = pool
            /\ r = "noEligibleKeys" => pool \cap dead # pool
      BY <2>2, <2>3 DEF VerdictTruthful
    <2> QED BY <2>1, <2>4, <2>5
  <1>5. CASE UNCHANGED vars
    BY <1>5 DEF vars, setting, VerdictTruthful
  <1> QED BY <1>2, <1>3, <1>4, <1>5, StepGroups

\* 502 upstream_credentials_exhausted means every key of the pool was denied;
\* 429 no_eligible_keys means that some key was not.
THEOREM VerdictsAreTrue == Spec => []VerdictTruthful
  <1>1. Init => VerdictTruthful
    BY DEF Init, VerdictTruthful
  <1> QED BY <1>1, NextVerdict, RetryInvariant, PTL DEF Spec

(***************************************************************************)
(* The key a request is said to have used is the one that served it.       *)
(***************************************************************************)
SelectedInv ==
  /\ kind # "none" /\ (pc = "call" \/ (pc = "top" /\ attempts > 0)) => selected = key
  /\ SelectedServed

\* What the end of a call does to the selected key.
LEMMA EndSelects ==
  ASSUME Ends
  PROVE  /\ key' = key /\ kind' = kind
         /\ \E a \in Answers :
              /\ Answered(a)
              /\ pc' = "done" => /\ result' = a
                                /\ selected' = IF a # "ok" /\ kind # "none" THEN NoKey ELSE selected
              /\ pc' # "done" => selected' = selected
  <1> USE DEF Stop, Answers, PerKey, setting, keyVars
  <1>1. CASE Break BY <1>1 DEF Break
  <1>2. CASE GiveUp BY <1>2 DEF GiveUp
  <1>3. CASE Denied BY <1>3 DEF Denied, Again
  <1>4. CASE Limited BY <1>4 DEF Limited, Again
  <1>5. CASE Transient BY <1>5 DEF Transient, Again
  <1>6. CASE Strip BY <1>6 DEF Strip, Again
  <1> QED BY <1>1, <1>2, <1>3, <1>4, <1>5, <1>6 DEF Ends

LEMMA NextSelected ==
  ASSUME RetryInv, SelectedInv, [Next]_vars
  PROVE  SelectedInv'
  <1>1. CASE Starts
    <2>1. PICK t : Call(key', t)
      BY <1>1, StartFacts
    <2>2. pc = "top" /\ pc' = "call" /\ kind' = kind
      BY <2>1 DEF Call, setting
    <2>3. kind # "none" /\ ~Selects => attempts > 0
      BY DEF Selects, RetryInv, TypeOK
    <2>4. kind # "none" => selected' = key'
      BY <1>1, <2>2, <2>3, StartFacts DEF SelectedInv
    <2> QED BY <2>2, <2>4 DEF SelectedInv, SelectedServed
  <1>2. CASE Refuses
    BY <1>2, RefuseFacts DEF Refuse, setting, keyVars, SelectedInv, SelectedServed
  <1>3. CASE Ends
    <2>1. PICK b \in Answers : EndWith(b)
      BY <1>3, EndFacts DEF RetryInv
    <2>2. pc = "call" /\ calls \in Seq(Calls) /\ calls # <<>> /\ calls[Len(calls)].key = key
      BY <2>1 DEF EndWith, RetryInv, CallInv, TypeOK
    <2>3. PICK a \in Answers :
            /\ Answered(a)
            /\ pc' = "done" => /\ result' = a
                              /\ selected' = IF a # "ok" /\ kind # "none" THEN NoKey ELSE selected
            /\ pc' # "done" => selected' = selected
      BY <1>3, EndSelects
    <2>4. Len(calls') = Len(calls) /\ calls'[Len(calls)].key = calls[Len(calls)].key
      <3>1. Len(calls) \in 1..Len(calls)
        BY <2>2
      <3> QED BY <2>2, <2>3, <3>1, AnsweredCalls DEF RetryInv
    <2>5. kind # "none" => selected = key
      BY <2>2 DEF SelectedInv
    <2>6. key' = key /\ kind' = kind
      BY <1>3, EndSelects
    <2> QED BY <2>2, <2>3, <2>4, <2>5, <2>6 DEF SelectedInv, SelectedServed
  <1>4. CASE UNCHANGED vars
    BY <1>4 DEF vars, setting, budget, keyVars, SelectedInv, SelectedServed
  <1> QED BY <1>1, <1>2, <1>3, <1>4, StepGroups

\* Of a request that needs a key, selected_key_id names the key that served it,
\* and is empty when none did, whatever the reused context held before
\* (executeRequestWithRetries); of one that needs none it says nothing.
THEOREM SelectedIsServed == Spec => []SelectedServed
  <1>1. Init => SelectedInv
    BY DEF Init, SelectedInv, SelectedServed
  <1>2. SelectedInv => SelectedServed
    BY DEF SelectedInv
  <1> QED BY <1>1, <1>2, NextSelected, RetryInvariant, PTL DEF Spec

(***************************************************************************)
(* What the loop remembers of its last call, and the turns of the keys.    *)
(***************************************************************************)
\* A step that starts a call, more closely: what becomes of the trail and of
\* the round.
LEMMA StartTurn ==
  ASSUME Starts
  PROVE  /\ \E t : Call(key', t) /\ t = IF Selects THEN Resolved(key') ELSE trail
         /\ \/ used' = used /\ skipped' = skipped /\ (kind = "rotating" /\ Selects => key' \notin used)
            \/ used' = {} /\ skipped' = skipped \cup Fresh
  <1>1. CASE SameKey BY <1>1 DEF SameKey, Call, keyVars
  <1>2. CASE PickFixed BY <1>2 DEF PickFixed, Use
  <1>3. CASE PickFresh BY <1>3 DEF PickFresh, Use, Fresh
  <1>4. CASE NewRound BY <1>4 DEF NewRound, Use
  <1> QED BY <1>1, <1>2, <1>3, <1>4 DEF Starts

\* A step that ends a call, more closely: what the loop remembers of it.
EndTurn(a) ==
  /\ pc = "call" /\ pc' \in {"top", "done"} /\ Answered(a)
  /\ UNCHANGED <<kind, pool, key, skipped>>
  /\ trail' \in {trail, Reasoned(a)} /\ dead \subseteq dead'
  /\ used' = IF a = "limited" /\ kind # "none" THEN used \cup {key} ELSE used
  /\ pc' = "top" =>
       /\ prev' = key
       /\ lastPerKey' = (a \in PerKey)
       /\ lastPermanent' = (a = "denied" /\ kind # "none")
       /\ lastStrip' = (a = "rejected")
       /\ pending' = IF a \in PerKey /\ kind # "none" THEN Len(trail) ELSE pending

LEMMA EndTurns ==
  ASSUME TypeOK, Ends
  PROVE  \E a \in Answers : EndTurn(a)
  <1> USE DEF EndTurn, Answers, setting, keyVars
  <1>1. ASSUME NEW a \in {"denied", "limited", "transient", "rejected"}, NEW x \in {extra, extra + 1},
               Again(a, x)
        PROVE  /\ pc' \in {"top", "done"} /\ Answered(a) /\ UNCHANGED <<kind, pool, key, skipped>>
               /\ trail' = Reasoned(a)
               /\ pc' = "top" =>
                    /\ prev' = key /\ lastPerKey' = (a \in PerKey)
                    /\ lastPermanent' = (a = "denied" /\ kind # "none")
                    /\ lastStrip' = (a = "rejected")
                    /\ pending' = IF a \in PerKey /\ kind # "none" THEN Len(trail) ELSE pending
    <2>1. pc' \in {"top", "done"} /\ (pc' = "top" => ~(attempts + 1 > MaxRetries + x))
      BY <1>1 DEF Again, Stop
    <2>2. attempts \in Nat /\ x \in Nat /\ MaxRetries \in Nat
      BY RetryAssumption DEF TypeOK
    <2>3. pc' = "top" => Candidate(x)
      BY <2>1, <2>2 DEF Candidate
    <2> QED BY <1>1, <2>1, <2>3 DEF Again
  <1>2. CASE Break BY <1>2 DEF Break, Stop, last
  <1>3. CASE GiveUp BY <1>3 DEF GiveUp, Stop
  <1>4. CASE Denied BY <1>1, <1>4 DEF Denied
  <1>5. CASE Limited BY <1>1, <1>5 DEF Limited
  <1>6. CASE Transient BY <1>1, <1>6 DEF Transient
  <1>7. CASE Strip BY <1>1, <1>7 DEF Strip
  <1> QED BY <1>2, <1>3, <1>4, <1>5, <1>6, <1>7 DEF Ends

\* previousKeyID and the three flags describe the last call, which was made
\* with currentKey.
LastInv ==
  /\ kind = "none" => key = NoKey
  /\ pc = "top" /\ attempts > 0 =>
       /\ calls[Len(calls)].key = key /\ prev = key
       /\ lastPerKey = (calls[Len(calls)].answer \in PerKey)
       /\ lastPermanent = (calls[Len(calls)].answer = "denied" /\ kind # "none")
       /\ lastStrip = (calls[Len(calls)].answer = "rejected")

\* In a call, and at the loop's head after one, the history is not empty.
LEMMA HistoryLength ==
  ASSUME RetryInv
  PROVE  /\ calls \in Seq(Calls) /\ DOMAIN calls = 1..Len(calls) /\ Len(calls) \in Nat
         /\ attempts \in Nat
         /\ pc = "top" => Len(calls) = attempts
         /\ pc = "call" => /\ Len(calls) \in 1..Len(calls) /\ calls # <<>>
                           /\ calls[Len(calls)].key = key
  <1>1. calls \in Seq(Calls) /\ attempts \in Nat
    BY RetryAssumption DEF RetryInv, TypeOK
  <1>2. pc = "call" => Len(calls) = attempts + 1 /\ calls[Len(calls)].key = key
    BY DEF RetryInv, CallInv
  <1>3. pc = "call" => Len(calls) \in 1..Len(calls) /\ calls # <<>>
    BY <1>1, <1>2
  <1> QED BY <1>1, <1>2, <1>3 DEF RetryInv, CallInv

LEMMA NextLast ==
  ASSUME RetryInv, LastInv, [Next]_vars
  PROVE  LastInv'
  <1>1. CASE Starts
    BY <1>1, StartFacts DEF LastInv, Call, setting, Selects
  <1>2. CASE Refuses
    BY <1>2, RefuseFacts DEF LastInv, Refuse, setting, keyVars
  <1>3. CASE Ends
    <2>1. PICK a \in Answers : EndTurn(a)
      BY <1>3, EndTurns DEF RetryInv
    <2>2. /\ Len(calls') = Len(calls) /\ calls'[Len(calls)].key = key
          /\ calls'[Len(calls)].answer = a
      BY <2>1, AnsweredCalls, HistoryLength DEF EndTurn, RetryInv
    <2> QED BY <2>1, <2>2 DEF EndTurn, LastInv
  <1>4. CASE UNCHANGED vars
    BY <1>4 DEF vars, setting, keyVars, budget, last, LastInv
  <1> QED BY <1>1, <1>2, <1>3, <1>4, StepGroups

LEMMA LastAlways == Spec => [](RetryInv /\ LastInv)
  <1>1. Init => LastInv
    BY DEF Init, LastInv
  <1> QED BY <1>1, InitRetry, NextRetry, NextLast, PTL DEF Spec

(***************************************************************************)
(* Backoff.                                                                *)
(***************************************************************************)
LEMMA NextBackoff ==
  ASSUME RetryInv, LastInv, BackoffKept, [Next]_vars
  PROVE  BackoffKept'
  <1> DEFINE Due(c, d) == ~(c.answer = "denied" /\ d.key # c.key) /\ c.answer # "rejected"
  <1>1. calls \in Seq(Calls) /\ DOMAIN calls = 1..Len(calls) /\ Len(calls) \in Nat
    BY HistoryLength
  <1>2. \A i \in 1..Len(calls) : i > 1 => (calls[i].waited <=> Due(calls[i - 1], calls[i]))
    BY <1>1 DEF BackoffKept
  <1>3. CASE Starts
    <2>1. PICK t : Call(key', t)
      BY <1>3, StartTurn
    <2>2. key' \in Keys \cup {NoKey}
      BY <1>3, StartFacts DEF RetryInv, TypeOK
    <2>3. /\ calls' \in Seq(Calls) /\ Len(calls') = Len(calls) + 1
          /\ \A i \in 1..Len(calls) : calls'[i] = calls[i]
          /\ calls'[Len(calls) + 1].key = key'
          /\ calls'[Len(calls) + 1].waited = Waits(key')
      BY <2>1, <2>2, AppendedCalls DEF RetryInv
    <2>4. pc = "top" /\ Len(calls) = attempts
      BY <2>1, HistoryLength DEF Call
    <2>5. Len(calls) > 0 =>
            (Waits(key') <=> ~(calls[Len(calls)].answer = "denied" /\ key' # calls[Len(calls)].key)
                             /\ calls[Len(calls)].answer # "rejected")
      <3>1. kind = "none" => key' = key
        BY <1>3, StartFacts DEF Selects
      <3> QED BY <2>4, <3>1 DEF Waits, LastInv
    <2>6. ASSUME NEW i \in 1..Len(calls'), i > 1
          PROVE  calls'[i].waited <=> Due(calls'[i - 1], calls'[i])
      <3>1. CASE i <= Len(calls)
        <4>1. i \in 1..Len(calls) /\ i - 1 \in 1..Len(calls)
          BY <1>1, <2>6, <3>1
        <4> QED BY <1>2, <2>3, <2>6, <4>1
      <3>2. CASE i = Len(calls) + 1
        <4>1. i - 1 = Len(calls) /\ Len(calls) \in 1..Len(calls) /\ Len(calls) > 0
          BY <1>1, <2>6, <3>2
        <4>2. calls'[i - 1] = calls[Len(calls)]
          BY <2>3, <4>1
        <4> QED BY <2>3, <2>5, <3>2, <4>1, <4>2
      <3> QED BY <1>1, <2>3, <2>6, <3>1, <3>2
    <2>7. DOMAIN calls' = 1..Len(calls')
      BY <2>3
    <2> QED BY <2>6, <2>7 DEF BackoffKept
  <1>4. CASE Ends
    <2>1. PICK a \in Answers : EndTurn(a)
      BY <1>4, EndTurns DEF RetryInv
    <2>2. /\ calls' \in Seq(Calls) /\ Len(calls') = Len(calls)
          /\ \A i \in 1..Len(calls) :
              /\ calls'[i].key = calls[i].key /\ calls'[i].waited = calls[i].waited
              /\ calls'[i].answer = IF i = Len(calls) THEN a ELSE calls[i].answer
      BY <2>1, AnsweredCalls, HistoryLength DEF EndTurn, RetryInv
    <2>3. ASSUME NEW i \in 1..Len(calls), i > 1
          PROVE  calls'[i].waited <=> Due(calls'[i - 1], calls'[i])
      <3>1. i - 1 \in 1..Len(calls) /\ i - 1 # Len(calls)
        BY <1>1, <2>3
      <3>2. /\ calls'[i - 1].key = calls[i - 1].key /\ calls'[i - 1].answer = calls[i - 1].answer
            /\ calls'[i].key = calls[i].key /\ calls'[i].waited = calls[i].waited
        BY <2>2, <2>3, <3>1
      <3> QED BY <1>2, <2>3, <3>2
    <2>4. DOMAIN calls' = 1..Len(calls)
      BY <2>2
    <2> QED BY <2>3, <2>4 DEF BackoffKept
  <1>5. CASE Refuses \/ UNCHANGED vars
    <2>1. calls' = calls
      BY <1>5, RefuseFacts DEF Refuse, vars
    <2> QED BY <2>1 DEF BackoffKept
  <1> QED BY <1>3, <1>4, <1>5, StepGroups

\* Whatever the pool, the budget and the failures: a retry goes out at once
\* exactly when a denied key was replaced or encrypted reasoning was stripped,
\* and after backoff in every other case (executeRequestWithRetries).
THEOREM BackoffIsKept == Spec => []BackoffKept
  <1>1. Init => BackoffKept
    BY DEF Init, BackoffKept
  <1> QED BY <1>1, NextBackoff, LastAlways, PTL DEF Spec

(***************************************************************************)
(* The attempt trail.                                                      *)
(***************************************************************************)
\* A failure of the key that will be retried, and only such a one, waits to
\* learn whether it caused a rotation: the last record of the trail.
TurnInv ==
  kind # "none" =>
    /\ pc = "top" => pending = IF lastPerKey THEN Len(trail) ELSE 0
    /\ pc = "call" => pending = 0

LEMMA NextTurn ==
  ASSUME RetryInv, TurnInv, [Next]_vars
  PROVE  TurnInv'
  <1>1. CASE Starts
    <2>1. PICK t : Call(key', t)
      BY <1>1, StartTurn
    <2>2. kind # "none" => pending' = 0
      <3>1. CASE Selects BY <1>1, <3>1, StartFacts
      <3>2. CASE ~Selects
        BY <1>1, <2>1, <3>2, StartFacts DEF Call, Selects, TurnInv
      <3> QED BY <3>1, <3>2
    <2> QED BY <2>1, <2>2 DEF Call, setting, TurnInv
  <1>2. CASE Refuses
    BY <1>2, RefuseFacts DEF TurnInv, Refuse, setting
  <1>3. CASE Ends
    <2>1. PICK a \in Answers : EndTurn(a)
      BY <1>3, EndTurns DEF RetryInv
    <2>2. Len(trail') = Len(trail)
      BY <2>1, TrailType DEF EndTurn, RetryInv
    <2> QED BY <2>1, <2>2 DEF EndTurn, TurnInv
  <1>4. CASE UNCHANGED vars
    BY <1>4 DEF vars, setting, last, TurnInv
  <1> QED BY <1>1, <1>2, <1>3, <1>4, StepGroups

\* FailReason is the only field of the trail that the end of a call touches.
LEMMA ReasonedKeeps ==
  ASSUME TypeOK, NEW a \in Answers, NEW i \in 1..Len(trail)
  PROVE  Reasoned(a)[i].key = trail[i].key /\ Reasoned(a)[i].rotated = trail[i].rotated
  <1>1. trail \in Seq(Records) /\ trail # <<>> /\ trail[i] \in Records
    BY DEF TypeOK
  <1>2. Reasoned(a) = [trail EXCEPT ![Len(trail)] = [trail[Len(trail)] EXCEPT !.reason = a]]
    BY <1>1 DEF Reasoned
  <1>3. CASE i = Len(trail)
    BY <1>1, <1>2, <1>3 DEF Records
  <1>4. CASE i # Len(trail)
    BY <1>1, <1>2, <1>4
  <1> QED BY <1>3, <1>4

\* When key k is about to be called, the trail tells of every call before it,
\* the last one included, whether the next call uses another key.
ToldBefore(t, k) ==
  /\ t \in Seq(Records) /\ Len(t) = Len(calls)
  /\ \A i \in 1..Len(calls) :
       /\ t[i].key = calls[i].key
       /\ t[i].rotated <=> IF i < Len(calls) THEN calls[i + 1].key # calls[i].key
                           ELSE k # calls[i].key

LEMMA StartTells ==
  ASSUME RetryInv, LastInv, TurnInv, TrailTruthful, kind # "none", Starts
  PROVE  ToldBefore(IF Selects THEN Resolved(key') ELSE trail, key')
  <1>1. pc = "top" /\ Len(calls) = attempts /\ attempts \in Nat /\ trail \in Seq(Records)
    BY StartTurn, HistoryLength DEF Call, RetryInv, TypeOK
  <1>2. CASE attempts = 0
    <2>1. Selects /\ pending = 0 /\ CtxTrail = <<>>
      BY <1>1, <1>2 DEF Selects, CtxTrail, RetryInv, KeyInv
    <2>2. Resolved(key') = <<>>
      BY <2>1 DEF Resolved
    <2> QED BY <1>1, <1>2, <2>1, <2>2 DEF ToldBefore
  <1>3. CASE attempts # 0
    <2>1. /\ Len(trail) = Len(calls) /\ Len(calls) \in 1..Len(calls) /\ attempts > 0
          /\ CtxTrail = trail /\ calls[Len(calls)].key = key
      BY <1>1, <1>3, HistoryLength DEF TrailTruthful, CtxTrail, LastInv
    <2>2. \A i \in 1..Len(calls) :
            /\ trail[i].key = calls[i].key
            /\ trail[i].rotated <=> i < Len(calls) /\ calls[i + 1].key # calls[i].key
      BY <1>1, <1>3, <2>1, HistoryLength DEF TrailTruthful
    <2>3. CASE ~Selects
      <3>1. key' = key BY <2>3, StartFacts
      <3> QED BY <1>1, <2>1, <2>2, <2>3, <3>1 DEF ToldBefore
    <2>4. CASE Selects
      <3>1. lastPerKey /\ pending = Len(calls) /\ pending # 0
        BY <1>1, <1>3, <2>1, <2>4 DEF Selects, TurnInv
      <3>2. CASE key' = key
        <4>1. Resolved(key') = trail
          BY <2>1, <2>2, <3>1, <3>2 DEF Resolved
        <4> QED BY <1>1, <2>1, <2>2, <2>4, <3>2, <4>1 DEF ToldBefore
      <3>3. CASE key' # key
        <4> DEFINE n == Len(calls)
        <4>1. Resolved(key') = [trail EXCEPT ![n] = [trail[n] EXCEPT !.rotated = TRUE]]
          BY <2>1, <2>2, <3>1, <3>3 DEF Resolved
        <4>2. trail[n] \in Records
          BY <1>1, <2>1
        <4>3. [trail[n] EXCEPT !.rotated = TRUE] \in Records
          BY <4>2 DEF Records
        <4>4. /\ Resolved(key') \in Seq(Records) /\ Len(Resolved(key')) = n
              /\ \A i \in 1..n : i # n => Resolved(key')[i] = trail[i]
              /\ Resolved(key')[n] = [trail[n] EXCEPT !.rotated = TRUE]
          BY <1>1, <2>1, <4>1, <4>3
        <4>5. Resolved(key')[n].key = key /\ Resolved(key')[n].rotated = TRUE
          BY <2>1, <2>2, <4>2, <4>4 DEF Records
        <4>6. ASSUME NEW i \in 1..n
              PROVE  /\ Resolved(key')[i].key = calls[i].key
                     /\ Resolved(key')[i].rotated <=>
                          IF i < n THEN calls[i + 1].key # calls[i].key ELSE key' # calls[i].key
          <5>1. CASE i = n BY <2>1, <3>3, <4>5, <5>1
          <5>2. CASE i # n
            <6>1. i < n BY <1>1, <5>2
            <6> QED BY <2>2, <4>4, <5>2, <6>1
          <5> QED BY <5>1, <5>2
        <4> QED BY <2>4, <4>4, <4>6 DEF ToldBefore
      <3> QED BY <3>2, <3>3
    <2> QED BY <2>3, <2>4
  <1> QED BY <1>2, <1>3

LEMMA NextTrail ==
  ASSUME RetryInv, LastInv, TurnInv, TrailTruthful, [Next]_vars
  PROVE  TrailTruthful'
  <1>1. calls \in Seq(Calls) /\ DOMAIN calls = 1..Len(calls) /\ Len(calls) \in Nat
        /\ trail \in Seq(Records)
    BY HistoryLength DEF RetryInv, TypeOK
  <1>2. CASE Starts
    <2>1. PICK t : Call(key', t) /\ t = IF Selects THEN Resolved(key') ELSE trail
      BY <1>2, StartTurn
    <2>2. kind' = kind /\ pc' = "call"
      BY <2>1 DEF Call, setting
    <2>3. CASE kind # "none"
      <3> DEFINE n == Len(calls)
                 r == [key |-> key', rotated |-> FALSE, reason |-> "none"]
      <3>1. ToldBefore(t, key')
        BY <1>2, <2>1, <2>3, StartTells
      <3>2. key' \in Keys
        BY <1>2, <2>3, StartRetry, <2>2 DEF RetryInv, KeyInv
      <3>3. r \in Records
        BY <3>2 DEF Records
      <3>4. trail' = Append(t, r)
        BY <2>1, <2>3 DEF Call
      <3>5. /\ trail' \in Seq(Records) /\ Len(trail') = n + 1
            /\ \A i \in 1..n : trail'[i] = t[i]
            /\ trail'[n + 1] = r
        BY <1>1, <3>1, <3>3, <3>4 DEF ToldBefore
      <3>6. /\ Len(calls') = n + 1 /\ DOMAIN calls' = 1..(n + 1)
            /\ \A i \in 1..n : calls'[i] = calls[i]
            /\ calls'[n + 1].key = key'
        BY <2>1, <3>2, AppendedCalls DEF RetryInv
      <3>7. ASSUME NEW i \in 1..(n + 1)
            PROVE  /\ trail'[i].key = calls'[i].key
                   /\ trail'[i].rotated <=> i < n + 1 /\ calls'[i + 1].key # calls'[i].key
        <4>1. CASE i = n + 1
          BY <1>1, <3>5, <3>6, <4>1
        <4>2. CASE i = n /\ n # 0
          <5>1. i \in 1..n /\ i < n + 1 /\ ~(i < n) BY <1>1, <4>2
          <5> QED BY <3>1, <3>5, <3>6, <4>2, <5>1 DEF ToldBefore
        <4>3. CASE i < n
          <5>1. i \in 1..n /\ i + 1 \in 1..n /\ i < n + 1 BY <1>1, <4>3
          <5> QED BY <3>1, <3>5, <3>6, <4>3, <5>1 DEF ToldBefore
        <4> QED BY <1>1, <4>1, <4>2, <4>3
      <3> QED BY <3>5, <3>6, <3>7 DEF TrailTruthful
    <2> QED BY <2>2, <2>3 DEF TrailTruthful
  <1>3. CASE Ends
    <2>1. PICK a \in Answers : EndTurn(a)
      BY <1>3, EndTurns DEF RetryInv
    <2>2. /\ calls' \in Seq(Calls) /\ Len(calls') = Len(calls)
          /\ \A i \in 1..Len(calls) : calls'[i].key = calls[i].key
      BY <2>1, AnsweredCalls, HistoryLength DEF EndTurn, RetryInv
    <2>3. /\ Len(trail') = Len(trail)
          /\ \A i \in 1..Len(trail) : trail'[i].key = trail[i].key /\ trail'[i].rotated = trail[i].rotated
      BY <2>1, TrailType, ReasonedKeeps DEF EndTurn, RetryInv
    <2>4. DOMAIN calls' = 1..Len(calls)
      BY <2>2
    <2>5. CASE kind # "none"
      <3>1. /\ Len(trail) = Len(calls)
            /\ \A i \in 1..Len(calls) :
                 /\ trail[i].key = calls[i].key
                 /\ trail[i].rotated <=> i < Len(calls) /\ calls[i + 1].key # calls[i].key
        BY <1>1, <2>1, <2>5 DEF EndTurn, TrailTruthful
      <3>2. ASSUME NEW i \in 1..Len(calls)
            PROVE  /\ trail'[i].key = calls'[i].key
                   /\ trail'[i].rotated <=> i < Len(calls) /\ calls'[i + 1].key # calls'[i].key
        <4>1. i < Len(calls) => i + 1 \in 1..Len(calls) BY <1>1
        <4> QED BY <2>2, <2>3, <3>1, <4>1
      <3> QED BY <2>2, <2>3, <2>4, <3>1, <3>2 DEF TrailTruthful
    <2> QED BY <2>1, <2>5 DEF EndTurn, TrailTruthful
  <1>4. CASE Refuses
    <2>1. /\ pc = "top" /\ pc' = "done" /\ kind' = kind /\ calls' = calls /\ trail' = CtxTrail
      BY <1>4, RefuseFacts DEF Refuse, setting
    <2>2. CASE attempts = 0
      <3>1. calls = <<>> BY <1>1, <2>1, <2>2, HistoryLength
      <3> QED BY <2>1, <2>2, <3>1 DEF TrailTruthful, CtxTrail
    <2>3. CASE attempts # 0
      <3>1. attempts > 0 BY <2>3, HistoryLength
      <3> QED BY <2>1, <2>3, <3>1 DEF TrailTruthful, CtxTrail
    <2> QED BY <2>2, <2>3
  <1>5. CASE UNCHANGED vars
    BY <1>5 DEF vars, setting, budget, TrailTruthful
  <1> QED BY <1>2, <1>3, <1>4, <1>5, StepGroups

\* The attempt trail has one record per call, with its key, and
\* TriggeredRotation exactly where the next call used another key
\* (pendingRotationAttemptIdx in executeRequestWithRetries).
THEOREM TrailIsTruthful == Spec => []TrailTruthful
  <1>1. Init => TurnInv /\ TrailTruthful
    BY DEF Init, TurnInv, TrailTruthful
  <1> QED BY <1>1, NextTurn, NextTrail, LastAlways, PTL DEF Spec

(***************************************************************************)
(* Fair rotation: the rounds.                                              *)
(***************************************************************************)
\* The calls that ran into the limit of key k.
Hits(k) == {i \in 1..Len(calls) : calls[i].key = k /\ calls[i].answer = "limited"}

LEMMA TimesFinite ==
  ASSUME RetryInv, NEW k
  PROVE  Times(k) = Cardinality(Hits(k)) /\ IsFiniteSet(Hits(k)) /\ Times(k) \in Nat
  <1>1. DOMAIN calls = 1..Len(calls) /\ Len(calls) \in Nat
    BY HistoryLength
  <1>2. Times(k) = Cardinality(Hits(k))
    BY <1>1 DEF Times, Hits
  <1>3. IsFiniteSet(1..Len(calls)) /\ Hits(k) \subseteq 1..Len(calls)
    BY <1>1, FS_Interval DEF Hits
  <1>4. IsFiniteSet(Hits(k))
    BY <1>3, FS_Subset
  <1> QED BY <1>2, <1>4, FS_CardinalityType

\* A call that has just started has not run into a limit.
LEMMA StartTimes ==
  ASSUME RetryInv, Starts, NEW k
  PROVE  Times(k)' = Times(k)
  <1>1. PICK t : Call(key', t)
    BY StartTurn
  <1>2. key' \in Keys \cup {NoKey}
    BY StartFacts DEF RetryInv, TypeOK
  <1>3. /\ Len(calls') = Len(calls) + 1 /\ DOMAIN calls' = 1..(Len(calls) + 1)
        /\ \A i \in 1..Len(calls) : calls'[i] = calls[i]
        /\ calls'[Len(calls) + 1].answer = "none"
    BY <1>1, <1>2, AppendedCalls DEF RetryInv
  <1>4. Len(calls) \in Nat
    BY HistoryLength
  <1>5. Hits(k)' = Hits(k)
    BY <1>3, <1>4 DEF Hits
  <1>6. Times(k)' = Cardinality(Hits(k)')
    BY <1>3 DEF Times, Hits
  <1> QED BY <1>5, <1>6, TimesFinite

\* The end of a call counts for its key when the key was rate-limited.
LEMMA EndTimes ==
  ASSUME RetryInv, NEW a \in Answers, EndTurn(a), NEW k
  PROVE  Times(k)' = Times(k) + IF a = "limited" /\ k = key THEN 1 ELSE 0
  <1> DEFINE n == Len(calls)
  <1>1. n \in 1..n /\ n \in Nat /\ calls # <<>> /\ calls[n].key = key /\ calls[n].answer = "none"
    BY HistoryLength DEF EndTurn, RetryInv, CallInv
  <1>2. /\ calls' \in Seq(Calls) /\ Len(calls') = n
        /\ \A i \in 1..n : /\ calls'[i].key = calls[i].key
                           /\ calls'[i].answer = IF i = n THEN a ELSE calls[i].answer
    BY <1>1, AnsweredCalls DEF EndTurn, RetryInv
  <1>3. Times(k)' = Cardinality(Hits(k)')
    <2>1. DOMAIN calls' = 1..n BY <1>2
    <2> QED BY <1>2, <2>1 DEF Times, Hits
  <1>4. n \notin Hits(k)
    BY <1>1 DEF Hits
  <1>5. CASE a = "limited" /\ k = key
    <2>1. Hits(k)' = Hits(k) \cup {n}
      BY <1>1, <1>2, <1>5 DEF Hits
    <2>2. Cardinality(Hits(k) \cup {n}) = Cardinality(Hits(k)) + 1
      BY <1>4, TimesFinite, FS_AddElement
    <2> QED BY <1>3, <1>5, <2>1, <2>2, TimesFinite
  <1>6. CASE ~(a = "limited" /\ k = key)
    <2>1. Hits(k)' = Hits(k)
      BY <1>1, <1>2, <1>6 DEF Hits
    <2> QED BY <1>3, <1>6, <2>1, TimesFinite
  <1> QED BY <1>5, <1>6

Rested(k) == IF k \in used THEN 1 ELSE 0

\* In a round every key is called on until it rests, and a resting key is not
\* called.  Not counting the rest of this round, no key has run into its limit
\* more often than a live key that was never hidden.
RoundInv ==
  /\ kind = "none" => pool = {}
  /\ kind = "fixed" => \A x, y \in pool : x = y
  /\ kind = "rotating" =>
       /\ pc = "call" => key \notin used
       /\ pc = "top" /\ key \in used => lastPerKey
       /\ \A x \in pool, y \in (pool \ dead) \ skipped :
            Times(x) + Rested(y) <= Times(y) + Rested(x)

LEMMA NextRound ==
  ASSUME RetryInv, RoundInv, [Next]_vars
  PROVE  RoundInv'
  <1>1. CASE Starts
    <2>1. PICK t : Call(key', t)
      BY <1>1, StartTurn
    <2>2. pc = "top" /\ pc' = "call" /\ UNCHANGED <<kind, pool, dead>>
      BY <2>1 DEF Call, setting, last
    <2>3. \A k : Times(k)' = Times(k) /\ Times(k) \in Nat
      BY <1>1, StartTimes, TimesFinite
    <2>4. CASE kind # "rotating"
      BY <2>2, <2>4 DEF RoundInv
    <2>5. CASE kind = "rotating" /\ used' = used /\ skipped' = skipped /\ (Selects => key' \notin used)
      <3>1. key' \notin used
        <4>1. CASE Selects BY <2>5, <4>1
        <4>2. CASE ~Selects
          <5>1. key' = key /\ ~lastPerKey BY <1>1, <2>5, <4>2, StartFacts DEF Selects
          <5> QED BY <2>2, <2>5, <5>1 DEF RoundInv
        <4> QED BY <4>1, <4>2
      <3>2. \A k : Rested(k)' = Rested(k) BY <2>5 DEF Rested
      <3> QED BY <2>2, <2>3, <2>5, <3>1, <3>2 DEF RoundInv
    <2>6. CASE kind = "rotating" /\ used' = {} /\ skipped' = skipped \cup Fresh
      <3>1. ASSUME NEW x \in pool, NEW y \in (pool \ dead) \ skipped'
            PROVE  Times(x) <= Times(y)
        <4>1. y \in used /\ y \in (pool \ dead) \ skipped
          BY <2>6 DEF Fresh
        <4>2. Times(x) + Rested(y) <= Times(y) + Rested(x)
          BY <2>6, <4>1 DEF RoundInv
        <4>3. Rested(y) = 1 /\ Rested(x) \in {0, 1}
          BY <4>1 DEF Rested
        <4>4. Times(x) \in Nat /\ Times(y) \in Nat BY <2>3
        <4> QED BY <4>2, <4>3, <4>4
      <3>2. \A k : Rested(k)' = 0 BY <2>6 DEF Rested
      <3>3. \A x \in pool, y \in (pool \ dead) \ skipped' :
              Times(x)' + Rested(y)' <= Times(y)' + Rested(x)'
        BY <2>3, <3>1, <3>2
      <3> QED BY <2>2, <2>6, <3>3 DEF RoundInv
    <2> QED BY <1>1, <2>4, <2>5, <2>6, StartTurn
  <1>2. CASE Ends
    <2>1. PICK a \in Answers : EndTurn(a)
      BY <1>2, EndTurns DEF RetryInv
    <2>2. /\ pc = "call" /\ pc' # "call" /\ UNCHANGED <<kind, pool, key, skipped>> /\ dead \subseteq dead'
          /\ pc' = "top" => lastPerKey' = (a \in PerKey)
      BY <2>1 DEF EndTurn
    <2>3. CASE kind # "rotating"
      BY <2>2, <2>3 DEF RoundInv
    <2>4. CASE kind = "rotating"
      <3>1. /\ key \notin used
            /\ used' = IF a = "limited" THEN used \cup {key} ELSE used
        BY <2>1, <2>2, <2>4 DEF RoundInv, EndTurn
      <3>2. \A k : Rested(k)' = Rested(k) + IF a = "limited" /\ k = key THEN 1 ELSE 0
        BY <3>1 DEF Rested
      <3>3. \A k : /\ Times(k)' = Times(k) + (IF a = "limited" /\ k = key THEN 1 ELSE 0)
                   /\ Times(k) \in Nat /\ Rested(k) \in {0, 1}
        BY <2>1, EndTimes, TimesFinite DEF Rested
      <3>4. ASSUME NEW x \in pool, NEW y \in (pool \ dead) \ skipped
            PROVE  Times(x)' + Rested(y)' <= Times(y)' + Rested(x)'
        <4>1. Times(x) + Rested(y) <= Times(y) + Rested(x)
          BY <2>4 DEF RoundInv
        <4> QED BY <3>2, <3>3, <4>1
      <3>5. pc' = "top" /\ key' \in used' => lastPerKey'
        BY <2>2, <3>1 DEF PerKey
      <3> QED BY <2>2, <2>4, <3>4, <3>5 DEF RoundInv
    <2> QED BY <2>3, <2>4
  <1>3. CASE Refuses
    <2>1. /\ pc' = "done" /\ UNCHANGED <<kind, pool, key, used, dead, skipped, calls>>
      BY <1>3, RefuseFacts DEF Refuse, setting, keyVars, last
    <2>2. \A k : Times(k)' = Times(k) /\ Rested(k)' = Rested(k)
      BY <2>1 DEF Times, Rested
    <2> QED BY <2>1, <2>2 DEF RoundInv
  <1>4. CASE UNCHANGED vars
    <2>1. \A k : Times(k)' = Times(k) /\ Rested(k)' = Rested(k)
      BY <1>4 DEF Times, Rested, vars, keyVars
    <2> QED BY <1>4, <2>1 DEF vars, setting, keyVars, last, RoundInv
  <1> QED BY <1>1, <1>2, <1>3, <1>4, StepGroups

LEMMA InitRound == Init => RoundInv
  <1> SUFFICES ASSUME Init PROVE RoundInv
    OBVIOUS
  <1>1. /\ kind = "none" => pool = {}
        /\ kind = "fixed" => \A x, y \in pool : x = y
    BY DEF Init, Pools
  <1>2. \A k : Times(k) = 0 /\ Rested(k) = 0
    <2> SUFFICES ASSUME NEW k PROVE Times(k) = 0 /\ Rested(k) = 0
      OBVIOUS
    <2>1. {i \in DOMAIN calls : calls[i].key = k /\ calls[i].answer = "limited"} = {}
      BY DEF Init
    <2> QED BY <2>1, FS_EmptySet DEF Times, Rested, Init
  <1> QED BY <1>1, <1>2 DEF Init, RoundInv

LEMMA RoundsAreFair == RetryInv /\ RoundInv => FairRotation
  <1> SUFFICES ASSUME RetryInv, RoundInv, NEW x \in pool, NEW y \in (pool \ dead) \ skipped
               PROVE  Times(x) <= Times(y) + 1
    BY DEF FairRotation
  <1>1. Times(x) \in Nat /\ Times(y) \in Nat
    BY TimesFinite
  <1>2. CASE kind # "rotating"
    <2>1. x = y BY <1>2 DEF RoundInv, RetryInv, TypeOK
    <2> QED BY <1>1, <2>1
  <1>3. CASE kind = "rotating"
    <2>1. Times(x) + Rested(y) <= Times(y) + Rested(x)
      BY <1>3 DEF RoundInv
    <2>2. Rested(x) \in {0, 1} /\ Rested(y) \in {0, 1}
      BY DEF Rested
    <2> QED BY <1>1, <2>1, <2>2
  <1> QED BY <1>2, <1>3

\* However many keys there are and whenever the filter hides some: no key runs
\* into its rate limit twice more often than a key that is alive and was never
\* hidden (usedKeyIDs and the rounds of the rotating keyProvider).
THEOREM RotationIsFair == Spec => []FairRotation
  <1> QED BY InitRound, NextRound, RoundsAreFair, RetryInvariant, PTL DEF Spec

====
