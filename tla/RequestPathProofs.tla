--------------------------- MODULE RequestPathProofs ---------------------------
(***************************************************************************)
(* Proofs about RequestPath for any plugins, any hooks they run, any       *)
(* changes of the plugin list and any number of fallbacks: that it         *)
(* implements FallbackChain, that a unary request is answered, that a     *)
(* fallback names the primary it stands in for, that concurrent changes of *)
(* the plugin list leave it consistent, and that the post-hooks mirror the *)
(* pre-hooks.                                                              *)
(***************************************************************************)
EXTENDS RequestPath, TLAPS, FiniteSetTheorems, SequenceTheorems

Attempting == {"attempt", "preProvider", "preLLM", "wait", "post"}

\* Where the request is, how many links have returned, and that nothing
\* decisive has been returned while the chain still goes on.
ChainPlace ==
  /\ pc \in {"idle", "preRequest"} => link = 0 /\ trail = <<>>
  /\ pc \in Attempting => link <= fallbacks /\ Len(trail) = link /\ ~FC!Decided
  /\ pc = "verdict" => /\ link <= fallbacks /\ Len(trail) = link + 1
                       /\ trail[Len(trail)] \in Outcomes
  /\ pc = "fallback" => /\ link \in 1..fallbacks + 1 /\ Len(trail) = link /\ ~FC!Decided
  /\ pc # "done" => result = NoResult

ChainInv == TypeOK /\ ChainPlace

\* The chain of the actions that only move within an attempt.
Within ==
  /\ pc \in Attempting /\ pc' \in Attempting
  /\ UNCHANGED chainVars

LEMMA OutcomesHaveKinds ==
  /\ Ok \in Outcomes
  /\ \A e \in ErrKinds : Failure(e) \in Outcomes
  /\ Skipped \notin Outcomes /\ NoResult \notin Outcomes
  /\ \A r \in Outcomes : Final(r) \in Outcomes
  /\ Neither \in Outcomes
BY DEF Outcomes, Ok, Neither, Failure, Skipped, NoResult, ErrKinds, Final

\* An attempt returns: a link of the chain.
LEMMA EndedIsLink ==
  ASSUME ChainInv, pc \in Attempting, NEW r \in Outcomes, Ended(r), {reply', given'} \subseteq Outcomes
  PROVE  ChainInv' /\ FC!Link
<1>1. /\ trail' = Append(trail, r) /\ pc' = "verdict"
      /\ fallbacks' = fallbacks /\ link' = link /\ result' = result
  BY DEF Ended
<1>2. /\ trail \in Seq(Outcomes \cup {Skipped}) /\ link \in Nat /\ fallbacks \in Links
      /\ link <= fallbacks /\ Len(trail) = link /\ ~FC!Decided /\ result = NoResult
  BY DEF ChainInv, TypeOK, ChainPlace, Attempting
<1>3. /\ trail' \in Seq(Outcomes \cup {Skipped}) /\ Len(trail') = link + 1
      /\ trail'[Len(trail')] = r
  BY <1>1, <1>2
<1>4. ChainInv'
  BY <1>1, <1>2, <1>3 DEF ChainInv, TypeOK, ChainPlace, Attempting, Pcs
<1>5. FC!Link
  BY <1>1, <1>2, OutcomesHaveKinds DEF FC!Link
<1> QED BY <1>4, <1>5

\* A step inside an attempt leaves the chain alone.
LEMMA WithinStutters ==
  ASSUME ChainInv, Within, {reply', given'} \subseteq Outcomes
  PROVE  ChainInv' /\ UNCHANGED FC!vars
<1>1. UNCHANGED <<fallbacks, link, trail, result>>
  BY DEF Within, chainVars
<1>2. FC!Decided' = FC!Decided
  BY <1>1 DEF FC!Decided
<1>3. ChainInv'
  BY <1>1, <1>2 DEF Within, ChainInv, TypeOK, ChainPlace, Attempting, Pcs
<1> QED BY <1>1, <1>3 DEF FC!vars

\* Nothing of the request moves.
LEMMA ElsewhereStutters ==
  ASSUME ChainInv, UNCHANGED <<pc, reply, given, fallbacks, link, trail, result>>
  PROVE  ChainInv' /\ UNCHANGED FC!vars
<1>1. FC!Decided' = FC!Decided
  BY DEF FC!Decided
<1> QED BY <1>1 DEF ChainInv, TypeOK, ChainPlace, FC!vars

\* The assumption on the kinds of errors the environment makes.
LEMMA ErrorsAreKinds ==
  HookErrs \subseteq ErrKinds /\ ProviderErrs \subseteq ErrKinds \ {"bare"}
BY RequestPathAssumption DEF ErrKinds

LEMMA ChainInit == Init => ChainInv /\ FC!Init
<1> SUFFICES ASSUME Init PROVE ChainInv /\ FC!Init
  OBVIOUS
<1>1. 0 \in Links
  BY RequestPathAssumption DEF Links
<1>2. TypeOK
  BY <1>1, OutcomesHaveKinds DEF Init, TypeOK, Pcs
<1>3. ChainPlace
  BY DEF Init, ChainPlace, Attempting
<1>4. FC!Init
  BY <1>1 DEF Init, FC!Init, Links
<1> QED BY <1>2, <1>3, <1>4 DEF ChainInv

\* Routing: the list of fallbacks is settled, or the request is refused.
LEMMA RoutingStep ==
  ASSUME ChainInv, Routing
  PROVE  ChainInv' /\ [FC!Next]_FC!vars
<1> USE RequestPathAssumption DEF Links
<1>1. CASE Begin
  <2>1. /\ pc = "idle" /\ pc' = "preRequest" /\ fallbacks' \in Links
        /\ UNCHANGED <<link, trail, result, reply, given>>
    BY <1>1 DEF Begin
  <2>2. trail = <<>> /\ link = 0 /\ result = NoResult
    BY <2>1 DEF ChainInv, ChainPlace
  <2>3. ChainInv'
    BY <2>1, <2>2 DEF ChainInv, TypeOK, ChainPlace, Attempting, Pcs
  <2>4. FC!Route
    BY <2>1, <2>2 DEF FC!Route
  <2> QED BY <2>3, <2>4 DEF FC!Next
<1>2. CASE PreRequestHook
  <2>1. /\ pc = "preRequest" /\ pc' = pc /\ fallbacks' \in Links
        /\ UNCHANGED <<link, trail, result, reply, given>>
    BY <1>2 DEF PreRequestHook
  <2>2. trail = <<>> /\ link = 0 /\ result = NoResult
    BY <2>1 DEF ChainInv, ChainPlace
  <2>3. ChainInv'
    BY <2>1, <2>2 DEF ChainInv, TypeOK, ChainPlace, Attempting, Pcs
  <2>4. FC!Route
    BY <2>1, <2>2 DEF FC!Route
  <2> QED BY <2>3, <2>4 DEF FC!Next
<1>3. CASE Routed
  <2>1. /\ pc = "preRequest" /\ pc' = "attempt"
        /\ UNCHANGED <<fallbacks, link, trail, result, reply, given>>
    BY <1>3 DEF Routed, pipeVars, chainVars
  <2>2. trail = <<>> /\ link = 0 /\ result = NoResult /\ fallbacks \in 0..MaxFallbacks
    BY <2>1 DEF ChainInv, ChainPlace, TypeOK
  <2>3. ~FC!Decided'
    BY <2>1, <2>2 DEF FC!Decided
  <2>4. ChainInv'
    BY <2>1, <2>2, <2>3 DEF ChainInv, TypeOK, ChainPlace, Attempting, Pcs
  <2> QED BY <2>1, <2>4 DEF FC!vars
<1>4. CASE Unresolved
  <2>1. /\ pc = "preRequest" /\ pc' = "done" /\ result' = Failure("plain")
        /\ UNCHANGED <<fallbacks, link, trail, reply, given>>
    BY <1>4 DEF Unresolved, pipeVars
  <2>2. trail = <<>> /\ result = NoResult
    BY <2>1 DEF ChainInv, ChainPlace
  <2>3. ChainInv'
    BY <2>1, <2>2 DEF ChainInv, TypeOK, ChainPlace, Attempting, Pcs
  <2>4. Failure("plain") \in Outcomes /\ Failure("plain").err # "none"
    BY OutcomesHaveKinds DEF Failure, ErrKinds
  <2>5. FC!Reject
    BY <2>1, <2>2, <2>4 DEF FC!Reject
  <2> QED BY <2>3, <2>5 DEF FC!Next
<1> QED BY <1>1, <1>2, <1>3, <1>4 DEF Routing

\* An attempt: its steps are invisible until it returns one link.
LEMMA AttemptStep ==
  ASSUME ChainInv, Attempt
  PROVE  ChainInv' /\ [FC!Next]_FC!vars
<1>1. reply \in Outcomes /\ given \in Outcomes
  BY DEF ChainInv, TypeOK
<1>2. ASSUME Within, {reply', given'} \subseteq Outcomes PROVE ChainInv' /\ [FC!Next]_FC!vars
  BY <1>2, WithinStutters
<1>3. ASSUME NEW r \in Outcomes, pc \in Attempting, Ended(r), {reply', given'} \subseteq Outcomes
      PROVE  ChainInv' /\ [FC!Next]_FC!vars
  BY <1>3, EndedIsLink DEF FC!Next
<1>4. Failure("plain") \in Outcomes /\ Failure("cancelled") \in Outcomes
  BY OutcomesHaveKinds DEF ErrKinds
<1>5. ASSUME NEW e \in {"plain", "cancelled"}, pc \in Attempting, Unanswered(e)
      PROVE  ChainInv' /\ [FC!Next]_FC!vars
  <2>1. Ended(Failure(e)) /\ UNCHANGED <<reply, given>>
    BY <1>5 DEF Unanswered, pipeVars
  <2> QED BY <1>1, <1>3, <1>4, <1>5, <2>1
<1>6. CASE NoQueue
  <2>1. Ended(Failure("plain")) /\ UNCHANGED <<reply, given>> /\ pc \in Attempting
    BY <1>6 DEF NoQueue, Ended, Attempting
  <2> QED BY <1>1, <1>3, <1>4, <2>1
<1>7. CASE TryRequest
  BY <1>1, <1>2, <1>7 DEF TryRequest, Within, Attempting
<1>8. ASSUME NEW x, NEW y, ShortCircuit(x, y)
      PROVE  {reply', given'} \subseteq Outcomes /\ pc' = "post"
  <2>1. \A e \in HookErrs : Failure(e) \in Outcomes
    BY OutcomesHaveKinds, ErrorsAreKinds
  <2> QED BY <1>1, <1>8, <2>1, OutcomesHaveKinds DEF ShortCircuit
<1>9. CASE PreProviderHook
  <2>1. pc = "preProvider" /\ UNCHANGED chainVars
    BY <1>9 DEF PreProviderHook
  <2>2. \/ Pass \/ ShortCircuit("provider", "providerErr")
    BY <1>9 DEF PreProviderHook
  <2>3. pc' \in {"preProvider", "post"} /\ {reply', given'} \subseteq Outcomes
    BY <1>1, <1>8, <2>1, <2>2 DEF Pass
  <2> QED BY <1>2, <2>1, <2>3 DEF Within, Attempting
<1>10. CASE PreProviderDone
  BY <1>1, <1>2, <1>10 DEF PreProviderDone, Within, Attempting
<1>11. CASE PreProviderNil
  BY <1>5, <1>11 DEF PreProviderNil, Attempting
<1>12. CASE PreLLMHook
  <2>1. pc = "preLLM"
    BY <1>12 DEF PreLLMHook
  <2>2. CASE Pass /\ UNCHANGED chainVars
    BY <1>1, <1>2, <2>1, <2>2 DEF Pass, Within, Attempting
  <2>3. CASE ShortCircuit("llm", "llm") /\ UNCHANGED chainVars
    BY <1>2, <1>8, <2>1, <2>3 DEF Within, Attempting
  <2>4. CASE StreamShortCircuit
    <3>1. Ended(Ok) /\ UNCHANGED <<reply, given>>
      BY <2>4 DEF StreamShortCircuit
    <3> QED BY <1>1, <1>3, <2>1, <3>1, OutcomesHaveKinds DEF Attempting
  <2> QED BY <1>12, <2>2, <2>3, <2>4 DEF PreLLMHook
<1>13. CASE PreLLMNil
  BY <1>5, <1>13 DEF PreLLMNil, Attempting
<1>14. CASE Refused
  BY <1>5, <1>14 DEF Refused, Attempting
<1>15. CASE CtxDone
  BY <1>5, <1>15 DEF CtxDone, Attempting
<1>16. CASE Enqueue
  BY <1>1, <1>2, <1>16 DEF Enqueue, Within, Attempting
<1>17. CASE Streaming
  <2>1. Ended(Ok) /\ UNCHANGED <<reply, given>> /\ pc \in Attempting
    BY <1>17 DEF Streaming, Attempting
  <2> QED BY <1>1, <1>3, <2>1, OutcomesHaveKinds
<1>18. CASE Answered
  <2>1. /\ pc = "wait" /\ pc' = "post" /\ UNCHANGED chainVars
    BY <1>18 DEF Answered
  <2>2. PICK e \in {"none"} \cup ProviderErrs :
          reply' = CASE e = "none" -> Ok [] e = "filtered" -> Failure("plain")
                     [] OTHER -> Failure(e)
    BY <1>18 DEF Answered
  <2>3. e # "none" => Failure(e) \in Outcomes
    BY OutcomesHaveKinds, ErrorsAreKinds
  <2>4. reply' \in Outcomes
    BY <1>4, <2>2, <2>3, OutcomesHaveKinds
  <2>5. given' \in {given, reply'}
    BY <1>18 DEF Answered
  <2> QED BY <1>1, <1>2, <2>1, <2>4, <2>5 DEF Within, Attempting
<1>19. CASE PostLLMHook
  <2>1. /\ pc = "post" /\ pc' = "post" /\ UNCHANGED <<chainVars, given>>
        /\ reply' \in PostResults
    BY <1>19 DEF PostLLMHook
  <2>2. (HookErrs \cup IF CanRecover THEN {"none", "empty"} ELSE {}) \subseteq {"none"} \cup ErrKinds
    BY ErrorsAreKinds DEF ErrKinds
  <2>3. PostResults \subseteq Outcomes
    BY <1>1, <2>2 DEF PostResults, Outcomes
  <2> QED BY <1>1, <1>2, <2>1, <2>3 DEF Within, Attempting
<1>20. CASE Return
  <2>1. Returned \in Outcomes /\ Ended(Returned)
    BY <1>1, <1>20, OutcomesHaveKinds DEF Return, Returned
  <2>2. UNCHANGED <<reply, given>> /\ pc \in Attempting
    BY <1>20 DEF Return, pipeVars, Attempting
  <2> QED BY <1>1, <1>3, <2>1, <2>2
<1>21. CASE MessageChanPanics
  <2>1. pc' = "panicked" /\ UNCHANGED <<fallbacks, link, trail, result, reply, given>>
    BY <1>21 DEF MessageChanPanics, pipeVars, chainVars
  <2>2. result = NoResult
    BY <1>21 DEF MessageChanPanics, ChainInv, ChainPlace
  <2>3. ChainInv'
    BY <1>1, <2>1, <2>2 DEF ChainInv, TypeOK, ChainPlace, Attempting, Pcs
  <2> QED BY <2>1, <2>3 DEF FC!vars
<1> QED
  BY <1>6, <1>7, <1>9, <1>10, <1>11, <1>12, <1>13, <1>14, <1>15, <1>16, <1>17, <1>18,
     <1>19, <1>20, <1>21 DEF Attempt

\* The verdict on a link: the answer of the chain, or on to the next.
LEMMA ChainStep ==
  ASSUME ChainInv, Chain
  PROVE  ChainInv' /\ [FC!Next]_FC!vars
<1> USE RequestPathAssumption DEF Links
<1>1. /\ trail \in Seq(Outcomes \cup {Skipped}) /\ link \in Nat /\ fallbacks \in 0..MaxFallbacks
      /\ reply \in Outcomes /\ given \in Outcomes
  BY DEF ChainInv, TypeOK
<1>2. ASSUME NEW r, pc # "done", trail # <<>>, Finish(r),
             \/ FC!Decided /\ r = trail[Len(trail)]
             \/ ~FC!Decided /\ Len(trail) = fallbacks + 1 /\ r = trail[1]
      PROVE  ChainInv' /\ [FC!Next]_FC!vars
  <2>1. pc' = "done" /\ result' = r /\ UNCHANGED <<fallbacks, link, trail, reply, given>>
    BY <1>2 DEF Finish, pipeVars
  <2>2. result = NoResult
    BY <1>2 DEF ChainInv, ChainPlace
  <2>3. ChainInv'
    BY <1>1, <2>1 DEF ChainInv, TypeOK, ChainPlace, Attempting, Pcs
  <2>4. FC!Answer
    BY <1>2, <2>1, <2>2 DEF FC!Answer
  <2> QED BY <2>3, <2>4 DEF FC!Next
<1>3. ASSUME pc = "verdict", ToFallback, ~FC!Decided
      PROVE  ChainInv' /\ [FC!Next]_FC!vars
  <2>1. pc' = "fallback" /\ link' = link + 1 /\ UNCHANGED <<fallbacks, trail, result, reply, given>>
    BY <1>3 DEF ToFallback, pipeVars
  <2>2. link <= fallbacks /\ Len(trail) = link + 1 /\ result = NoResult
    BY <1>3 DEF ChainInv, ChainPlace
  <2>3. ~FC!Decided'
    BY <1>3, <2>1 DEF FC!Decided
  <2>4. ChainInv'
    BY <1>1, <2>1, <2>2, <2>3 DEF ChainInv, TypeOK, ChainPlace, Attempting, Pcs
  <2> QED BY <2>1, <2>4 DEF FC!vars
<1>4. pc = "verdict" => /\ Len(trail) = link + 1 /\ trail # <<>> /\ Outcome \in Outcomes
                        /\ FC!Decided <=> Decisive(Outcome)
  <2> SUFFICES ASSUME pc = "verdict"
               PROVE  /\ Len(trail) = link + 1 /\ trail # <<>> /\ Outcome \in Outcomes
                      /\ FC!Decided <=> Decisive(Outcome)
    OBVIOUS
  <2>1. Len(trail) = link + 1 /\ Outcome \in Outcomes
    BY DEF ChainInv, ChainPlace, Outcome
  <2>2. trail # <<>>
    BY <1>1, <2>1
  <2> QED BY <2>1, <2>2 DEF FC!Decided, Decisive, Halts, Outcome
<1>5. CASE AfterPrimary
  <2>1. pc = "verdict" /\ link = 0
    BY <1>5 DEF AfterPrimary
  <2>2. CASE Decisive(Outcome)
    <3>1. Finish(Outcome)
      BY <1>5, <2>2 DEF AfterPrimary
    <3> QED BY <1>2, <1>4, <2>1, <2>2, <3>1 DEF Outcome
  <2>3. CASE ~Decisive(Outcome) /\ fallbacks = 0
    <3>1. Finish(Outcome)
      BY <1>5, <2>3 DEF AfterPrimary
    <3>2. Len(trail) = 1
      BY <1>4, <2>1
    <3>3. Outcome = trail[1]
      BY <3>2 DEF Outcome
    <3> QED BY <1>2, <1>4, <2>1, <2>3, <3>1, <3>2, <3>3
  <2>4. CASE ~Decisive(Outcome) /\ fallbacks # 0
    <3>1. ToFallback
      BY <1>5, <2>4 DEF AfterPrimary
    <3> QED BY <1>3, <1>4, <2>1, <2>4, <3>1
  <2> QED BY <2>2, <2>3, <2>4
<1>6. CASE AfterFallback
  <2>1. pc = "verdict" /\ link > 0
    BY <1>6 DEF AfterFallback
  <2>2. CASE Outcome.err = "bare"
    <3>1. pc' = "panicked" /\ UNCHANGED <<fallbacks, link, trail, result, reply, given>>
      BY <1>6, <2>2 DEF AfterFallback, pipeVars, chainVars
    <3>2. result = NoResult
      BY <2>1 DEF ChainInv, ChainPlace
    <3>3. ChainInv'
      BY <1>1, <3>1, <3>2 DEF ChainInv, TypeOK, ChainPlace, Attempting, Pcs
    <3> QED BY <3>1, <3>3 DEF FC!vars
  <2>3. CASE Outcome.err # "bare" /\ Decisive(Outcome)
    <3>1. Finish(Outcome)
      BY <1>6, <2>3 DEF AfterFallback
    <3> QED BY <1>2, <1>4, <2>1, <2>3, <3>1 DEF Outcome
  <2>4. CASE Outcome.err # "bare" /\ ~Decisive(Outcome)
    <3>1. ToFallback
      BY <1>6, <2>4 DEF AfterFallback
    <3> QED BY <1>3, <1>4, <2>1, <2>4, <3>1
  <2> QED BY <2>2, <2>3, <2>4
<1>7. pc = "fallback" => /\ link \in 1..fallbacks + 1 /\ Len(trail) = link /\ ~FC!Decided
                         /\ result = NoResult
  BY DEF ChainInv, ChainPlace
<1>8. CASE TryFallback
  <2>1. /\ pc = "fallback" /\ link <= fallbacks /\ pc' = "attempt"
        /\ UNCHANGED <<fallbacks, link, trail, result, reply, given>>
    BY <1>8 DEF TryFallback, pipeVars, chainVars
  <2>2. ~FC!Decided'
    BY <1>7, <2>1 DEF FC!Decided
  <2>3. ChainInv'
    BY <1>1, <1>7, <2>1, <2>2 DEF ChainInv, TypeOK, ChainPlace, Attempting, Pcs
  <2> QED BY <2>1, <2>3 DEF FC!vars
<1>9. CASE SkipFallback
  <2>1. /\ pc = "fallback" /\ link <= fallbacks /\ pc' = pc /\ link' = link + 1
        /\ trail' = Append(trail, Skipped) /\ UNCHANGED <<fallbacks, result, reply, given>>
    BY <1>9 DEF SkipFallback, pipeVars
  <2>2. /\ trail' \in Seq(Outcomes \cup {Skipped}) /\ Len(trail') = link + 1
        /\ trail'[Len(trail')] = Skipped
    BY <1>1, <1>7, <2>1
  <2>3. ~FC!Decided'
    BY <2>2 DEF FC!Decided, Skipped
  <2>4. ChainInv'
    BY <1>1, <1>7, <2>1, <2>2, <2>3 DEF ChainInv, TypeOK, ChainPlace, Attempting, Pcs
  <2>5. trail # <<>>
    BY <1>1, <1>7, <2>1
  <2>6. FC!Link
    BY <1>7, <2>1, <2>5 DEF FC!Link
  <2> QED BY <2>4, <2>6 DEF FC!Next
<1>10. CASE Exhausted
  <2>1. pc = "fallback" /\ link > fallbacks /\ Finish(trail[1])
    BY <1>10 DEF Exhausted
  <2>2. Len(trail) = fallbacks + 1 /\ trail # <<>>
    BY <1>1, <1>7, <2>1
  <2> QED BY <1>2, <1>7, <2>1, <2>2
<1> QED BY <1>5, <1>6, <1>8, <1>9, <1>10 DEF Chain

LEMMA ChainNext ==
  ASSUME ChainInv, [Next]_vars
  PROVE  ChainInv' /\ [FC!Next]_FC!vars
<1>1. CASE Routing
  BY <1>1, RoutingStep
<1>2. CASE Attempt
  BY <1>2, AttemptStep
<1>3. CASE Chain
  BY <1>3, ChainStep
<1>4. CASE Cancel
  BY <1>4, ElsewhereStutters DEF Cancel, pipeVars, chainVars
<1>5. CASE Quiet \/ UNCHANGED vars
  BY <1>5, ElsewhereStutters DEF Quiet, vars, pipeVars, chainVars
<1>6. CASE \E a \in Admins : Change(a)
  <2>1. UNCHANGED reqVars
    BY <1>6 DEF Change, ChangeBegin, LoadPlugins, CompareAndSwap, Cleanup
  <2> QED BY <2>1, ElsewhereStutters DEF reqVars, pipeVars, chainVars
<1> QED BY <1>1, <1>2, <1>3, <1>4, <1>5, <1>6 DEF Next

\* handleRequest and handleStreamRequest implement the chain of fallbacks their
\* comment promises: links are tried in order, each at most once, nothing after
\* a success, a veto or a cancellation; the caller is given the decisive
\* outcome, or the primary error once every fallback failed or was skipped.
THEOREM ChainRefined == Spec => ChainSpec
<1>1. Init => ChainInv /\ FC!Init
  BY ChainInit
<1>2. ChainInv /\ [Next]_vars => ChainInv' /\ [FC!Next]_FC!vars
  BY ChainNext
<1> QED BY <1>1, <1>2, PTL DEF Spec, ChainSpec, FC!Spec

\* The request's label, its chain and the outcome in hand keep their types.
THEOREM RequestTypes == Spec => []TypeOK
<1>1. ChainInv => TypeOK
  BY DEF ChainInv
<1>2. Init => ChainInv
  BY ChainInit
<1>3. ChainInv /\ [Next]_vars => ChainInv'
  BY ChainNext
<1> QED BY <1>1, <1>2, <1>3, PTL DEF Spec

(***************************************************************************)
(* The primary a fallback stands in for.                                   *)
(***************************************************************************)
RoutingInfos == [at : Int, role : {"primary", "fallback"}, primary : Int]

\* A snapshot a fallback can take the primary from, or already took it from.
Carries(info) == IF info.role = "fallback" THEN info.primary = 0 ELSE info.at = 0

\* Once the primary attempt has stashed its snapshot the context carries it on.
PrimaryInv ==
  /\ link \in Nat /\ routing \in RoutingInfos /\ stashed \in BOOLEAN
  /\ pc \in {"idle", "preRequest"} => ~stashed
  /\ stashed => Carries(routing)

LEMMA NoInfoTyped == NoInfo \in RoutingInfos
<1>1. Nobody \in Int
  BY DEF Nobody
<1> QED BY <1>1 DEF NoInfo, RoutingInfos

\* A snapshot carries on what the one before it carried.
LEMMA SnapshotCarries ==
  ASSUME link \in Nat, NEW prev \in RoutingInfos
  PROVE  /\ Snapshot(prev) \in RoutingInfos
         /\ link = 0 \/ Carries(prev) => Carries(Snapshot(prev))
<1>1. prev.at \in Int /\ prev.role \in {"primary", "fallback"} /\ prev.primary \in Int
  BY DEF RoutingInfos
<1>2. Snapshot(prev) \in RoutingInfos
  BY <1>1 DEF Snapshot, Role, RoutingInfos, Nobody
<1>3. CASE link = 0
  BY <1>2, <1>3 DEF Snapshot, Role, Carries
<1>4. CASE link # 0 /\ Carries(prev)
  BY <1>1, <1>2, <1>4 DEF Snapshot, Role, Carries, Nobody
<1> QED BY <1>2, <1>3, <1>4

LEMMA StashCarries ==
  ASSUME PrimaryInv, link' = link, pc \notin {"idle", "preRequest"},
         pc' \notin {"idle", "preRequest"}, NEW ran \in BOOLEAN, Stash(ran)
  PROVE  PrimaryInv'
<1>1. /\ link \in Nat /\ routing \in RoutingInfos /\ stashed \in BOOLEAN
      /\ stashed => Carries(routing)
  BY DEF PrimaryInv
<1>2. CASE ran /\ mode = "stream"
  <2> DEFINE one == Snapshot(routing)   two == Snapshot(one)
  <2>1. one \in RoutingInfos /\ (link = 0 \/ Carries(routing) => Carries(one))
    BY <1>1, SnapshotCarries
  <2> HIDE DEF one
  <2>2. two \in RoutingInfos /\ (link = 0 \/ Carries(one) => Carries(two))
    BY <1>1, <2>1, SnapshotCarries
  <2> HIDE DEF two
  <2>3. routing' \in {one, two} /\ stashed' = (stashed \/ link = 0)
    BY <1>2 DEF Stash, one, two
  <2>4. stashed' => Carries(routing')
    BY <1>1, <2>1, <2>2, <2>3
  <2>5. routing' \in RoutingInfos /\ stashed' \in BOOLEAN
    BY <2>1, <2>2, <2>3
  <2> QED BY <1>1, <2>4, <2>5 DEF PrimaryInv, Carries
<1>3. CASE ~(ran /\ mode = "stream")
  BY <1>1, <1>3 DEF Stash, PrimaryInv, Carries
<1> QED BY <1>2, <1>3

LEMMA PrimaryNext ==
  ASSUME PrimaryInv, [Next]_vars
  PROVE  PrimaryInv'
<1> USE DEF chainVars, ctxVars
<1>1. ASSUME UNCHANGED <<routing, stashed>>, link' \in {link, link + 1},
             pc' \in {"idle", "preRequest"} => pc \in {"idle", "preRequest"}
      PROVE  PrimaryInv'
  BY <1>1 DEF PrimaryInv, Carries
<1>2. CASE Begin
  <2>1. /\ pc = "idle" /\ routing' \in Leftovers \cup {NoInfo} /\ UNCHANGED <<link, stashed>>
    BY <1>2 DEF Begin
  <2>2. Leftovers \cup {NoInfo} \subseteq RoutingInfos
    <3>1. NoInfo \in RoutingInfos
      BY NoInfoTyped
    <3>2. [NoInfo EXCEPT !.at = Other] \in RoutingInfos
      BY <3>1 DEF RoutingInfos, Other
    <3>3. [at : {Other}, role : {"fallback"}, primary : {Nobody, Other}] \subseteq RoutingInfos
      BY DEF RoutingInfos, Nobody, Other
    <3> QED BY <3>1, <3>2, <3>3 DEF Leftovers
  <2>3. ~stashed /\ stashed \in BOOLEAN /\ link \in Nat
    BY <2>1 DEF PrimaryInv
  <2> QED BY <2>1, <2>2, <2>3 DEF PrimaryInv
<1>3. CASE PreRequestHook \/ Routed \/ Unresolved
  BY <1>1, <1>3 DEF PreRequestHook, Routed, Unresolved
<1>4. CASE NoQueue \/ TryRequest \/ PreProviderDone \/ PreProviderNil \/ PreLLMNil \/ Refused
           \/ CtxDone \/ Enqueue \/ PostLLMHook \/ Return \/ MessageChanPanics
  BY <1>1, <1>4 DEF NoQueue, TryRequest, PreProviderDone, PreProviderNil, PreLLMNil, Refused,
     CtxDone, Enqueue, PostLLMHook, Return, MessageChanPanics, Unanswered, Ended
<1>5. CASE PreProviderHook \/ PreLLMHook
  <2>1. UNCHANGED <<routing, stashed, link>>
    BY <1>5 DEF PreProviderHook, PreLLMHook, StreamShortCircuit, Ended
  <2>2. pc \in {"preProvider", "preLLM"} /\ pc' \in {pc, "post", "verdict"}
    BY <1>5 DEF PreProviderHook, PreLLMHook, Pass, ShortCircuit, StreamShortCircuit, Ended
  <2> QED BY <1>1, <2>1, <2>2
<1>6. CASE Streaming
  BY <1>6, StashCarries DEF Streaming, Ended
<1>7. CASE Answered
  BY <1>7, StashCarries DEF Answered
<1>8. CASE AfterFallback /\ Finish(Outcome)
  <2>1. pc' = "done" /\ UNCHANGED <<link, stashed>>
    BY <1>8 DEF Finish
  <2>4. routing' = SetFallbackRoutingInfo
    BY <1>8, <2>1 DEF AfterFallback, ToFallback
  <2>2. CASE routing' = routing
    BY <1>1, <2>1, <2>2
  <2>3. CASE routing' = [routing EXCEPT !.role = "fallback", !.primary = 0]
    <3>1. routing \in RoutingInfos
      BY DEF PrimaryInv
    <3>2. routing' = [at |-> routing.at, role |-> "fallback", primary |-> 0]
      BY <2>3, <3>1 DEF RoutingInfos
    <3>3. routing' \in RoutingInfos
      BY <3>1, <3>2 DEF RoutingInfos
    <3>4. routing'.role = "fallback" /\ routing'.primary = 0
      BY <2>3, <3>1 DEF RoutingInfos
    <3> QED BY <2>1, <3>4, <3>3 DEF PrimaryInv, Carries
  <2> QED BY <2>2, <2>3, <2>4 DEF SetFallbackRoutingInfo
<1>9. CASE AfterPrimary \/ (AfterFallback /\ ~Finish(Outcome)) \/ TryFallback \/ SkipFallback
           \/ Exhausted
  BY <1>1, <1>9 DEF AfterPrimary, AfterFallback, TryFallback, SkipFallback, Exhausted, Finish,
     ToFallback
<1>10. CASE Cancel \/ Quiet \/ UNCHANGED vars \/ \E a \in Admins : Change(a)
  <2>1. UNCHANGED <<pc, link, routing, stashed>>
    BY <1>10 DEF Cancel, Quiet, Change, ChangeBegin, LoadPlugins, CompareAndSwap, Cleanup,
       reqVars, vars
  <2> QED BY <1>1, <2>1
<1> QED
  BY <1>2, <1>3, <1>4, <1>5, <1>6, <1>7, <1>8, <1>9, <1>10 DEF Next, Routing, Attempt, Chain

\* The RoutingInfo of a stream: once the primary attempt has reached its
\* provider, each fallback that reaches its own names the primary, whatever the
\* context held before, however often links retry, fail or are skipped.
THEOREM PrimaryIsNamed == Spec => []PrimaryNamed
<1>1. Init => PrimaryInv
  <2> SUFFICES ASSUME Init PROVE PrimaryInv
    OBVIOUS
  <2>1. link \in Nat /\ routing \in RoutingInfos
    BY NoInfoTyped DEF Init
  <2>2. stashed = FALSE
    BY DEF Init
  <2> QED BY <2>1, <2>2 DEF PrimaryInv
<1>2. PrimaryInv /\ [Next]_vars => PrimaryInv'
  BY PrimaryNext
<1>3. PrimaryInv => PrimaryNamed
  BY DEF PrimaryInv, PrimaryNamed, Carries, RoutingInfos
<1> QED BY <1>1, <1>2, <1>3, PTL DEF Spec

(***************************************************************************)
(* A unary request is given a response or an error, unless a hook took     *)
(* both away.                                                              *)
(***************************************************************************)
Telling(o) == o.resp = TRUE \/ o.err # "none"

\* Every link the chain went past has returned an error, and what the last one
\* returned is what the hooks left.
AnswerInv ==
  /\ mode = "unary"
  /\ \A i \in DOMAIN trail :
       trail[i].err # "none" \/ (i = Len(trail) /\ pc \in {"verdict", "done", "panicked"})
  /\ pc = "verdict" => Telling(Outcome) \/ reply = Neither
  /\ AnswerNotEmpty

LEMMA TellingOutcomes ==
  /\ Telling(Ok) /\ Skipped.err # "none"
  /\ \A e \in ErrKinds : Telling(Failure(e))
  /\ \A r \in Outcomes : Telling(Final(r)) \/ r = Neither
BY DEF Telling, Ok, Neither, Skipped, Failure, Final, ErrKinds, Outcomes

\* An attempt returns r.
LEMMA EndedTells ==
  ASSUME ChainInv, AnswerInv, pc \in Attempting, NEW r \in Outcomes, Ended(r),
         Telling(r) \/ reply' = Neither, mode' = mode
  PROVE  AnswerInv'
<1>1. trail \in Seq(Outcomes \cup {Skipped})
  BY DEF ChainInv, TypeOK
<1>2. pc' = "verdict" /\ trail' = Append(trail, r)
  BY DEF Ended
<1>3. /\ Len(trail') = Len(trail) + 1 /\ trail'[Len(trail')] = r /\ Len(trail) \in Nat
      /\ DOMAIN trail' = 1..Len(trail') /\ DOMAIN trail = 1..Len(trail)
      /\ \A i \in DOMAIN trail : trail'[i] = trail[i]
  BY <1>1, <1>2
<1>4. \A i \in DOMAIN trail : trail[i].err # "none"
  BY DEF AnswerInv, Attempting
<1>5. \A i \in DOMAIN trail' : trail'[i].err # "none" \/ i = Len(trail')
  <2> TAKE i \in DOMAIN trail'
  <2>1. i \in DOMAIN trail \/ i = Len(trail')
    BY <1>3
  <2> QED BY <1>3, <1>4, <2>1
<1> QED BY <1>2, <1>3, <1>5 DEF AnswerInv, AnswerNotEmpty, Outcome, Telling

LEMMA AttemptTells == ASSUME ChainInv, AnswerInv, Attempt PROVE AnswerInv'
<1> USE DEF callVars, pipeVars, chainVars
<1>1. /\ mode = "unary" /\ reply \in Outcomes
      /\ Failure("plain") \in Outcomes /\ Telling(Failure("plain"))
      /\ Failure("cancelled") \in Outcomes /\ Telling(Failure("cancelled"))
  BY OutcomesHaveKinds, TellingOutcomes DEF ChainInv, TypeOK, AnswerInv, ErrKinds
<1>2. ASSUME pc \in Attempting, pc' \in Attempting \cup {"panicked"}, UNCHANGED <<mode, trail>>
      PROVE  AnswerInv'
  BY <1>2 DEF AnswerInv, AnswerNotEmpty, Attempting
<1>3. ASSUME NEW e \in {"plain", "cancelled"}, pc \in Attempting, Unanswered(e) PROVE AnswerInv'
  BY <1>1, <1>3, EndedTells DEF Unanswered
<1>4. CASE NoQueue
  <2>1. Ended(Failure("plain")) /\ UNCHANGED mode /\ pc \in Attempting
    BY <1>4 DEF NoQueue, Ended, Attempting
  <2> QED BY <1>1, <2>1, EndedTells
<1>5. CASE TryRequest \/ PreProviderDone \/ Enqueue \/ Answered \/ PostLLMHook \/ MessageChanPanics
  BY <1>2, <1>5 DEF TryRequest, PreProviderDone, Enqueue, Answered, PostLLMHook,
     MessageChanPanics, Attempting
<1>6. CASE PreProviderHook
  BY <1>2, <1>6 DEF PreProviderHook, Pass, ShortCircuit, Attempting
<1>7. CASE PreProviderNil \/ PreLLMNil \/ Refused \/ CtxDone
  BY <1>3, <1>7 DEF PreProviderNil, PreLLMNil, Refused, CtxDone, Attempting
<1>8. CASE PreLLMHook
  <2>1. pc = "preLLM" /\ UNCHANGED mode
    BY <1>8 DEF PreLLMHook
  <2>2. (Pass \/ ShortCircuit("llm", "llm")) /\ UNCHANGED chainVars
    BY <1>1, <1>8 DEF PreLLMHook, StreamShortCircuit
  <2>3. pc' \in {"preLLM", "post"}
    BY <2>1, <2>2 DEF Pass, ShortCircuit
  <2> QED BY <1>2, <2>1, <2>2, <2>3 DEF Attempting
<1>9. CASE Streaming
  BY <1>1, <1>9 DEF Streaming
<1>10. CASE Return
  <2>1. Ended(Final(reply)) /\ UNCHANGED <<mode, reply>> /\ pc \in Attempting
    BY <1>1, <1>10 DEF Return, Returned, Attempting
  <2>2. Final(reply) \in Outcomes /\ (Telling(Final(reply)) \/ reply' = Neither)
    BY <1>1, <2>1, TellingOutcomes, OutcomesHaveKinds
  <2> QED BY <2>1, <2>2, EndedTells
<1> QED
  BY <1>4, <1>5, <1>6, <1>7, <1>8, <1>9, <1>10 DEF Attempt

LEMMA ChainTells == ASSUME ChainInv, AnswerInv, Chain PROVE AnswerInv'
<1> USE DEF callVars, pipeVars, chainVars
<1>1. /\ trail \in Seq(Outcomes \cup {Skipped}) /\ link \in Nat /\ fallbacks \in Nat
      /\ DOMAIN trail = 1..Len(trail) /\ Len(trail) \in Nat
  BY RequestPathAssumption DEF ChainInv, TypeOK, Links
<1>2. pc \in {"verdict", "fallback"} => 1 \in DOMAIN trail
  <2>1. pc = "verdict" => Len(trail) >= 1
    BY <1>1 DEF ChainInv, ChainPlace
  <2>2. pc = "fallback" => Len(trail) >= 1
    BY <1>1 DEF ChainInv, ChainPlace
  <2> QED BY <1>1, <2>1, <2>2
<1>3. ASSUME pc = "verdict", Finish(Outcome) PROVE AnswerInv'
  BY <1>3 DEF Finish, AnswerInv, AnswerNotEmpty, Telling
<1>4. ASSUME pc = "verdict", Outcome.err # "none", ToFallback PROVE AnswerInv'
  <2>1. pc' = "fallback" /\ UNCHANGED <<mode, trail>>
    BY <1>4 DEF ToFallback
  <2> QED BY <1>4, <2>1 DEF AnswerInv, AnswerNotEmpty, Outcome
<1>5. CASE AfterPrimary
  <2>1. pc = "verdict" /\ (Finish(Outcome) \/ (ToFallback /\ Outcome.err # "none"))
    BY <1>5 DEF AfterPrimary, Decisive
  <2> QED BY <1>3, <1>4, <2>1
<1>6. CASE AfterFallback
  <2>1. /\ pc = "verdict"
        /\ \/ Finish(Outcome) \/ (ToFallback /\ Outcome.err # "none")
           \/ pc' = "panicked" /\ UNCHANGED <<mode, trail>>
    BY <1>6 DEF AfterFallback, Decisive
  <2>2. CASE pc' = "panicked" /\ UNCHANGED <<mode, trail>>
    BY <2>1, <2>2 DEF AnswerInv, AnswerNotEmpty
  <2> QED BY <1>3, <1>4, <2>1, <2>2
<1>7. CASE TryFallback
  BY <1>7 DEF TryFallback, AnswerInv, AnswerNotEmpty
<1>8. CASE SkipFallback
  <2>1. /\ trail' = Append(trail, Skipped) /\ UNCHANGED mode /\ pc = "fallback" /\ pc' = pc
    BY <1>8 DEF SkipFallback
  <2>2. /\ DOMAIN trail' = 1..(Len(trail) + 1) /\ trail'[Len(trail) + 1] = Skipped
        /\ \A i \in DOMAIN trail : trail'[i] = trail[i]
    BY <1>1, <2>1
  <2>3. \A i \in DOMAIN trail : trail[i].err # "none"
    BY <2>1 DEF AnswerInv
  <2>4. \A i \in DOMAIN trail' : trail'[i].err # "none"
    BY <1>1, <2>2, <2>3, TellingOutcomes
  <2> QED BY <2>1, <2>4 DEF AnswerInv, AnswerNotEmpty
<1>9. CASE Exhausted
  <2>1. pc = "fallback" /\ trail[1].err # "none"
    BY <1>2, <1>9 DEF Exhausted, AnswerInv
  <2>2. pc' = "done" /\ result' = trail[1] /\ UNCHANGED <<mode, trail, reply>>
    BY <1>9 DEF Exhausted, Finish
  <2> QED BY <2>1, <2>2 DEF AnswerInv, AnswerNotEmpty
<1> QED BY <1>5, <1>6, <1>7, <1>8, <1>9 DEF Chain

LEMMA AnswerNext ==
  ASSUME "stream" \notin Modes, ChainInv, AnswerInv, [Next]_vars
  PROVE  AnswerInv'
<1> USE DEF callVars, pipeVars, chainVars
<1>1. ASSUME UNCHANGED <<mode, reply, trail, result, pc>> PROVE AnswerInv'
  BY <1>1 DEF AnswerInv, AnswerNotEmpty, Outcome
<1>2. CASE Routing
  <2>1. pc \in {"idle", "preRequest"} /\ UNCHANGED trail
    BY <1>2 DEF Routing, Begin, PreRequestHook, Routed, Unresolved
  <2>2. trail = <<>>
    BY <2>1 DEF ChainInv, ChainPlace
  <2>3. mode' = "unary"
    BY <1>2, RequestPathAssumption
    DEF Routing, Begin, PreRequestHook, Routed, Unresolved, AnswerInv
  <2>4. /\ pc' \in {"preRequest", "attempt", "done"}
        /\ pc' = "done" => result' = Failure("plain")
    BY <1>2 DEF Routing, Begin, PreRequestHook, Routed, Unresolved
  <2>5. \A i \in DOMAIN trail' : trail'[i].err # "none"
    BY <2>1, <2>2
  <2> QED BY <2>3, <2>4, <2>5 DEF AnswerInv, AnswerNotEmpty, Failure
<1>3. CASE Attempt BY <1>3, AttemptTells
<1>4. CASE Chain BY <1>4, ChainTells
<1>5. CASE Cancel BY <1>1, <1>5 DEF Cancel
<1>6. CASE Quiet \/ UNCHANGED vars BY <1>1, <1>6 DEF Quiet, vars
<1>7. CASE \E a \in Admins : Change(a)
  <2>1. UNCHANGED reqVars
    BY <1>7 DEF Change, ChangeBegin, LoadPlugins, CompareAndSwap, Cleanup
  <2> QED BY <1>1, <2>1 DEF reqVars
<1> QED BY <1>2, <1>3, <1>4, <1>5, <1>6, <1>7 DEF Next

\* The caller of handleRequest is given a response or an error, whatever the
\* hooks recover from, invalidate or short-circuit, in any attempt of the chain,
\* unless the last hook itself returned neither.  Requests are unary here:
\* tryStreamRequest also returns neither once the error of a pre-provider
\* short-circuit has been recovered.
THEOREM UnaryAnswerNotEmpty == "stream" \notin Modes => (Spec => []AnswerNotEmpty)
<1> SUFFICES ASSUME "stream" \notin Modes PROVE Spec => []AnswerNotEmpty
  OBVIOUS
<1>1. Init => ChainInv /\ AnswerInv
  BY ChainInit DEF Init, AnswerInv, AnswerNotEmpty
<1>2. ChainInv /\ AnswerInv /\ [Next]_vars => (ChainInv /\ AnswerInv)'
  BY ChainNext, AnswerNext
<1>3. AnswerInv => AnswerNotEmpty
  BY DEF AnswerInv
<1> QED BY <1>1, <1>2, <1>3, PTL DEF Spec

(***************************************************************************)
(* The plugin list: RemovePlugin, ReloadPlugin and ReorderPlugins compute  *)
(* a new list from the one they read and install it by compare-and-swap.   *)
(***************************************************************************)
Lists == {l \in Seq(Plugins) : Unique(l)}

(***************************************************************************)
(* What a change makes of a list.                                          *)
(***************************************************************************)
LEMMA UniqueElements ==
  ASSUME NEW list \in Lists, NEW i \in DOMAIN list, NEW j \in DOMAIN list, list[i] = list[j]
  PROVE  i = j
BY DEF Lists, Unique

LEMMA ListRange ==
  ASSUME NEW list \in Lists
  PROVE  /\ DOMAIN list = 1..Len(list) /\ Len(list) \in Nat
         /\ \A i \in DOMAIN list : list[i] \in Plugins /\ list[i] \in Range(list)
         /\ \A p \in Range(list) : \E i \in DOMAIN list : p = list[i]
         /\ Range(list) \subseteq Plugins
BY DEF Lists, Range

\* ReloadPlugin of a new name.
LEMMA Appended ==
  ASSUME NEW list \in Lists, NEW p \in Plugins, \A q \in Range(list) : NameOf[q] # NameOf[p]
  PROVE  /\ Append(list, p) \in Lists /\ Len(Append(list, p)) = Len(list) + 1
         /\ Range(Append(list, p)) = Range(list) \cup {p}
<1> DEFINE new == Append(list, p)
<1>1. /\ new \in Seq(Plugins) /\ DOMAIN new = 1..(Len(list) + 1) /\ Len(new) = Len(list) + 1
      /\ \A i \in DOMAIN list : new[i] = list[i] /\ i \in DOMAIN new
      /\ new[Len(list) + 1] = p /\ Len(list) + 1 \in DOMAIN new
      /\ \A i \in DOMAIN new : i \in DOMAIN list \/ i = Len(list) + 1
  BY ListRange DEF Lists
<1> HIDE DEF new
<1>2. Unique(new)
  <2> SUFFICES ASSUME NEW i \in DOMAIN new, NEW j \in DOMAIN new, NameOf[new[i]] = NameOf[new[j]] PROVE i = j
    BY DEF Unique
  <2>1. CASE i \in DOMAIN list /\ j \in DOMAIN list BY <1>1, <2>1 DEF Lists, Unique
  <2>2. CASE i \in DOMAIN list /\ j = Len(list) + 1 BY <1>1, <2>2, ListRange
  <2>3. CASE j \in DOMAIN list /\ i = Len(list) + 1 BY <1>1, <2>3, ListRange
  <2> QED BY <1>1, <2>1, <2>2, <2>3
<1>3. Range(new) = Range(list) \cup {p}
  <2>1. \A i \in DOMAIN new : new[i] \in Range(list) \cup {p} BY <1>1, ListRange
  <2>2. p \in Range(new) /\ \A i \in DOMAIN list : list[i] \in Range(new) BY <1>1 DEF Range
  <2> QED BY <2>1, <2>2 DEF Range
<1> QED BY <1>1, <1>2, <1>3 DEF Lists, new

\* ReloadPlugin of a name that is listed: the instance at its place.
LEMMA Replaced ==
  ASSUME NEW list \in Lists, NEW p \in Plugins, NEW k \in DOMAIN list, NameOf[list[k]] = NameOf[p]
  PROVE  LET new == [i \in DOMAIN list |-> IF NameOf[list[i]] = NameOf[p] THEN p ELSE list[i]]
         IN  /\ new \in Lists /\ Len(new) = Len(list)
             /\ Range(new) = (Range(list) \ {list[k]}) \cup {p}
<1> DEFINE new == [i \in DOMAIN list |-> IF NameOf[list[i]] = NameOf[p] THEN p ELSE list[i]]
<1>1. \A i \in DOMAIN list : NameOf[list[i]] = NameOf[p] <=> i = k BY DEF Lists, Unique
<1>2. \A i \in DOMAIN list : new[i] = (IF i = k THEN p ELSE list[i]) /\ NameOf[new[i]] = NameOf[list[i]]
  BY <1>1
<1>3. DOMAIN new = DOMAIN list /\ new \in Seq(Plugins) /\ Len(new) = Len(list)
  BY ListRange
<1> HIDE DEF new
<1>4. Unique(new) BY <1>2, <1>3 DEF Unique, Lists
<1>5. \A i \in DOMAIN list : i # k => list[i] # list[k] BY DEF Lists, Unique
<1>6. Range(new) = (Range(list) \ {list[k]}) \cup {p} BY <1>2, <1>3, <1>5 DEF Range
<1> QED BY <1>3, <1>4, <1>6 DEF Lists, new

\* RemovePlugin of a name that is listed.
LEMMA Removed ==
  ASSUME NEW list \in Lists, NEW k \in DOMAIN list
  PROVE  RemoveAt(list, k) \in Lists /\ Range(RemoveAt(list, k)) = Range(list) \ {list[k]}
<1> DEFINE new == RemoveAt(list, k)
<1>1. /\ new \in Seq(Plugins) /\ Len(new) = Len(list) - 1
      /\ \A i \in 1..(Len(list) - 1) : new[i] = list[IF i < k THEN i ELSE i + 1]
  <2> DEFINE one == SubSeq(list, 1, k - 1)   two == SubSeq(list, k + 1, Len(list))
  <2>1. k \in 1..Len(list) /\ Len(list) \in Nat /\ list \in Seq(Plugins) BY ListRange DEF Lists
  <2>2. one \in Seq(Plugins) /\ Len(one) = k - 1 /\ \A i \in 1..(k - 1) : one[i] = list[i] BY <2>1
  <2>3. /\ two \in Seq(Plugins) /\ Len(two) = Len(list) - k
        /\ \A i \in 1..(Len(list) - k) : two[i] = list[k + i]
    BY <2>1
  <2>4. new = one \o two BY DEF RemoveAt
  <2> HIDE DEF one, two, new
  <2>5. new \in Seq(Plugins) /\ Len(new) = Len(one) + Len(two) BY <2>2, <2>3, <2>4, ConcatProperties
  <2>6. ASSUME NEW i \in 1..(Len(list) - 1) PROVE new[i] = list[IF i < k THEN i ELSE i + 1]
    <3>1. CASE i < k BY <2>1, <2>2, <2>3, <2>4, <3>1
    <3>2. CASE ~(i < k)
      <4>1. new[i] = two[i - (k - 1)] BY <2>1, <2>2, <2>3, <2>4, <3>2, SMTT(60)
      <4>2. i - (k - 1) \in 1..(Len(list) - k) /\ k + (i - (k - 1)) = i + 1 BY <2>1, <3>2
      <4> QED BY <2>3, <3>2, <4>1, <4>2
    <3> QED BY <3>1, <3>2
  <2> QED BY <2>1, <2>2, <2>3, <2>5, <2>6
<1>2. DOMAIN new = 1..(Len(list) - 1) BY <1>1
<1> HIDE DEF new
<1>3. \A i \in DOMAIN new : (IF i < k THEN i ELSE i + 1) \in DOMAIN list BY <1>2, ListRange
<1>4. Unique(new)
  <2> SUFFICES ASSUME NEW i \in DOMAIN new, NEW j \in DOMAIN new, NameOf[new[i]] = NameOf[new[j]] PROVE i = j
    BY DEF Unique
  <2>1. (IF i < k THEN i ELSE i + 1) = (IF j < k THEN j ELSE j + 1)
    BY <1>1, <1>2, <1>3 DEF Lists, Unique
  <2> QED BY <1>2, <2>1, ListRange
<1>5. Range(new) = Range(list) \ {list[k]}
  <2>1. ASSUME NEW i \in DOMAIN new PROVE new[i] \in Range(list) \ {list[k]}
    <3>1. new[i] = list[IF i < k THEN i ELSE i + 1] BY <1>1, <1>2
    <3>2. (IF i < k THEN i ELSE i + 1) # k BY <1>2, ListRange
    <3> QED BY <1>3, <3>1, <3>2, UniqueElements, ListRange
  <2>2. ASSUME NEW j \in DOMAIN list, j # k PROVE list[j] \in Range(new)
    <3>1. PICK i \in DOMAIN new : j = (IF i < k THEN i ELSE i + 1)
      <4>1. CASE j < k BY <4>1, <1>2, ListRange
      <4>2. CASE j > k
        <5>1. j - 1 \in DOMAIN new /\ ~(j - 1 < k) BY <4>2, <1>2, ListRange
        <5> QED BY <5>1, ListRange
      <4> QED BY <2>2, <4>1, <4>2, ListRange
    <3> QED BY <1>1, <1>2, <3>1 DEF Range
  <2> QED BY <2>1, <2>2 DEF Range
<1> QED BY <1>1, <1>4, <1>5 DEF Lists, new

\* ReorderPlugins: where an instance goes.
Named(order, x) == \E i \in DOMAIN order : order[i] = NameOf[x]

LEMMA PositionNamed ==
  ASSUME NEW list \in Lists, NEW order, order \in Seq(Range(order)), NEW x \in Range(list), Named(order, x)
  PROVE  Position(list, order, x) \in 1..Len(order) /\ order[Position(list, order, x)] = NameOf[x]
<1>1. PICK i \in DOMAIN order : order[i] = NameOf[x] BY DEF Named
<1>2. Position(list, order, x) = CHOOSE j \in DOMAIN order : order[j] = NameOf[x] BY DEF Position, Named
<1> QED BY <1>1, <1>2

LEMMA PositionUnnamed ==
  ASSUME NEW list \in Lists, NEW order, NEW x \in Range(list), ~Named(order, x)
  PROVE  \E i \in 1..Len(list) : Position(list, order, x) = Len(order) + i /\ list[i] = x
<1>1. PICK i \in DOMAIN list : list[i] = x BY ListRange
<1>2. Position(list, order, x) = Len(order) + (CHOOSE j \in DOMAIN list : list[j] = x) BY DEF Position, Named
<1>3. (CHOOSE j \in DOMAIN list : list[j] = x) \in DOMAIN list /\ list[CHOOSE j \in DOMAIN list : list[j] = x] = x
  BY <1>1
<1> QED BY <1>2, <1>3, ListRange

LEMMA PositionIsNat ==
  ASSUME NEW list \in Lists, NEW order, order \in Seq(Range(order)), NEW p \in Range(list)
  PROVE  Position(list, order, p) \in Nat
<1>1. CASE Named(order, p)
  <2>1. Position(list, order, p) \in 1..Len(order) BY <1>1, PositionNamed
  <2> QED BY <2>1
<1>2. CASE ~Named(order, p)
  <2>1. PICK i \in 1..Len(list) : Position(list, order, p) = Len(order) + i BY <1>2, PositionUnnamed
  <2> QED BY <2>1, ListRange
<1> QED BY <1>1, <1>2

\* The positions differ.
LEMMA PositionsDiffer ==
  ASSUME NEW list \in Lists, NEW order, order \in Seq(Range(order)), NEW p \in Range(list), NEW q \in Range(list), p # q
  PROVE  Position(list, order, p) # Position(list, order, q)
<1>1. Len(order) \in Nat /\ Len(list) \in Nat BY ListRange
<1>2. NameOf[p] # NameOf[q]
  <2>1. PICK i \in DOMAIN list, j \in DOMAIN list : list[i] = p /\ list[j] = q BY ListRange
  <2> QED BY <2>1 DEF Lists, Unique
<1>3. CASE Named(order, p) /\ Named(order, q) BY PositionNamed, <1>1, <1>2, <1>3
<1>4. CASE Named(order, p) /\ ~Named(order, q)
  <2>1. PICK i \in 1..Len(list) : Position(list, order, q) = Len(order) + i BY PositionUnnamed, <1>4
  <2>2. Position(list, order, p) \in 1..Len(order) BY PositionNamed, <1>4
  <2> QED BY <1>1, <2>1, <2>2
<1>5. CASE ~Named(order, p) /\ Named(order, q)
  <2>1. PICK i \in 1..Len(list) : Position(list, order, p) = Len(order) + i BY PositionUnnamed, <1>5
  <2>2. Position(list, order, q) \in 1..Len(order) BY PositionNamed, <1>5
  <2> QED BY <1>1, <2>1, <2>2
<1>6. CASE ~Named(order, p) /\ ~Named(order, q)
  <2>1. PICK i \in 1..Len(list) : Position(list, order, p) = Len(order) + i /\ list[i] = p BY PositionUnnamed, <1>6
  <2>2. PICK j \in 1..Len(list) : Position(list, order, q) = Len(order) + j /\ list[j] = q BY PositionUnnamed, <1>6
  <2> QED BY <1>1, <2>1, <2>2
<1> QED BY <1>3, <1>4, <1>5, <1>6

\* The instances that precede p, as Reordered counts them.
Before(list, order, p) == {q \in Range(list) : Precedes(list, order, q, p)}

LEMMA RangeCount ==
  ASSUME NEW list \in Lists
  PROVE  IsFiniteSet(Range(list)) /\ Cardinality(Range(list)) = Len(list)
<1>1. IsFiniteSet(1..Len(list)) /\ Cardinality(1..Len(list)) = Len(list)
  <2>1. 1 \in Int /\ Len(list) \in Int /\ Len(list) >= 0 BY ListRange
  <2>2. /\ IsFiniteSet(1..Len(list))
        /\ Cardinality(1..Len(list)) = IF 1 > Len(list) THEN 0 ELSE Len(list) - 1 + 1
    BY <2>1, FS_Interval
  <2> QED BY <2>1, <2>2
<1>2. list \in Surjection(1..Len(list), Range(list)) /\ list \in Injection(1..Len(list), Range(list))
  <2>1. list \in [1..Len(list) -> Range(list)] BY ListRange DEF Lists
  <2>2. IsInjective(list) BY UniqueElements DEF IsInjective
  <2> QED BY <2>1, <2>2, ListRange DEF Surjection, Injection
<1> QED BY <1>1, <1>2, FS_Surjection

LEMMA RankGrows ==
  ASSUME NEW list \in Lists, NEW order, order \in Seq(Range(order)), NEW p \in Range(list), NEW q \in Range(list),
         Precedes(list, order, q, p)
  PROVE  Cardinality(Before(list, order, q)) < Cardinality(Before(list, order, p))
<1> DEFINE P == Before(list, order, p)   Q == Before(list, order, q)
<1>1. \A x \in Range(list) : Position(list, order, x) \in Nat BY PositionIsNat
<1>2. Q \in SUBSET P /\ q \in P /\ q \notin Q BY <1>1 DEF Before, Precedes
<1>3. P \in SUBSET Range(list) /\ IsFiniteSet(P) BY RangeCount, FS_Subset DEF Before
<1>4. IsFiniteSet(Q) /\ Cardinality(Q) <= Cardinality(P) /\ Cardinality(P) # Cardinality(Q)
  BY <1>2, <1>3, FS_Subset
<1>5. Cardinality(P) \in Nat /\ Cardinality(Q) \in Nat BY <1>3, <1>4, FS_CardinalityType
<1> QED BY <1>4, <1>5

LEMMA Ranks ==
  ASSUME NEW list \in Lists, NEW order, order \in Seq(Range(order))
  PROVE  /\ \A p \in Range(list) : Cardinality(Before(list, order, p)) \in 0..(Len(list) - 1)
         /\ \A p, q \in Range(list) :
              Cardinality(Before(list, order, p)) = Cardinality(Before(list, order, q)) => p = q
         /\ \A i \in 0..(Len(list) - 1) : \E p \in Range(list) : Cardinality(Before(list, order, p)) = i
<1> DEFINE R == Range(list)   n == Len(list)
           rank == [p \in R |-> Cardinality(Before(list, order, p))]
<1>1. ASSUME NEW p \in R PROVE Cardinality(Before(list, order, p)) \in 0..(n - 1)
  <2>1. p \notin Before(list, order, p) BY PositionIsNat DEF Before, Precedes
  <2>2. Before(list, order, p) \in SUBSET (R \ {p}) BY <2>1 DEF Before
  <2>3. IsFiniteSet(R \ {p}) /\ Cardinality(R \ {p}) = n - 1 BY RangeCount, FS_RemoveElement
  <2>4. IsFiniteSet(Before(list, order, p)) /\ Cardinality(Before(list, order, p)) <= n - 1
    BY <2>2, <2>3, FS_Subset
  <2>5. Cardinality(Before(list, order, p)) \in Nat BY <2>4, FS_CardinalityType
  <2> QED BY <2>4, <2>5, ListRange
<1>2. ASSUME NEW p \in R, NEW q \in R, p # q
      PROVE  Cardinality(Before(list, order, p)) # Cardinality(Before(list, order, q))
  <2>1. Precedes(list, order, p, q) \/ Precedes(list, order, q, p) BY <1>2, PositionIsNat, PositionsDiffer DEF Precedes
  <2>2. Cardinality(Before(list, order, p)) \in Int /\ Cardinality(Before(list, order, q)) \in Int BY <1>1
  <2> QED BY <2>1, <2>2, RankGrows
<1>3. rank \in Injection(R, 0..(n - 1)) BY <1>1, <1>2 DEF Injection, IsInjective
<1>4. IsFiniteSet(0..(n - 1)) /\ Cardinality(0..(n - 1)) = n
  <2>1. 0 \in Int /\ n - 1 \in Int /\ n \in Int /\ n >= 0 BY ListRange
  <2>2. /\ IsFiniteSet(0..(n - 1))
        /\ Cardinality(0..(n - 1)) = IF 0 > n - 1 THEN 0 ELSE (n - 1) - 0 + 1
    BY <2>1, FS_Interval
  <2> QED BY <2>1, <2>2
<1>5. rank \in Surjection(R, 0..(n - 1)) BY <1>3, <1>4, RangeCount, FS_Injection
<1> QED BY <1>1, <1>2, <1>5 DEF Surjection

LEMMA ReorderedList ==
  ASSUME NEW list \in Lists, NEW order, order \in Seq(Range(order))
  PROVE  /\ Reordered(list, order) \in Lists /\ Len(Reordered(list, order)) = Len(list)
         /\ Range(Reordered(list, order)) = Range(list)
<1> DEFINE R == Range(list)   n == Len(list)   new == Reordered(list, order)
<1>1. ASSUME NEW i \in DOMAIN list
      PROVE  new[i] \in R /\ Cardinality(Before(list, order, new[i])) = i - 1
  <2>1. i - 1 \in 0..(n - 1) BY ListRange
  <2>2. PICK p \in R : Cardinality(Before(list, order, p)) = i - 1 BY <2>1, Ranks
  <2>3. new[i] = CHOOSE x \in R : Cardinality(Before(list, order, x)) = i - 1 BY DEF Reordered, Before
  <2> QED BY <2>2, <2>3
<1>2. DOMAIN new = DOMAIN list BY DEF Reordered
<1>3. new \in [1..n -> Plugins]
  <2>1. \A i \in DOMAIN list : new[i] \in Plugins BY <1>1, ListRange
  <2> DEFINE At(i) == CHOOSE p \in R : Cardinality({q \in R : Precedes(list, order, q, p)}) = i - 1
  <2>2. new = [i \in DOMAIN list |-> At(i)] BY DEF Reordered
  <2> HIDE DEF new, At
  <2> QED BY <2>1, <2>2, ListRange
<1> HIDE DEF new
<1>4. new \in Seq(Plugins) /\ Len(new) = n BY <1>3, ListRange
<1>5. \A i, j \in DOMAIN new : new[i] = new[j] => i = j
  <2> TAKE i, j \in DOMAIN new
  <2>1. i \in Int /\ j \in Int BY <1>2, ListRange
  <2> QED BY <1>1, <1>2, <2>1
<1>6. Unique(new)
  <2> SUFFICES ASSUME NEW i \in DOMAIN new, NEW j \in DOMAIN new, NameOf[new[i]] = NameOf[new[j]] PROVE i = j
    BY DEF Unique
  <2>1. PICK k \in DOMAIN list, m \in DOMAIN list : list[k] = new[i] /\ list[m] = new[j]
    BY <1>1, <1>2, ListRange
  <2>2. k = m BY <2>1 DEF Lists, Unique
  <2> QED BY <1>5, <2>1, <2>2
<1>7. Range(new) = R
  <2>1. Range(new) \subseteq R BY <1>1, <1>2 DEF Range
  <2>2. ASSUME NEW p \in R PROVE p \in Range(new)
    <3>1. PICK i \in DOMAIN list : i = Cardinality(Before(list, order, p)) + 1 BY Ranks, ListRange
    <3>2. Cardinality(Before(list, order, p)) = i - 1 BY <3>1, Ranks
    <3>3. p = new[i] BY <1>1, <3>2, Ranks
    <3> QED BY <1>2, <3>3 DEF Range
  <2> QED BY <2>1, <2>2
<1> QED BY <1>4, <1>6, <1>7 DEF Lists, new

Added(c) == IF c.kind = "reload" THEN {c.arg} ELSE {}

\* A change takes out what it displaces, puts in what it brings, and nothing else.
LEMMA ChangedList ==
  ASSUME NEW list \in Lists, NEW c \in Changes, c.kind = "remove" => Displaced(list, c) # {}
  PROVE  /\ Changed(list, c) \in Lists
         /\ Range(Changed(list, c)) = (Range(list) \ Displaced(list, c)) \cup Added(c)
         /\ c.kind # "remove" => Len(Changed(list, c)) >= Len(list)
<1>0. Len(list) \in Nat /\ c.kind \in {"remove", "reload", "reorder"} BY ListRange DEF Changes
<1>1. CASE c.kind = "remove"
  <2> DEFINE k == CHOOSE i \in DOMAIN list : NameOf[list[i]] = c.arg
  <2>1. Displaced(list, c) = {p \in Range(list) : NameOf[p] = c.arg} BY <1>1 DEF Displaced, TargetName
  <2>2. \E i \in DOMAIN list : NameOf[list[i]] = c.arg BY <1>1, <2>1, ListRange
  <2>3. k \in DOMAIN list /\ NameOf[list[k]] = c.arg BY <2>2
  <2>4. Changed(list, c) = RemoveAt(list, k) BY <1>1 DEF Changed
  <2> HIDE DEF k
  <2>5. Displaced(list, c) = {list[k]}
    <3>1. \A i \in DOMAIN list : NameOf[list[i]] = c.arg => i = k BY <2>3 DEF Lists, Unique
    <3> QED BY <2>1, <2>3, <3>1, ListRange
  <2>6. Added(c) = {} BY <1>1 DEF Added
  <2> QED BY <1>1, <2>3, <2>4, <2>5, <2>6, Removed
<1>2. CASE c.kind = "reorder"
  <2>1. c.arg \in Seq(Range(c.arg)) BY <1>2, RequestPathAssumption DEF Changes
  <2>2. Changed(list, c) = Reordered(list, c.arg) /\ Displaced(list, c) = {} /\ Added(c) = {}
    BY <1>2 DEF Changed, Displaced, Added
  <2> QED BY <1>0, <2>1, <2>2, ReorderedList
<1>3. CASE c.kind = "reload"
  <2>1. c.arg \in Plugins /\ Added(c) = {c.arg} BY <1>3, RequestPathAssumption DEF Changes, Added
  <2>2. Displaced(list, c) = {p \in Range(list) : NameOf[p] = NameOf[c.arg]} BY <1>3 DEF Displaced, TargetName
  <2>3. CASE Displaced(list, c) = {}
    <3>1. Changed(list, c) = Append(list, c.arg) BY <1>3, <2>3 DEF Changed
    <3>2. \A q \in Range(list) : NameOf[q] # NameOf[c.arg] BY <2>2, <2>3
    <3> QED BY <1>0, <2>1, <2>3, <3>1, <3>2, Appended
  <2>4. CASE Displaced(list, c) # {}
    <3>1. PICK k \in DOMAIN list : NameOf[list[k]] = NameOf[c.arg] BY <2>2, <2>4, ListRange
    <3>2. Changed(list, c) = [i \in DOMAIN list |-> IF NameOf[list[i]] = NameOf[c.arg] THEN c.arg ELSE list[i]]
      BY <1>3, <2>4 DEF Changed, TargetName
    <3>3. Displaced(list, c) = {list[k]}
      <4>1. \A i \in DOMAIN list : NameOf[list[i]] = NameOf[c.arg] => i = k BY <3>1 DEF Lists, Unique
      <4> QED BY <2>2, <3>1, <4>1, ListRange
    <3> QED BY <1>0, <2>1, <3>1, <3>2, <3>3, Replaced
  <2> QED BY <2>3, <2>4
<1> QED BY <1>0, <1>1, <1>2, <1>3

(***************************************************************************)
(* The inductive invariant of the changes.                                 *)
(***************************************************************************)
\* a has the new instance p in hand, and has displaced the instances of Dropped(a).
Pending(a, p) == apc[a] \in {"load", "swap"} /\ op[a] = [kind |-> "reload", arg |-> p]
Dropped(a) == IF apc[a] = "cleanup" THEN Displaced(seen[a].list, op[a]) ELSE {}

RegType ==
  /\ llmPlugins \in [at : Nat, list : Lists]
  /\ apc \in [Admins -> {"idle", "load", "swap", "cleanup"}]
  /\ op \in [Admins -> Changes \cup {NoChange}] /\ \A a \in Admins : apc[a] # "idle" => op[a] \in Changes
  /\ seen \in [Admins -> [at : Nat, list : Lists]]
  /\ fresh \subseteq Reloads

\* A slice with the pointer's identity is the slice it points to; a removal that
\* found nothing has returned.
SeenInv ==
  \A a \in Admins :
    /\ seen[a].at <= llmPlugins.at
    /\ seen[a].at = llmPlugins.at => seen[a].list = llmPlugins.list
    /\ apc[a] = "swap" /\ op[a].kind = "remove" => Displaced(seen[a].list, op[a]) # {}

Listed == Range(llmPlugins.list)

\* An instance is new, in one caller's hand, listed, or displaced for good.
Apart ==
  /\ Listed \cap cleaned = {} /\ Listed \cap fresh = {} /\ cleaned \cap fresh = {}
  /\ \A a \in Admins, p \in Plugins : Pending(a, p) => p \notin Listed \cup cleaned \cup fresh
  /\ \A a, b \in Admins, p \in Plugins : Pending(a, p) /\ Pending(b, p) => a = b
  /\ \A a \in Admins : Dropped(a) \cap (Listed \cup fresh) = {}
  /\ \A a, b \in Admins, p \in Plugins : Pending(b, p) => p \notin Dropped(a)

RegInv == RegType /\ SeenInv /\ Apart /\ NoInstanceLost

RequestStep == Routing \/ Attempt \/ Chain \/ Cancel \/ Quiet

LEMMA RequestLeavesList == RequestStep \/ UNCHANGED vars => UNCHANGED <<regVars, admVars>>
<1>1. Routing => UNCHANGED <<regVars, admVars>>
  BY DEF Routing, Begin, PreRequestHook, Routed, Unresolved
<1>2. Attempt => UNCHANGED <<regVars, admVars>>
  BY DEF Attempt, NoQueue, TryRequest, PreProviderHook, PreProviderDone, PreProviderNil, PreLLMHook,
         PreLLMNil, Refused, CtxDone, Enqueue, Streaming, Answered, PostLLMHook, Return,
         MessageChanPanics, Unanswered
<1>3. Chain => UNCHANGED <<regVars, admVars>>
  BY DEF Chain, AfterPrimary, AfterFallback, TryFallback, SkipFallback, Exhausted, Finish, ToFallback
<1>4. Cancel \/ Quiet \/ UNCHANGED vars => UNCHANGED <<regVars, admVars>> BY DEF Cancel, Quiet, vars
<1> QED BY <1>1, <1>2, <1>3, <1>4 DEF RequestStep

LEMMA RegUnchanged == RegInv /\ UNCHANGED <<regVars, admVars>> => RegInv'
<1> SUFFICES ASSUME RegInv, UNCHANGED <<regVars, admVars>> PROVE RegInv'
  OBVIOUS
<1>1. UNCHANGED <<llmPlugins, cleaned, fresh, apc, op, seen>> BY DEF regVars, admVars
<1>2. /\ Listed' = Listed /\ \A a \in Admins : Dropped(a)' = Dropped(a)
      /\ \A a \in Admins, p \in Plugins : Pending(a, p)' = Pending(a, p)
  BY <1>1 DEF Listed, Dropped, Pending
<1>3. RegType' /\ SeenInv' BY <1>1 DEF RegInv, RegType, SeenInv
<1>4. Apart' BY <1>1, <1>2 DEF RegInv, Apart
<1>5. NoInstanceLost' BY <1>1 DEF RegInv, NoInstanceLost
<1> QED BY <1>3, <1>4, <1>5 DEF RegInv

LEMMA DisplacedPlugins ==
  ASSUME NEW list \in Lists, NEW c PROVE Displaced(list, c) \subseteq Range(list)
BY DEF Displaced

LEMMA BeginStep == ASSUME RegInv, NEW a \in Admins, NEW c \in Changes, ChangeBegin(a, c) PROVE RegInv'
<1>1. /\ apc[a] = "idle" /\ (c.kind = "reload" => c.arg \in fresh)
      /\ fresh' = (IF c.kind = "reload" THEN fresh \ {c.arg} ELSE fresh)
      /\ apc' = [apc EXCEPT ![a] = "load"] /\ op' = [op EXCEPT ![a] = c]
      /\ UNCHANGED <<llmPlugins, cleaned, seen>>
  BY DEF ChangeBegin
<1>2. RegType /\ SeenInv /\ Apart /\ NoInstanceLost BY DEF RegInv
<1>3. RegType' BY <1>1, <1>2 DEF RegType
<1>4. SeenInv' BY <1>1, <1>2 DEF RegType, SeenInv
<1>5. Listed' = Listed /\ fresh' \subseteq fresh BY <1>1 DEF Listed
<1>6. \A b \in Admins : Dropped(b)' = Dropped(b) BY <1>1, <1>2 DEF Dropped, RegType
<1>7. \A b \in Admins, p \in Plugins :
        Pending(b, p)' => Pending(b, p) \/ (b = a /\ p \in fresh /\ p \notin fresh')
  BY <1>1, <1>2 DEF Pending, RegType, Changes
<1>8. \A p \in Plugins : ~Pending(a, p) BY <1>1 DEF Pending
<1>9. Apart'
  <2>1. Listed' \cap cleaned' = {} /\ Listed' \cap fresh' = {} /\ cleaned' \cap fresh' = {}
    BY <1>1, <1>2, <1>5 DEF Apart
  <2>2. \A b \in Admins, p \in Plugins : Pending(b, p)' => p \notin Listed' \cup cleaned' \cup fresh'
    BY <1>1, <1>2, <1>5, <1>7 DEF Apart
  <2>3. \A x, y \in Admins, p \in Plugins : Pending(x, p)' /\ Pending(y, p)' => x = y
    BY <1>2, <1>7, <1>8 DEF Apart
  <2>4. \A b \in Admins : Dropped(b)' \cap (Listed' \cup fresh') = {}
    BY <1>2, <1>5, <1>6 DEF Apart
  <2>5. \A x, y \in Admins, p \in Plugins : Pending(y, p)' => p \notin Dropped(x)'
    BY <1>2, <1>6, <1>7 DEF Apart
  <2> QED BY <2>1, <2>2, <2>3, <2>4, <2>5 DEF Apart
<1>10. NoInstanceLost'
  <2> SUFFICES ASSUME NEW p \in Range(InitPlugins) \cup (Reloads \ fresh')
               PROVE  \/ p \in Range(llmPlugins'.list) \cup cleaned'
                      \/ \E b \in Admins :
                           \/ apc'[b] = "cleanup" /\ p \in Displaced(seen'[b].list, op'[b])
                           \/ apc'[b] \in {"load", "swap"} /\ op'[b] = [kind |-> "reload", arg |-> p]
    BY DEF NoInstanceLost
  <2>1. CASE p \in Range(InitPlugins) \cup (Reloads \ fresh)
    <3>1. CASE p \in Range(llmPlugins.list) \cup cleaned BY <1>1, <3>1
    <3>2. ASSUME NEW b \in Admins,
                 \/ apc[b] = "cleanup" /\ p \in Displaced(seen[b].list, op[b])
                 \/ apc[b] \in {"load", "swap"} /\ op[b] = [kind |-> "reload", arg |-> p]
          PROVE  \/ apc'[b] = "cleanup" /\ p \in Displaced(seen'[b].list, op'[b])
                 \/ apc'[b] \in {"load", "swap"} /\ op'[b] = [kind |-> "reload", arg |-> p]
      <4>1. b # a BY <1>1, <3>2
      <4>2. apc'[b] = apc[b] /\ op'[b] = op[b] /\ seen' = seen BY <1>1, <1>2, <4>1 DEF RegType
      <4> QED BY <3>2, <4>2
    <3> QED BY <1>2, <2>1, <3>1, <3>2 DEF NoInstanceLost
  <2>2. CASE p \in fresh /\ p \notin fresh'
    <3>1. c = [kind |-> "reload", arg |-> p] BY <1>1, <2>2 DEF Changes
    <3> QED BY <1>1, <1>2, <3>1 DEF RegType
  <2> QED BY <2>1, <2>2
<1> QED BY <1>3, <1>4, <1>9, <1>10 DEF RegInv

\* An instance is listed, displaced for good, or in somebody's hand.
Held(p) == p \in Listed \cup cleaned \/ \E a \in Admins : p \in Dropped(a) \/ Pending(a, p)

LEMMA LostAsHeld == NoInstanceLost <=> \A p \in Range(InitPlugins) \cup (Reloads \ fresh) : Held(p)
<1>1. \A p : \A a \in Admins : p \in Dropped(a) <=> apc[a] = "cleanup" /\ p \in Displaced(seen[a].list, op[a])
  BY DEF Dropped
<1> QED BY <1>1 DEF NoInstanceLost, Held, Listed, Pending

LEMMA LostAsHeldNext ==
  NoInstanceLost' <=> \A p \in Range(InitPlugins) \cup (Reloads \ fresh') : Held(p)'
<1>1. \A p : \A a \in Admins : p \in Dropped(a)' <=> apc'[a] = "cleanup" /\ p \in Displaced(seen'[a].list, op'[a])
  BY DEF Dropped
<1> QED BY <1>1 DEF NoInstanceLost, Held, Listed, Pending

LEMMA LoadStep == ASSUME RegInv, NEW a \in Admins, LoadPlugins(a) PROVE RegInv'
<1>1. RegType /\ SeenInv /\ Apart /\ NoInstanceLost BY DEF RegInv
<1>2. /\ apc[a] = "load" /\ seen' = [seen EXCEPT ![a] = llmPlugins]
      /\ UNCHANGED <<llmPlugins, cleaned, fresh, op>>
      /\ \/ apc' = [apc EXCEPT ![a] = "idle"] /\ op[a].kind # "reload"
         \/ /\ apc' = [apc EXCEPT ![a] = "swap"]
            /\ op[a].kind = "remove" => Displaced(llmPlugins.list, op[a]) # {}
  BY DEF LoadPlugins, regVars
<1>3. RegType' BY <1>1, <1>2 DEF RegType
<1>4. SeenInv'
  <2> SUFFICES ASSUME NEW b \in Admins
               PROVE  /\ seen'[b].at <= llmPlugins'.at
                      /\ seen'[b].at = llmPlugins'.at => seen'[b].list = llmPlugins'.list
                      /\ apc'[b] = "swap" /\ op'[b].kind = "remove" => Displaced(seen'[b].list, op'[b]) # {}
    BY DEF SeenInv
  <2>1. CASE b = a
    <3>1. seen'[a] = llmPlugins /\ llmPlugins.at \in Nat BY <1>1, <1>2 DEF RegType
    <3>2. apc'[a] = "swap" /\ op[a].kind = "remove" => Displaced(llmPlugins.list, op[a]) # {}
      BY <1>1, <1>2 DEF RegType
    <3> QED BY <1>2, <2>1, <3>1, <3>2
  <2>2. CASE b # a
    <3>1. seen'[b] = seen[b] /\ apc'[b] = apc[b] BY <1>1, <1>2, <2>2 DEF RegType
    <3> QED BY <1>1, <1>2, <3>1 DEF SeenInv
  <2> QED BY <2>1, <2>2
<1>5. Listed' = Listed /\ \A b \in Admins : Dropped(b)' = Dropped(b)
  BY <1>1, <1>2 DEF Listed, Dropped, RegType
<1>6. \A b \in Admins, p \in Plugins : Pending(b, p)' <=> Pending(b, p)
  BY <1>1, <1>2 DEF Pending, RegType
<1>7. Apart' BY <1>1, <1>2, <1>5, <1>6 DEF Apart
<1>8. \A p \in Plugins : Held(p) => Held(p)' BY <1>2, <1>5, <1>6 DEF Held
<1>9. Range(InitPlugins) \cup Reloads \subseteq Plugins BY RequestPathAssumption DEF Range
<1>10. NoInstanceLost' BY <1>1, <1>2, <1>8, <1>9, LostAsHeld, LostAsHeldNext
<1> QED BY <1>3, <1>4, <1>7, <1>10 DEF RegInv

LEMMA CleanupStep == ASSUME RegInv, NEW a \in Admins, Cleanup(a) PROVE RegInv'
<1>1. RegType /\ SeenInv /\ Apart /\ NoInstanceLost BY DEF RegInv
<1>2. /\ apc[a] = "cleanup" /\ cleaned' = cleaned \cup Dropped(a)
      /\ apc' = [apc EXCEPT ![a] = "idle"] /\ UNCHANGED <<llmPlugins, fresh, op, seen>>
  BY DEF Cleanup, Dropped
<1>3. RegType' BY <1>1, <1>2 DEF RegType
<1>4. SeenInv' BY <1>1, <1>2 DEF RegType, SeenInv
<1>5. /\ Listed' = Listed /\ Dropped(a)' = {}
      /\ \A b \in Admins \ {a} : Dropped(b)' = Dropped(b)
  BY <1>1, <1>2 DEF Listed, Dropped, RegType
<1>6. \A b \in Admins, p \in Plugins : Pending(b, p)' <=> Pending(b, p)
  BY <1>1, <1>2 DEF Pending, RegType
<1>7. Apart' BY <1>1, <1>2, <1>5, <1>6 DEF Apart
<1>8. \A p \in Plugins : Held(p) => Held(p)' BY <1>2, <1>5, <1>6 DEF Held
<1>9. Range(InitPlugins) \cup Reloads \subseteq Plugins BY RequestPathAssumption DEF Range
<1>10. NoInstanceLost' BY <1>1, <1>2, <1>8, <1>9, LostAsHeld, LostAsHeldNext
<1> QED BY <1>3, <1>4, <1>7, <1>10 DEF RegInv

LEMMA SwapStep == ASSUME RegInv, NEW a \in Admins, CompareAndSwap(a) PROVE RegInv'
<1>1. RegType /\ SeenInv /\ Apart /\ NoInstanceLost BY DEF RegInv
<1>2. apc[a] = "swap" /\ UNCHANGED <<cleaned, fresh, op, seen>> BY DEF CompareAndSwap
<1>3. Range(InitPlugins) \cup Reloads \subseteq Plugins BY RequestPathAssumption DEF Range
<1>4. CASE llmPlugins.at # seen[a].at
  <2>1. apc' = [apc EXCEPT ![a] = "load"] /\ llmPlugins' = llmPlugins BY <1>4 DEF CompareAndSwap
  <2>2. RegType' BY <1>1, <1>2, <2>1 DEF RegType
  <2>3. SeenInv' BY <1>1, <1>2, <2>1 DEF RegType, SeenInv
  <2>4. Listed' = Listed /\ \A b \in Admins : Dropped(b)' = Dropped(b)
    BY <1>1, <1>2, <2>1 DEF Listed, Dropped, RegType
  <2>5. \A b \in Admins, p \in Plugins : Pending(b, p)' <=> Pending(b, p)
    BY <1>1, <1>2, <2>1 DEF Pending, RegType
  <2>6. Apart' BY <1>1, <1>2, <2>4, <2>5 DEF Apart
  <2>7. \A p \in Plugins : Held(p) => Held(p)' BY <1>2, <2>4, <2>5 DEF Held
  <2>8. NoInstanceLost' BY <1>1, <1>2, <1>3, <2>7, LostAsHeld, LostAsHeldNext
  <2> QED BY <2>2, <2>3, <2>6, <2>8 DEF RegInv
<1>5. CASE llmPlugins.at = seen[a].at
  <2> DEFINE old == llmPlugins.list   c == op[a]   new == Changed(old, c)   out == Displaced(old, c)
  <2>1. seen[a].list = old /\ old \in Lists /\ c \in Changes /\ (c.kind = "remove" => out # {})
    BY <1>1, <1>2, <1>5 DEF RegType, SeenInv
  <2>2. /\ llmPlugins' = [at |-> llmPlugins.at + 1, list |-> new]
        /\ apc' = [apc EXCEPT ![a] = IF out = {} THEN "idle" ELSE "cleanup"]
    BY <1>5, <2>1 DEF CompareAndSwap
  <2>3. new \in Lists /\ Range(new) = (Range(old) \ out) \cup Added(c) /\ out \subseteq Range(old)
    BY <2>1, ChangedList, DisplacedPlugins
  <2>4. \A p \in Added(c) : p \in Plugins /\ Pending(a, p)
    BY <1>2, <2>1, RequestPathAssumption DEF Added, Pending, Changes
  <2>5. /\ Dropped(a)' = out /\ Dropped(a) = {}
        /\ \A b \in Admins \ {a} : Dropped(b)' = Dropped(b)
    BY <1>1, <1>2, <2>1, <2>2 DEF Dropped, RegType
  <2>6. /\ \A p \in Plugins : ~Pending(a, p)'
        /\ \A b \in Admins \ {a}, p \in Plugins : Pending(b, p)' <=> Pending(b, p)
    BY <1>1, <1>2, <2>2 DEF Pending, RegType
  <2>7. \A p \in Plugins : Pending(a, p) => p \in Added(c)
    BY DEF Pending, Added
  <2>8. Listed = Range(old) /\ Listed' = (Listed \ out) \cup Added(c) BY <2>2, <2>3 DEF Listed
  <2>9. RegType' BY <1>1, <1>2, <2>2, <2>3 DEF RegType
  <2>10. SeenInv'
    <3>1. llmPlugins.at \in Nat /\ llmPlugins'.at = llmPlugins.at + 1 BY <1>1, <2>2 DEF RegType
    <3> SUFFICES ASSUME NEW b \in Admins
                 PROVE  /\ seen'[b].at <= llmPlugins'.at
                        /\ seen'[b].at = llmPlugins'.at => seen'[b].list = llmPlugins'.list
                        /\ apc'[b] = "swap" /\ op'[b].kind = "remove" => Displaced(seen'[b].list, op'[b]) # {}
      BY DEF SeenInv
    <3>2. seen[b].at \in Nat /\ seen[b].at <= llmPlugins.at BY <1>1 DEF RegType, SeenInv
    <3>3. apc'[b] = "swap" => apc[b] = "swap" BY <1>1, <1>2, <2>2 DEF RegType
    <3> QED BY <1>1, <1>2, <3>1, <3>2, <3>3 DEF SeenInv
  <2> HIDE DEF old, c, new, out
  <2>11. Apart'
    <3>1. Listed' \cap cleaned' = {} /\ Listed' \cap fresh' = {} /\ cleaned' \cap fresh' = {}
      BY <1>1, <1>2, <2>4, <2>8 DEF Apart
    <3>2. \A b \in Admins, p \in Plugins : Pending(b, p)' => p \notin Listed' \cup cleaned' \cup fresh'
      BY <1>1, <1>2, <2>4, <2>6, <2>8 DEF Apart
    <3>3. \A x, y \in Admins, p \in Plugins : Pending(x, p)' /\ Pending(y, p)' => x = y
      BY <1>1, <2>6 DEF Apart
    <3>4. \A b \in Admins : Dropped(b)' \cap (Listed' \cup fresh') = {}
      BY <1>1, <1>2, <2>3, <2>4, <2>5, <2>8 DEF Apart
    <3>5. \A x, y \in Admins, p \in Plugins : Pending(y, p)' => p \notin Dropped(x)'
      BY <1>1, <2>3, <2>5, <2>6, <2>8 DEF Apart
    <3> QED BY <3>1, <3>2, <3>3, <3>4, <3>5 DEF Apart
  <2>12. \A p \in Plugins : Held(p) => Held(p)' BY <1>2, <2>5, <2>6, <2>7, <2>8 DEF Held
  <2>13. NoInstanceLost' BY <1>1, <1>2, <1>3, <2>12, LostAsHeld, LostAsHeldNext
  <2> QED BY <2>9, <2>10, <2>11, <2>13 DEF RegInv
<1> QED BY <1>4, <1>5

LEMMA RegInit == Init => RegInv
<1> SUFFICES ASSUME Init PROVE RegInv
  OBVIOUS
<1>1. InitPlugins \in Lists BY RequestPathAssumption DEF Lists
<1>2. RegType BY <1>1 DEF Init, RegType
<1>3. SeenInv BY DEF Init, SeenInv
<1>4. /\ Listed = Range(InitPlugins) /\ \A a \in Admins : Dropped(a) = {}
      /\ \A a \in Admins, p \in Plugins : ~Pending(a, p)
  BY DEF Init, Listed, Dropped, Pending
<1>5. Listed \cap Reloads = {} BY <1>4, RequestPathAssumption DEF Range
<1>6. Apart BY <1>4, <1>5 DEF Init, Apart
<1>7. NoInstanceLost BY <1>4, LostAsHeld DEF Init, Held
<1> QED BY <1>2, <1>3, <1>6, <1>7 DEF RegInv

LEMMA RegNext == RegInv /\ [Next]_vars => RegInv'
<1> SUFFICES ASSUME RegInv, [Next]_vars PROVE RegInv'
  OBVIOUS
<1>1. CASE RequestStep \/ UNCHANGED vars BY <1>1, RequestLeavesList, RegUnchanged
<1>2. ASSUME NEW a \in Admins, Change(a) PROVE RegInv'
  BY <1>2, BeginStep, LoadStep, SwapStep, CleanupStep DEF Change
<1> QED BY <1>1, <1>2 DEF Next, RequestStep

LEMMA RegAlways == Spec => []RegInv
BY RegInit, RegNext, PTL DEF Spec

\* removeLLMPlugin, reloadLLMPlugin and reorderAtomicSlice: however many calls race
\* and whatever they are given, no name is listed twice and no instance is
\* listed after its Cleanup.
THEOREM RegistryStaysConsistent == Spec => []RegistryConsistent
<1>1. RegInv => RegistryConsistent BY DEF RegInv, RegType, Lists, Apart, Listed, RegistryConsistent
<1> QED BY <1>1, RegAlways, PTL

\* The same calls never lose an instance: each is listed, cleaned up, or in the hand
\* of a call that is not over.
THEOREM NoInstanceIsLost == Spec => []NoInstanceLost
<1>1. RegInv => NoInstanceLost BY DEF RegInv
<1> QED BY <1>1, RegAlways, PTL

(***************************************************************************)
(* Pre- and post-hooks, where plugins are added, replaced and reordered    *)
(* but not removed, and no hook short-circuits with nothing to return.     *)
(***************************************************************************)
Orderly == Removals = {} /\ "stray" \notin ShortCircuits

\* In an attempt the list is at least as long as the pipeline's copy of it.
Room == pc \in {"preProvider", "preLLM", "wait"} => Len(pipeline) <= Len(llmPlugins.list)

\* s begins with the first n plugins of the pipeline, and has no more.
Prefix(s, n) == s \in Seq(Plugins) /\ Len(s) = n /\ \A k \in 1..n : s[k] = pipeline[k]

HookTypes == pipeline \in Seq(Plugins) /\ idx \in Nat /\ count \in Nat

\* Where the attempt is and which hooks have run.
Hooks ==
  /\ pc \in {"preProvider", "preLLM", "wait"} => posts = <<>> /\ via = "none"
  /\ pc = "preProvider" => pres = <<>>
  /\ pc = "preLLM" => idx \in 1..(Len(pipeline) + 1) /\ Prefix(pres, idx - 1)
  /\ pc = "wait" => Prefix(pres, Len(pipeline)) /\ (mode = "unary" => count >= Len(pipeline))
  /\ pc = "post" /\ via \in {"llm", "answer"} =>
       /\ Len(pres) <= Len(pipeline) /\ Prefix(pres, Len(pres)) /\ idx <= Len(pres)
       /\ posts \in Seq(Plugins) /\ Len(posts) = Len(pres) - idx
       /\ \A k \in 1..Len(posts) : posts[k] = pres[(Len(pres) - k) + 1]

HookInv == HookTypes /\ Room /\ Hooks /\ Symmetric

LEMMA ListNeverShrinks ==
  ASSUME Orderly, RegInv, [Next]_vars
  PROVE  Len(llmPlugins'.list) >= Len(llmPlugins.list) /\ (llmPlugins' = llmPlugins \/ UNCHANGED reqVars)
<1>1. Len(llmPlugins.list) \in Nat BY ListRange DEF RegInv, RegType
<1>2. CASE RequestStep \/ UNCHANGED vars BY <1>1, <1>2, RequestLeavesList DEF regVars
<1>3. ASSUME NEW a \in Admins, Change(a)
      PROVE  Len(llmPlugins'.list) >= Len(llmPlugins.list) /\ UNCHANGED reqVars
  <2>1. UNCHANGED reqVars BY <1>3 DEF Change, ChangeBegin, LoadPlugins, CompareAndSwap, Cleanup
  <2>2. CASE llmPlugins' = llmPlugins BY <1>1, <2>1, <2>2
  <2>3. CASE CompareAndSwap(a) /\ llmPlugins.at = seen[a].at
    <3>1. seen[a].list = llmPlugins.list /\ llmPlugins.list \in Lists /\ op[a] \in Changes
      BY <2>3 DEF CompareAndSwap, RegInv, RegType, SeenInv
    <3>2. op[a].kind # "remove" BY <3>1 DEF Changes, Orderly
    <3>3. llmPlugins'.list = Changed(llmPlugins.list, op[a]) BY <2>3, <3>1 DEF CompareAndSwap
    <3> QED BY <2>1, <3>1, <3>2, <3>3, ChangedList
  <2> QED BY <1>3, <2>2, <2>3 DEF Change, ChangeBegin, LoadPlugins, CompareAndSwap, Cleanup, regVars
<1> QED BY <1>2, <1>3 DEF Next, RequestStep

LEMMA HookInit == Init => HookInv
BY DEF Init, HookInv, HookTypes, Room, Hooks, Symmetric

LEMMA HookRouting == ASSUME HookInv, RegInv, Routing PROVE HookInv'
<1> USE DEF HookInv, HookTypes, Room, Hooks, Symmetric, Prefix, callVars, chainVars, histVars, pipeVars
<1>1. llmPlugins.list \in Seq(Plugins) /\ <<>> \in Seq(Plugins) BY DEF RegInv, RegType, Lists
<1>2. CASE Begin BY <1>1, <1>2 DEF Begin
<1>3. CASE PreRequestHook BY <1>3 DEF PreRequestHook
<1>4. CASE Routed BY <1>4 DEF Routed
<1>5. CASE Unresolved BY <1>5 DEF Unresolved
<1> QED BY <1>2, <1>3, <1>4, <1>5 DEF Routing

LEMMA HookChain == ASSUME HookInv, Chain \/ Cancel \/ Quiet PROVE HookInv'
<1> USE DEF HookInv, HookTypes, Room, Hooks, Symmetric, Prefix, callVars, chainVars, histVars, pipeVars, regVars
<1>1. CASE Chain
  BY <1>1 DEF Chain, AfterPrimary, AfterFallback, TryFallback, SkipFallback, Exhausted, Finish, ToFallback
<1>2. CASE Cancel BY <1>2 DEF Cancel
<1>3. CASE Quiet BY <1>3 DEF Quiet, vars
<1> QED BY <1>1, <1>2, <1>3

LEMMA HookGrow ==
  ASSUME HookInv, RegInv, UNCHANGED reqVars, Len(llmPlugins'.list) >= Len(llmPlugins.list),
         Len(llmPlugins'.list) \in Nat
  PROVE  HookInv'
<1>1. UNCHANGED <<pc, pipeline, idx, count, mode, via, pres, posts>>
  BY DEF reqVars, pipeVars, callVars, histVars
<1>2. HookTypes' /\ Hooks' /\ Symmetric' BY <1>1 DEF HookInv, HookTypes, Hooks, Symmetric, Prefix
<1>3. Len(llmPlugins.list) \in Nat /\ Len(pipeline) \in Nat
  BY ListRange DEF RegInv, RegType, HookInv, HookTypes
<1>4. Room' BY <1>1, <1>3 DEF HookInv, Room
<1> QED BY <1>2, <1>4 DEF HookInv

LEMMA HookAttempt == ASSUME Orderly, HookInv, RegInv, Attempt PROVE HookInv'
<1>1. UNCHANGED llmPlugins BY RequestLeavesList DEF RequestStep, regVars
<1>2. llmPlugins.list \in Seq(Plugins) /\ Len(llmPlugins.list) \in Nat BY ListRange DEF RegInv, RegType, Lists
<1>3. pipeline \in Seq(Plugins) /\ Len(pipeline) \in Nat /\ idx \in Nat /\ count \in Nat
  BY DEF HookInv, HookTypes
<1> USE DEF callVars, chainVars, histVars, pipeVars
<1>4. CASE NoQueue
  BY <1>1, <1>4 DEF NoQueue, HookInv, HookTypes, Room, Hooks, Symmetric, Prefix
<1>5. CASE TryRequest
  <2>1. pipeline' \in Seq(Plugins) /\ Len(pipeline') <= Len(llmPlugins.list) BY <1>2, <1>5 DEF TryRequest, Pipeline
  <2> QED BY <1>1, <1>5, <2>1 DEF TryRequest, HookInv, HookTypes, Room, Hooks, Symmetric, Prefix
<1>6. CASE PreProviderHook
  <2>1. CASE Pass BY <1>1, <1>3, <1>6, <2>1 DEF PreProviderHook, Pass, Orderly, HookInv, HookTypes, Room, Hooks, Symmetric, Prefix
  <2>2. CASE ShortCircuit("provider", "providerErr")
    <3>1. via' \in {"provider", "providerErr"} /\ pc' = "post" /\ UNCHANGED <<pipeline, idx, count>>
      BY <2>2 DEF ShortCircuit
    <3> QED BY <1>1, <1>6, <3>1 DEF PreProviderHook, HookInv, HookTypes, Room, Hooks, Symmetric, Prefix
  <2> QED BY <1>6, <2>1, <2>2 DEF PreProviderHook
<1>7. CASE PreProviderDone
  <2>1. Prefix(pres, 0)' BY <1>7 DEF PreProviderDone, Prefix, HookInv, Hooks
  <2>2. idx' = 1 /\ 1 - 1 = 0 BY <1>7 DEF PreProviderDone
  <2> QED BY <1>1, <1>3, <1>7, <2>1, <2>2 DEF PreProviderDone, HookInv, HookTypes, Room, Hooks, Symmetric
<1>8. CASE PreProviderNil \/ PreLLMNil \/ Refused \/ CtxDone
  <2>1. via = "none" /\ pc' = "verdict" /\ UNCHANGED <<via, pipeline, idx, count>>
    BY <1>8 DEF PreProviderNil, PreLLMNil, Refused, CtxDone, Unanswered, Ended, HookInv, Hooks
  <2> QED BY <1>3, <2>1 DEF HookInv, HookTypes, Room, Hooks, Symmetric
<1>9. CASE PreLLMHook
  <2>1. /\ pc = "preLLM" /\ idx \in 1..Len(pipeline) /\ pres' = Append(pres, pipeline[idx])
        /\ UNCHANGED <<posts, mode, pipeline, count>> /\ posts = <<>> /\ via = "none"
    <3>1. /\ pc = "preLLM" /\ idx <= Len(pipeline) /\ pres' = Append(pres, pipeline[idx])
          /\ UNCHANGED <<posts, mode>>
      BY <1>9 DEF PreLLMHook
    <3>2. idx \in 1..(Len(pipeline) + 1) /\ posts = <<>> /\ via = "none" BY <3>1 DEF HookInv, Hooks
    <3>3. idx \in 1..Len(pipeline) BY <1>3, <3>1, <3>2
    <3>4. Pass \/ ShortCircuit("llm", "llm") \/ StreamShortCircuit BY <1>9 DEF PreLLMHook
    <3>5. UNCHANGED <<pipeline, count>> BY <3>4 DEF Pass, ShortCircuit, StreamShortCircuit
    <3> QED BY <3>1, <3>2, <3>3, <3>5
  <2>2. Prefix(pres', idx)
    <3>1. Prefix(pres, idx - 1) /\ pipeline[idx] \in Plugins BY <1>3, <2>1 DEF HookInv, Hooks
    <3> QED BY <2>1, <3>1 DEF Prefix
  <2>3. CASE Pass
    <3>1. idx' = idx + 1 /\ UNCHANGED <<pc, via>> BY <2>3 DEF Pass, Orderly
    <3>2. idx' \in 1..(Len(pipeline') + 1) /\ Prefix(pres, idx - 1)' /\ idx' \in Nat
      BY <1>3, <2>1, <2>2, <3>1 DEF Prefix
    <3> QED BY <1>1, <1>3, <2>1, <3>1, <3>2 DEF HookInv, HookTypes, Room, Hooks, Symmetric
  <2>4. CASE ShortCircuit("llm", "llm")
    <3>1. pc' = "post" /\ via' = "llm" /\ UNCHANGED idx BY <2>4 DEF ShortCircuit
    <3>2. Len(pres') = idx /\ Len(posts') = 0 /\ posts' \in Seq(Plugins) BY <2>1, <2>2 DEF Prefix
    <3>3. /\ Len(pres') <= Len(pipeline') /\ Prefix(pres, Len(pres))' /\ idx' <= Len(pres')
          /\ Len(posts') = Len(pres') - idx'
          /\ \A k \in 1..Len(posts') : posts'[k] = pres'[(Len(pres') - k) + 1]
      BY <1>3, <2>1, <2>2, <3>1, <3>2 DEF Prefix
    <3> QED BY <1>3, <2>1, <3>1, <3>2, <3>3 DEF HookInv, HookTypes, Room, Hooks, Symmetric
  <2>5. CASE StreamShortCircuit
    <3>1. pc' = "verdict" /\ via' = "stream" /\ UNCHANGED idx BY <2>5 DEF StreamShortCircuit, Ended, Orderly
    <3> QED BY <1>3, <2>1, <3>1 DEF HookInv, HookTypes, Room, Hooks, Symmetric
  <2> QED BY <1>9, <2>3, <2>4, <2>5 DEF PreLLMHook
<1>10. CASE Enqueue
  <2>1. /\ pc = "preLLM" /\ pc' = "wait" /\ idx > Len(pipeline)
        /\ count' = (IF mode = "unary" THEN Len(llmPlugins.list) ELSE count)
        /\ UNCHANGED <<pipeline, idx, mode, via, pres, posts>>
    BY <1>10 DEF Enqueue
  <2>2. idx - 1 = Len(pipeline) /\ Prefix(pres, idx - 1) BY <1>3, <2>1 DEF HookInv, Hooks
  <2>3. Prefix(pres, Len(pipeline))' BY <2>1, <2>2 DEF Prefix
  <2>4. count' \in Nat /\ (mode = "unary" => count' >= Len(pipeline)) BY <1>2, <1>3, <2>1 DEF HookInv, Room
  <2> QED BY <1>1, <1>3, <2>1, <2>3, <2>4 DEF HookInv, HookTypes, Room, Hooks, Symmetric
<1>11. CASE Streaming
  <2>1. pc' = "verdict" /\ via' = "stream" /\ UNCHANGED <<pipeline, idx, count>> BY <1>11 DEF Streaming, Ended
  <2> QED BY <1>3, <2>1 DEF HookInv, HookTypes, Room, Hooks, Symmetric
<1>12. CASE Answered
  <2>1. /\ pc = "wait" /\ pc' = "post" /\ via' = "answer" /\ UNCHANGED <<pipeline, count, pres, posts, mode>>
        /\ idx' = PostFrom(IF mode = "unary" THEN count ELSE Len(llmPlugins.list))
    BY <1>12 DEF Answered
  <2>2. Prefix(pres, Len(pipeline)) /\ posts = <<>> BY <2>1 DEF HookInv, Hooks
  <2>3. (IF mode = "unary" THEN count ELSE Len(llmPlugins.list)) >= Len(pipeline)
    BY <2>1 DEF HookInv, Hooks, Room
  <2>4. idx' = Len(pipeline) BY <1>2, <1>3, <2>1, <2>3 DEF PostFrom
  <2>5. Len(pres') = Len(pipeline) /\ Len(posts') = 0 /\ posts' \in Seq(Plugins) BY <2>1, <2>2 DEF Prefix
  <2>6. /\ Len(pres') <= Len(pipeline') /\ Prefix(pres, Len(pres))' /\ idx' <= Len(pres')
        /\ Len(posts') = Len(pres') - idx'
        /\ \A k \in 1..Len(posts') : posts'[k] = pres'[(Len(pres') - k) + 1]
    BY <1>3, <2>1, <2>2, <2>4, <2>5 DEF Prefix
  <2> QED BY <1>3, <2>1, <2>4, <2>5, <2>6 DEF HookInv, HookTypes, Room, Hooks, Symmetric
<1>13. CASE PostLLMHook
  <2>1. /\ pc = "post" /\ idx > 0 /\ posts' = Append(posts, pipeline[idx]) /\ idx' = idx - 1
        /\ UNCHANGED <<pc, pipeline, count, mode, via, pres>>
    BY <1>13 DEF PostLLMHook
  <2>2. CASE via \notin {"llm", "answer"}
    BY <1>3, <2>1, <2>2 DEF HookInv, HookTypes, Room, Hooks, Symmetric
  <2>3. CASE via \in {"llm", "answer"}
    <3>1. /\ Len(pres) \in Nat /\ Len(pres) <= Len(pipeline) /\ Prefix(pres, Len(pres)) /\ idx <= Len(pres)
          /\ posts \in Seq(Plugins) /\ Len(posts) = Len(pres) - idx
          /\ \A k \in 1..Len(posts) : posts[k] = pres[(Len(pres) - k) + 1]
      BY <1>3, <2>1, <2>3 DEF HookInv, Hooks, Prefix
    <3>2. pipeline[idx] = pres[idx] /\ pipeline[idx] \in Plugins BY <1>3, <2>1, <3>1 DEF Prefix
    <3>3. posts' \in Seq(Plugins) /\ Len(posts') = Len(pres) - idx'
      <4>1. posts' \in Seq(Plugins) /\ Len(posts') = Len(posts) + 1
        BY <2>1, <3>1, <3>2, AppendProperties
      <4> QED BY <1>3, <2>1, <3>1, <4>1
    <3>4. \A k \in 1..Len(posts') : posts'[k] = pres[(Len(pres) - k) + 1]
      <4> TAKE k \in 1..Len(posts')
      <4>1. CASE k <= Len(posts)
        <5>1. k \in 1..Len(posts) BY <1>3, <3>1, <4>1
        <5>2. posts'[k] = posts[k] BY <2>1, <3>1, <3>2, <5>1, AppendProperties
        <5> QED BY <3>1, <5>1, <5>2
      <4>2. CASE k = Len(posts) + 1
        <5>1. (Len(pres) - k) + 1 = idx BY <1>3, <3>1, <4>2
        <5>2. posts'[k] = pipeline[idx] BY <2>1, <3>1, <3>2, <4>2
        <5> QED BY <3>2, <5>1, <5>2
      <4> QED BY <1>3, <2>1, <3>1, <3>3, <4>1, <4>2
    <3>5. idx' \in Nat /\ idx' <= Len(pres) BY <1>3, <2>1, <3>1
    <3>6. Prefix(pres, Len(pres))' BY <2>1, <3>1 DEF Prefix
    <3> QED BY <1>3, <2>1, <3>1, <3>3, <3>4, <3>5, <3>6 DEF HookInv, HookTypes, Room, Hooks, Symmetric
  <2> QED BY <2>2, <2>3
<1>14. CASE Return
  <2>1. pc = "post" /\ idx = 0 /\ pc' = "verdict" /\ UNCHANGED <<via, pres, posts, pipeline, idx, count>>
    BY <1>14 DEF Return, Ended
  <2>2. ASSUME via \in {"llm", "answer"} PROVE posts = Reverse(pres)
    <3>1. /\ pres \in Seq(Plugins) /\ posts \in Seq(Plugins) /\ Len(posts) = Len(pres)
          /\ \A k \in 1..Len(posts) : posts[k] = pres[(Len(pres) - k) + 1]
      BY <1>3, <2>1, <2>2 DEF HookInv, Hooks, Prefix
    <3>2. posts = [k \in 1..Len(posts) |-> posts[k]] BY <3>1
    <3> QED BY <3>1, <3>2 DEF Reverse
  <2> QED BY <1>3, <2>1, <2>2 DEF HookInv, HookTypes, Room, Hooks, Symmetric
<1>15. CASE MessageChanPanics
  BY <1>3, <1>15 DEF MessageChanPanics, HookInv, HookTypes, Room, Hooks, Symmetric
<1> QED BY <1>4, <1>5, <1>6, <1>7, <1>8, <1>9, <1>10, <1>11, <1>12, <1>13, <1>14, <1>15 DEF Attempt

LEMMA HookNext == Orderly => (HookInv /\ RegInv /\ [Next]_vars => HookInv')
<1> SUFFICES ASSUME Orderly, HookInv, RegInv, [Next]_vars PROVE HookInv'
  OBVIOUS
<1>1. CASE Routing BY <1>1, HookRouting
<1>2. CASE Attempt BY <1>2, HookAttempt
<1>3. CASE Chain \/ Cancel \/ Quiet BY <1>3, HookChain
<1>4. CASE UNCHANGED reqVars
  <2>1. Len(llmPlugins'.list) \in Nat
    <3>1. RegInv' BY RegNext
    <3> QED BY <3>1, ListRange DEF RegInv, RegType
  <2> QED BY <1>4, <2>1, HookGrow, ListNeverShrinks
<1>5. CASE UNCHANGED vars BY <1>4, <1>5 DEF vars, reqVars
<1>6. ASSUME NEW a \in Admins, Change(a) PROVE HookInv'
  BY <1>4, <1>6 DEF Change, ChangeBegin, LoadPlugins, CompareAndSwap, Cleanup
<1> QED BY <1>1, <1>2, <1>3, <1>5, <1>6 DEF Next

\* RunLLMPreHooks, RunPostLLMHooks and getPluginPipeline: when plugins are only added,
\* replaced and reordered and no hook short-circuits with nothing to return, the
\* post-hooks of an attempt are the pre-hooks of the same instances, reversed.
THEOREM HooksMirrored == Orderly => (Spec => []Symmetric)
<1> SUFFICES ASSUME Orderly PROVE Spec => []Symmetric
  OBVIOUS
<1>1. HookInv /\ RegInv /\ [Next]_vars => HookInv' BY HookNext
<1>2. HookInv => Symmetric BY DEF HookInv
<1> QED BY <1>1, <1>2, HookInit, RegAlways, PTL DEF Spec
====
