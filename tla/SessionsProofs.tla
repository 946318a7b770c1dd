------------------------------ MODULE SessionsProofs ------------------------------
(***************************************************************************)
(* Proofs about Sessions, for any number of requests and keys, any pools   *)
(* and any time to live.                                                   *)
(***************************************************************************)
EXTENDS Sessions, TLAPS

\* Clocks and eras only go forward.
Ordered == \A q \in Requests : t[q] <= now /\ from[q] <= era /\ upto[q] <= era

\* A key a request holds supports its model.
Holders == {"refresh", "setnx", "reget", "redrop", "redelete", "served", "alone"}
HeldSupported == \A q \in Requests : pc[q] \in Holders => id[q] \in pool[q]

\* As long as the session has lost nothing since a request came: what was not
\* expired when its operation began is not expired now; what it has read is
\* still there; and so is the entry it lost the race to.
Agreement ==
  \A q \in Requests :
    /\ pc[q] \in InStore /\ from[q] = era /\ Taken(t[q]) => Live
    /\ pc[q] = "refresh" /\ from[q] = era => Live /\ data.id = id[q]
    /\ pc[q] \in {"reget", "redelete"} /\ from[q] = era => Live /\ ~closed
    /\ pc[q] = "redrop" => from[q] < era
    /\ Whole(q, era) => Live /\ data.id = id[q]

LEMMA HeldStep == TypeOK /\ HeldSupported /\ [Next]_vars => HeldSupported'
<1> SUFFICES ASSUME TypeOK, HeldSupported, [Next]_vars PROVE HeldSupported'
  OBVIOUS
<1> USE SessionsAssumption DEF TypeOK, HeldSupported, Holders
<1>1. ASSUME NEW q \in Requests, Arrive(q) PROVE HeldSupported'
  BY <1>1 DEF Arrive, Serve, Then, Goto, Keep, req, world
<1>2. ASSUME NEW q \in Requests, Get(q) PROVE HeldSupported'
  BY <1>2 DEF Get, Missed, Found, Stale, Serve, Then, Goto, Keep, Taken, req, world
<1>3. ASSUME NEW q \in Requests, Drop(q) PROVE HeldSupported'
  BY <1>3 DEF Drop, Missed, Put, Keep, Serve, Then, Goto, req, world
<1>4. ASSUME NEW q \in Requests, Refresh(q) PROVE HeldSupported'
  BY <1>4 DEF Refresh, Put, Keep, Serve, Goto, req, world
<1>5. ASSUME NEW q \in Requests, Delete(q) PROVE HeldSupported'
  BY <1>5 DEF Delete, Put, Keep, Serve, Then, Goto, req, world
<1>6. ASSUME NEW q \in Requests, Select(q) PROVE HeldSupported'
  BY <1>6 DEF Select, Then, Goto, Keep, req, world
<1>7. ASSUME NEW q \in Requests, SetNX(q) PROVE HeldSupported'
  BY <1>7 DEF SetNX, Put, Keep, Serve, Then, Goto, Taken, req, world
<1>8. CASE cleanupExpired BY <1>8 DEF cleanupExpired, Put, req, world
<1>9. CASE Close BY <1>9 DEF Close, req, world
<1>10. CASE Tick BY <1>10 DEF Tick, req, world
<1>11. CASE Reconfigure BY <1>11 DEF Reconfigure, Keep, req, world
<1>12. CASE UNCHANGED vars BY <1>12 DEF vars
<1> QED BY <1>1, <1>2, <1>3, <1>4, <1>5, <1>6, <1>7, <1>8, <1>9, <1>10, <1>11, <1>12 DEF Next, Step

LEMMA TypesStep == TypeOK /\ HeldSupported /\ [Next]_vars => TypeOK'
<1> SUFFICES ASSUME TypeOK, HeldSupported, [Next]_vars PROVE TypeOK'
  OBVIOUS
<1> USE SessionsAssumption DEF TypeOK, Labels, Entry, isExpired, Live, Taken
<1>1. ASSUME NEW q \in Requests, Arrive(q) PROVE TypeOK'
  BY <1>1 DEF Arrive, Serve, Then, Goto, Keep, req, world
<1>2. ASSUME NEW q \in Requests, Get(q) PROVE TypeOK'
  BY <1>2 DEF Get, Missed, Found, Stale, Serve, Then, Goto, Keep, Taken, req, world
<1>3. ASSUME NEW q \in Requests, Drop(q) PROVE TypeOK'
  BY <1>3 DEF Drop, Missed, Put, Keep, Serve, Then, Goto, req, world
<1>4. ASSUME NEW q \in Requests, Refresh(q) PROVE TypeOK'
  <2>1. id[q] \in KeyIds BY <1>4 DEF HeldSupported, Holders, Refresh
  <2>2. [id |-> id[q], exp |-> t[q] + TTL] \in Entry BY <2>1
  <2> QED BY <1>4, <2>2 DEF Refresh, Put, Keep, Serve, Goto, req, world
<1>5. ASSUME NEW q \in Requests, Delete(q) PROVE TypeOK'
  BY <1>5 DEF Delete, Put, Keep, Serve, Then, Goto, req, world
<1>6. ASSUME NEW q \in Requests, Select(q) PROVE TypeOK'
  BY <1>6 DEF Select, Then, Goto, Keep, req, world
<1>7. ASSUME NEW q \in Requests, SetNX(q) PROVE TypeOK'
  <2>1. id[q] \in KeyIds BY <1>7 DEF HeldSupported, Holders, SetNX
  <2>2. [id |-> id[q], exp |-> t[q] + TTL] \in Entry BY <2>1
  <2> QED BY <1>7, <2>2 DEF SetNX, Put, Keep, Serve, Then, Goto, Taken, req, world
<1>8. CASE cleanupExpired BY <1>8 DEF cleanupExpired, Put, req, world
<1>9. CASE Close BY <1>9 DEF Close, req, world
<1>10. CASE Tick BY <1>10 DEF Tick, req, world
<1>11. CASE Reconfigure BY <1>11 DEF Reconfigure, Keep, req, world
<1>12. CASE UNCHANGED vars BY <1>12 DEF vars
<1> QED BY <1>1, <1>2, <1>3, <1>4, <1>5, <1>6, <1>7, <1>8, <1>9, <1>10, <1>11, <1>12 DEF Next, Step

LEMMA OrderedStep == TypeOK /\ Ordered /\ [Next]_vars => Ordered'
<1> SUFFICES ASSUME TypeOK, Ordered, [Next]_vars PROVE Ordered'
  OBVIOUS
<1> USE SessionsAssumption DEF TypeOK, Ordered
<1>1. ASSUME NEW q \in Requests, Arrive(q) PROVE Ordered'
  BY <1>1 DEF Arrive, Serve, Then, Goto, Keep, req, world
<1>2. ASSUME NEW q \in Requests, Get(q) PROVE Ordered'
  BY <1>2 DEF Get, Missed, Found, Stale, Serve, Then, Goto, Keep, Taken, req, world
<1>3. ASSUME NEW q \in Requests, Drop(q) PROVE Ordered'
  BY <1>3 DEF Drop, Missed, Put, Keep, Serve, Then, Goto, req, world
<1>4. ASSUME NEW q \in Requests, Refresh(q) PROVE Ordered'
  BY <1>4 DEF Refresh, Put, Keep, Serve, Goto, req, world
<1>5. ASSUME NEW q \in Requests, Delete(q) PROVE Ordered'
  BY <1>5 DEF Delete, Put, Keep, Serve, Then, Goto, req, world
<1>6. ASSUME NEW q \in Requests, Select(q) PROVE Ordered'
  BY <1>6 DEF Select, Then, Goto, Keep, req, world
<1>7. ASSUME NEW q \in Requests, SetNX(q) PROVE Ordered'
  BY <1>7 DEF SetNX, Put, Keep, Serve, Then, Goto, Taken, req, world
<1>8. CASE cleanupExpired BY <1>8 DEF cleanupExpired, Put, req, world
<1>9. CASE Close BY <1>9 DEF Close, req, world
<1>10. CASE Tick BY <1>10 DEF Tick, req, world
<1>11. CASE Reconfigure BY <1>11 DEF Reconfigure, Keep, req, world
<1>12. CASE UNCHANGED vars BY <1>12 DEF vars
<1> QED BY <1>1, <1>2, <1>3, <1>4, <1>5, <1>6, <1>7, <1>8, <1>9, <1>10, <1>11, <1>12 DEF Next, Step

LEMMA AgreementStep == TypeOK /\ TypeOK' /\ Ordered /\ HeldSupported /\ Agreement /\ [Next]_vars => Agreement'
<1> SUFFICES ASSUME TypeOK, TypeOK', Ordered, HeldSupported, Agreement, [Next]_vars PROVE Agreement'
  OBVIOUS
<1> USE SessionsAssumption DEF TypeOK, Ordered, Agreement, Entry, isExpired, Live, Taken, Whole, InStore
<1>1. ASSUME NEW q \in Requests, Arrive(q) PROVE Agreement'
  BY <1>1 DEF Arrive, Serve, Then, Goto, Keep, req, world
<1>2. ASSUME NEW q \in Requests, Get(q) PROVE Agreement'
  BY <1>2 DEF Get, Missed, Found, Stale, Serve, Then, Goto, Keep, Taken, req, world
<1>3. ASSUME NEW q \in Requests, Drop(q) PROVE Agreement'
  BY <1>3 DEF Drop, Missed, Put, Keep, Serve, Then, Goto, req, world
<1>4. ASSUME NEW q \in Requests, Refresh(q) PROVE Agreement'
  BY <1>4 DEF Refresh, Put, Keep, Serve, Goto, req, world
<1>5. ASSUME NEW q \in Requests, Delete(q) PROVE Agreement'
  BY <1>5 DEF Delete, Put, Keep, Serve, Then, Goto, req, world
<1>6. ASSUME NEW q \in Requests, Select(q) PROVE Agreement'
  BY <1>6 DEF Select, Then, Goto, Keep, req, world
<1>7. ASSUME NEW q \in Requests, SetNX(q) PROVE Agreement'
  <2>1. CASE closed /\ Keep /\ Serve(q, "alone", id[q]) BY <1>7, <2>1 DEF SetNX, Keep, Serve, Goto, req, world
  <2>2. CASE ~closed /\ Taken(t[q]) /\ Keep /\ Then(q, "reget") /\ UNCHANGED id BY <1>7, <2>2 DEF SetNX, Keep, Then, Goto, req, world
  <2>3. CASE ~closed /\ ~Taken(t[q]) /\ Put([id |-> id[q], exp |-> t[q] + TTL]) /\ Serve(q, "served", id[q])
    <3>1. ~Live BY <2>3
    <3>2. id[q] \in KeyIds BY <1>7 DEF HeldSupported, Holders, SetNX
    <3>3. [id |-> id[q], exp |-> t[q] + TTL] # Nil BY <3>2
    <3> QED BY <1>7, <2>3, <3>1, <3>3 DEF SetNX, Put, Serve, Goto, req, world
  <2> QED BY <1>7, <2>1, <2>2, <2>3 DEF SetNX
<1>8. CASE cleanupExpired BY <1>8 DEF cleanupExpired, Put, req, world
<1>9. CASE Close BY <1>9 DEF Close, req, world
<1>10. CASE Tick BY <1>10 DEF Tick, req, world
<1>11. CASE Reconfigure BY <1>11 DEF Reconfigure, Keep, req, world
<1>12. CASE UNCHANGED vars BY <1>12 DEF vars
<1> QED BY <1>1, <1>2, <1>3, <1>4, <1>5, <1>6, <1>7, <1>8, <1>9, <1>10, <1>11, <1>12 DEF Next, Step

LEMMA SplitStep == TypeOK /\ TypeOK' /\ Ordered /\ Agreement /\ SplitNeedsLoss /\ [Next]_vars => SplitNeedsLoss'
<1> SUFFICES ASSUME TypeOK, TypeOK', Ordered, Agreement, SplitNeedsLoss, [Next]_vars PROVE SplitNeedsLoss'
  OBVIOUS
<1> USE SessionsAssumption DEF TypeOK, Ordered, Agreement, SplitNeedsLoss, Entry, isExpired, Live, Taken, Whole, InStore
<1>1. ASSUME NEW q \in Requests, Arrive(q) PROVE SplitNeedsLoss'
  BY <1>1 DEF Arrive, Serve, Then, Goto, Keep, req, world
<1>2. ASSUME NEW q \in Requests, Get(q) PROVE SplitNeedsLoss'
  BY <1>2 DEF Get, Missed, Found, Stale, Serve, Then, Goto, Keep, Taken, req, world
<1>3. ASSUME NEW q \in Requests, Drop(q) PROVE SplitNeedsLoss'
  BY <1>3 DEF Drop, Missed, Put, Keep, Serve, Then, Goto, req, world
<1>4. ASSUME NEW q \in Requests, Refresh(q) PROVE SplitNeedsLoss'
  BY <1>4 DEF Refresh, Put, Keep, Serve, Goto, req, world
<1>5. ASSUME NEW q \in Requests, Delete(q) PROVE SplitNeedsLoss'
  BY <1>5 DEF Delete, Put, Keep, Serve, Then, Goto, req, world
<1>6. ASSUME NEW q \in Requests, Select(q) PROVE SplitNeedsLoss'
  BY <1>6 DEF Select, Then, Goto, Keep, req, world
<1>7. ASSUME NEW q \in Requests, SetNX(q) PROVE SplitNeedsLoss'
  BY <1>7 DEF SetNX, Put, Keep, Serve, Then, Goto, Taken, req, world
<1>8. CASE cleanupExpired BY <1>8 DEF cleanupExpired, Put, req, world
<1>9. CASE Close BY <1>9 DEF Close, req, world
<1>10. CASE Tick BY <1>10 DEF Tick, req, world
<1>11. CASE Reconfigure BY <1>11 DEF Reconfigure, Keep, req, world
<1>12. CASE UNCHANGED vars BY <1>12 DEF vars
<1> QED BY <1>1, <1>2, <1>3, <1>4, <1>5, <1>6, <1>7, <1>8, <1>9, <1>10, <1>11, <1>12 DEF Next, Step

\* What a step may do to a live entry.
OnlyStaleGoes == Live /\ data' = Nil => \E q \in Requests : pc[q] \in {"delete", "redelete"} /\ pc'[q] # pc[q]

LEMMA KeptStep == TypeOK /\ HeldSupported /\ [Next]_vars => OnlyStaleGoes
<1> SUFFICES ASSUME TypeOK, HeldSupported, [Next]_vars PROVE OnlyStaleGoes
  OBVIOUS
<1> USE SessionsAssumption DEF TypeOK, Live, Taken, isExpired, OnlyStaleGoes
<1>1. ASSUME NEW q \in Requests, Arrive(q) PROVE OnlyStaleGoes
  BY <1>1 DEF Arrive, Serve, Then, Goto, Keep, req, world
<1>2. ASSUME NEW q \in Requests, Get(q) PROVE OnlyStaleGoes
  BY <1>2 DEF Get, Missed, Found, Stale, Serve, Then, Goto, Keep, Taken, req, world
<1>3. ASSUME NEW q \in Requests, Drop(q) PROVE OnlyStaleGoes
  BY <1>3 DEF Drop, Missed, Put, Keep, Serve, Then, Goto, req, world
<1>4. ASSUME NEW q \in Requests, Refresh(q) PROVE OnlyStaleGoes
  <2>1. id[q] \in KeyIds BY <1>4 DEF HeldSupported, Holders, Refresh
  <2>2. [id |-> id[q], exp |-> t[q] + TTL] # Nil BY <2>1 DEF Entry
  <2> QED BY <1>4, <2>2 DEF Refresh, Put, Keep, Serve, Goto, req, world
<1>5. ASSUME NEW q \in Requests, Delete(q) PROVE OnlyStaleGoes
  BY <1>5 DEF Delete, Put, Keep, Serve, Then, Goto, req, world
<1>6. ASSUME NEW q \in Requests, Select(q) PROVE OnlyStaleGoes
  BY <1>6 DEF Select, Then, Goto, Keep, req, world
<1>7. ASSUME NEW q \in Requests, SetNX(q) PROVE OnlyStaleGoes
  <2>1. id[q] \in KeyIds BY <1>7 DEF HeldSupported, Holders, SetNX
  <2>2. [id |-> id[q], exp |-> t[q] + TTL] # Nil BY <2>1 DEF Entry
  <2> QED BY <1>7, <2>2 DEF SetNX, Put, Keep, Serve, Then, Goto, Taken, req, world
<1>8. CASE cleanupExpired BY <1>8 DEF cleanupExpired, Put, req, world
<1>9. CASE Close BY <1>9 DEF Close, req, world
<1>10. CASE Tick BY <1>10 DEF Tick, req, world
<1>11. CASE Reconfigure BY <1>11 DEF Reconfigure, Keep, req, world
<1>12. CASE UNCHANGED vars BY <1>12 DEF vars
<1> QED BY <1>1, <1>2, <1>3, <1>4, <1>5, <1>6, <1>7, <1>8, <1>9, <1>10, <1>11, <1>12 DEF Next, Step

IInv == TypeOK /\ Ordered /\ HeldSupported /\ Agreement /\ SplitNeedsLoss

LEMMA IInvInit == Init => IInv
<1> SUFFICES ASSUME Init PROVE IInv
  OBVIOUS
<1> USE SessionsAssumption DEF Init
<1>1. TypeOK BY DEF TypeOK, Labels
<1>2. Ordered /\ HeldSupported BY DEF Ordered, HeldSupported, Holders
<1>3. Agreement /\ SplitNeedsLoss BY DEF Agreement, SplitNeedsLoss, Whole, InStore
<1> QED BY <1>1, <1>2, <1>3 DEF IInv

LEMMA IInvStep == IInv /\ [Next]_vars => IInv'
  BY TypesStep, OrderedStep, HeldStep, AgreementStep, SplitStep DEF IInv

LEMMA IInvAlways == Spec => []IInv
  BY IInvInit, IInvStep, PTL DEF Spec

\* getCachedKeyFromStore with the reads and writes around it: a session is split
\* over two keys only after it lost its entry.
THEOREM NoSplitWithoutLoss == Spec => []SplitNeedsLoss
<1>1. IInv => SplitNeedsLoss BY DEF IInv
<1> QED BY <1>1, IInvAlways, PTL

\* Whatever the store holds, a request is served with a key of its own pool.
THEOREM AlwaysSupported == Spec => []ServedSupported
<1>1. IInv => ServedSupported BY DEF IInv, HeldSupported, Holders, ServedSupported
<1> QED BY <1>1, IInvAlways, PTL

\* Store.Get and cleanupExpired: no renewed entry is taken for an expired one.
THEOREM RenewedIsKept == Spec => LiveEntryKept
<1>1. IInv /\ [Next]_vars =>
        [Live /\ data' = Nil => \E q \in Requests : pc[q] \in {"delete", "redelete"} /\ pc'[q] # pc[q]]_vars
  BY KeptStep DEF IInv, OnlyStaleGoes
<1> QED BY <1>1, IInvAlways, PTL DEF Spec, LiveEntryKept

\* Every variable keeps its type.
THEOREM SessionTypes == Spec => []TypeOK
<1>1. IInv => TypeOK BY DEF IInv
<1> QED BY <1>1, IInvAlways, PTL
====
