----------------------------- MODULE ExclusiveLock -----------------------------
(***************************************************************************)
(* What a lock promises: at any time at most one client holds it, and it   *)
(* passes from one to the next only through nobody.                        *)
(***************************************************************************)
CONSTANT Clients
VARIABLE holders

Init == holders = {}

Acquire(c) == holders = {} /\ holders' = {c}

Release(c) == holders = {c} /\ holders' = {}

Next == \E c \in Clients : Acquire(c) \/ Release(c)

Spec == Init /\ [][Next]_holders
====
