--------------------------- MODULE MCDistributedLock ---------------------------
(* Small instances of DistributedLock for TLC. *)
EXTENDS DistributedLock
CONSTANTS h1, h2
\* h2's clock is ahead of the others'.
OneFast == [h \in Handles |-> IF h = h2 THEN MaxSkew ELSE 0]
====
