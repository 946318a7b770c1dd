-------------------------------- MODULE MCJobs --------------------------------
(* Small instances of Jobs for TLC. *)
EXTENDS Jobs, TLC
CONSTANTS j1, j2, g

\* The jobs have one partitioning key, or none.
OneKey == [j \in JobIds |-> g]
NoKeys == [j \in JobIds |-> NoKey]

\* The runner ids as the server passes them, and as a cluster is meant to.
AllEmpty == [r \in Runners |-> NoId]
NodeIds  == [r \in Runners |-> r]
EmptyIds == {AllEmpty}
AnyIds   == {AllEmpty, NodeIds}

Symmetry == Permutations(Gos) \cup Permutations(Runners)

\* Bound: a job that is cancelled meets one failure only.
FewTroubles == cancelling \cup told # {} => trouble > 0

\* The two jobs are alike: j1 is the name of the one that is stamped first.
StampedFirst == born[j2] > 0 => born[j1] > 0 /\ Older(j1, j2)
====
