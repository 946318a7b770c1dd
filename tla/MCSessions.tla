------------------------------- MODULE MCSessions -------------------------------
(* A small instance of Sessions for TLC. *)
EXTENDS Sessions, TLC
CONSTANTS k1, k2, k3

\* All the keys, the first one withdrawn, and one key alone.
SomePools == {{k1, k2, k3}, {k2, k3}, {k3}}
RequestSymmetry == Permutations(Requests)
====
