--------------------------- MODULE MCProviderQueue ---------------------------
(* Small instances of ProviderQueue for TLC. *)
EXTENDS ProviderQueue, TLC

\* The third caller plays a part of its own (see FewActors).
CONSTANT Third

\* Streaming requests are not interchangeable with the others.
Symmetry == Permutations((Requests \ Streams) \ Third) \cup Permutations(Slots)
            \cup Permutations(Workers) \cup Permutations(Admins)

\* Bound: with two lifecycle calls at most one context ends, and a third caller takes
\* part only in a single update, with none.
Begun == {r \in Requests : pc[r] # "lookup" \/ r \in ctxDone}
FewActors ==
  /\ (\A a \in Admins : apc[a] # "idle") => Cardinality(ctxDone) <= 1
  /\ Third \cap Begun # {} =>
       /\ ctxDone = {} /\ Begun = Requests
       /\ \E a \in Admins : apc[a] \in UpdatePcs /\ \A b \in Admins \ {a} : apc[b] = "idle"
====
