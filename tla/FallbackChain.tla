----------------------------- MODULE FallbackChain -----------------------------
(***************************************************************************)
(* What handleRequest and handleStreamRequest promise their caller: "If    *)
(* the primary provider fails, it will try each fallback provider in order *)
(* until one succeeds", and if none does the primary error is returned.    *)
(* How an attempt comes to its outcome is RequestPath's business.          *)
(***************************************************************************)
EXTENDS Naturals, Sequences

CONSTANTS
  MaxFallbacks,  \* bound on the length of the fallback list
  Outcomes,      \* what an attempt may return: records with field err
  Skipped,       \* stands for a fallback whose provider is not configured
  NoResult

VARIABLES
  fallbacks,     \* number of fallbacks of the request
  trail,         \* outcome of each link: the primary first, then the fallbacks
  result         \* what the caller is given

vars == <<fallbacks, trail, result>>

Init ==
  /\ fallbacks \in 0..MaxFallbacks
  /\ trail = <<>>
  /\ result = NoResult

\* A success ends the chain, and so does an error that forbids fallbacks.
Decided == trail # <<>> /\ trail[Len(trail)].err \in {"none", "veto", "cancelled"}

\* Routing may still change the list before the first attempt.
Route ==
  /\ trail = <<>> /\ result = NoResult
  /\ fallbacks' \in 0..MaxFallbacks
  /\ UNCHANGED <<trail, result>>

\* The request is refused before any provider is tried.
Reject ==
  /\ trail = <<>> /\ result = NoResult
  /\ result' \in {o \in Outcomes : o.err # "none"}
  /\ UNCHANGED <<fallbacks, trail>>

\* The next link is tried, or passed over when it is a fallback.
Link ==
  /\ result = NoResult
  /\ ~Decided
  /\ Len(trail) <= fallbacks
  /\ \E o \in Outcomes \cup {Skipped} :
       /\ trail = <<>> => o # Skipped
       /\ trail' = Append(trail, o)
  /\ UNCHANGED <<fallbacks, result>>

\* The decisive outcome, or the primary's once every fallback has failed.
Answer ==
  /\ result = NoResult
  /\ trail # <<>>
  /\ \/ Decided /\ result' = trail[Len(trail)]
     \/ ~Decided /\ Len(trail) = fallbacks + 1 /\ result' = trail[1]
  /\ UNCHANGED <<fallbacks, trail>>

Next == Route \/ Reject \/ Link \/ Answer

Spec == Init /\ [][Next]_vars
====
