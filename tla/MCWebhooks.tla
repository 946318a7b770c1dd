------------------------------- MODULE MCWebhooks -------------------------------
(* A small instance of Webhooks for TLC. *)
EXTENDS Webhooks, TLC

\* A single node: its runner id is empty.
OneId == [n \in Nodes |-> ""]
WorkerSymmetry == Permutations(Workers)

\* Bound: of a failing call, a crash, an edit and a redelivery at most two happen,
\* and not the last two together.
FewTroubles ==
  /\ (MaxFaults - faults) + (MaxStops - stops) + (MaxEdits - edits) + (MaxRedeliveries - redeliveries) <= 2
  /\ edits = MaxEdits \/ redeliveries = MaxRedeliveries
====
