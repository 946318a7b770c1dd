----------------------------- MODULE MCRetryLoop -----------------------------
(* Small instances of RetryLoop for TLC. *)
EXTENDS RetryLoop
====
