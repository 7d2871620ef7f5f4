---------------------------- MODULE MCPhonedPin -----------------------------
(* Up to two HTTP threads and the worker.                                  *)
EXTENDS PhonedPin

CONSTANTS a, b, worker
=============================================================================
