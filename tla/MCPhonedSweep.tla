--------------------------- MODULE MCPhonedSweep ----------------------------
(* A message of one part, one of two parts and, in one run, a status       *)
(* report.                                                                 *)
EXTENDS PhonedSweep

CONSTANTS a, b1, b2, r, A, B, R

MCMsgs == {A, B, R}
MCMsgOf == [p \in Parts |-> IF p = a THEN A ELSE IF p = r THEN R ELSE B]
MCNo == [p \in Parts |-> IF p = b2 THEN 2 ELSE 1]
MCReports == {r} \cap Parts
=============================================================================
