--------------------------- MODULE MCPhonedOutbox ---------------------------
(* Two or three calls of send_sms; one message has two parts.              *)
EXTENDS PhonedOutbox, TLC

CONSTANTS m1, m2, m3, reader, worker

MCNParts == [m \in Msgs |-> IF m = m1 THEN 2 ELSE 1]
OnePartCalls == Permutations({m2, m3})
=============================================================================
