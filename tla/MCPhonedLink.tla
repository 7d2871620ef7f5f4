---------------------------- MODULE MCPhonedLink ----------------------------
(* Two threads, two commands and two sequence numbers: the numbers wrap    *)
(* round and run out, and the same command is in flight twice, once with   *)
(* and once without strict matching.                                       *)
EXTENDS PhonedLink, TLC

CONSTANTS worker, http, read, write

MCClients == {worker, http}
MCCmds == {read, write}
MCKinds ==
    {[cmd |-> read, strict |-> FALSE, want |-> TRUE],
     [cmd |-> read, strict |-> TRUE, want |-> TRUE],
     [cmd |-> write, strict |-> FALSE, want |-> FALSE]}
Symmetry == Permutations(MCClients)
=============================================================================
