---------------------------- MODULE MCAutosleep ----------------------------
(* Small instance of Autosleep: a grace of two polls, one inhibitor and    *)
(* one wakeup source, which is enough for every interleaving of one event, *)
(* one inhibitor and one command with a pass of the loop.                  *)
EXTENDS Autosleep

CONSTANTS ssh, modem

MCInhibitors == {ssh}
MCSources == {modem}
MCRests == <<1, 2, 3>>
=============================================================================
