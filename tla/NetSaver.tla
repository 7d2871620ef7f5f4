------------------------------ MODULE NetSaver ------------------------------
(***************************************************************************)
(* The Wi-Fi saver of s22-netpolicy.py: with the screen off and mobile     *)
(* data as the uplink, a Wi-Fi that is not connected is parked so that its *)
(* scans stop waking the phone, and given back when that ends.  The daemon *)
(* (its tick reduced to what the saver reads), the `off', `on' and         *)
(* `saver' commands, SIGTERM, SIGKILL and the restart.                     *)
(*                                                                         *)
(* Times are in passes of the loop.  `barred' is the kill switch; the hold *)
(* file of s22-net-deadman bars parking in the same way and is left out.   *)
(***************************************************************************)
EXTENDS Integers

CONSTANTS
  SaverGrace,  \* wifi_saver_grace_s
  Every,       \* wifi_saver_discover_every_s
  Window,      \* wifi_saver_discover_s
  MaxKills,    \* bound: SIGKILLs and SIGTERMs with no command unrecorded
  MaxCuts,     \* bound: those that land between a park and its record
  MaxFails,    \* bound: commands that fail
  MaxClis,     \* bound: commands given at the command line
  MaxEdits     \* bound: changes of wifi_saver_method

ASSUME SaverAssumption ==
  /\ SaverGrace \in Nat \ {0} /\ Every \in Nat \ {0} /\ Window \in Nat \ {0}
  /\ MaxKills \in Nat /\ MaxCuts \in Nat /\ MaxFails \in Nat /\ MaxClis \in Nat /\ MaxEdits \in Nat

VARIABLES
  place,    \* where the daemon and the command line are
  paused, barred, cfgMethod,          \* files the daemon reads
  file,     \* the saver's state file says parked
  parked, method,                     \* WifiSaver.parked, .method
  eligibleFor,   \* passes since eligible_since, -1 for None
  discoverIn,    \* passes until next_discover
  windowLeft,    \* passes until discover_until, -1 for None
  seen,     \* the uplink this tick chose
  wpa,      \* wpa_supplicant scans and connects by itself
  link,     \* wlan0 is up
  assoc,    \* wlan0 is connected
  known, mobile, screen,              \* a configured network is near; the data call; the display
  kills, cuts, fails, clis, edits

memory == <<parked, method, eligibleFor, discoverIn, windowLeft, seen>>
radio == <<wpa, link, assoc>>
world == <<known, mobile, screen>>
files == <<paused, barred, cfgMethod, file>>
budget == <<kills, cuts, fails, clis, edits>>
saverVars == <<place, paused, barred, cfgMethod, file, parked, method, eligibleFor, discoverIn,
          windowLeft, seen, wpa, link, assoc, known, mobile, screen,
          kills, cuts, fails, clis, edits>>

Processes == {"daemon", "cli"}
Methods == {"disconnect", "down"}
Works == wpa /\ link

SaverInit ==
  /\ place = [p \in Processes |-> IF p = "cli" THEN "idle" ELSE "down"]
  /\ paused = FALSE /\ barred = FALSE /\ cfgMethod = "disconnect" /\ file = FALSE
  /\ parked = FALSE /\ method = "none" /\ eligibleFor = -1 /\ discoverIn = 0
  /\ windowLeft = -1 /\ seen = "none"
  /\ wpa = TRUE /\ link = TRUE /\ assoc = FALSE
  /\ known \in BOOLEAN /\ mobile \in BOOLEAN /\ screen \in {"on", "off"}
  /\ kills = 0 /\ cuts = 0 /\ fails = 0 /\ clis = 0 /\ edits = 0

Goes(p, to) == place' = [place EXCEPT ![p] = to]

-----------------------------------------------------------------------------
(* Commands.  A failed one changes nothing; a timeout of `ip' raises.      *)

Fail == fails < MaxFails /\ fails' = fails + 1

(* One command of process p: its effect and the next step, or a failure    *)
(* that goes on all the same or, raised, ends in the step given for it.    *)
Command(p, effect, next, raised) ==
  \/ effect /\ Goes(p, next) /\ UNCHANGED fails
  \/ Fail /\ UNCHANGED radio /\ (Goes(p, next) \/ Goes(p, raised))

LinkUp == link' = TRUE /\ UNCHANGED <<wpa, assoc>>
LinkDown == link' = FALSE /\ assoc' = FALSE /\ UNCHANGED wpa
Disconnect == wpa' = FALSE /\ assoc' = FALSE /\ UNCHANGED link
Reconnect == wpa' = TRUE /\ UNCHANGED <<link, assoc>>

-----------------------------------------------------------------------------
(* WifiSaver.unpark, by the daemon's tick, by its start and by a command:  *)
(* both ways back, then the record.                                        *)

(* Where p goes on after an unpark, and where an exception takes it. *)
AfterUnpark(p) == IF p = "cli" THEN "idle" ELSE IF parked THEN "sleep" ELSE "tick"
Raised(p) == IF p = "cli" THEN "idle" ELSE IF place[p] = "recover" THEN "down" ELSE "sleep"

UnparkLink(p) ==
  /\ place[p] \in {"unpark", "recover"}
  /\ Command(p, LinkUp, "reconnect", Raised(p))
  /\ UNCHANGED <<files, memory, world, kills, cuts, clis, edits>>

UnparkReconnect(p) ==
  /\ place[p] = "reconnect"
  /\ Command(p, Reconnect, "record", "record")
  /\ UNCHANGED <<files, memory, world, kills, cuts, clis, edits>>

(* The command's WifiSaver is its own; only the file is shared. *)
UnparkRecord(p) ==
  /\ place[p] = "record" /\ Goes(p, AfterUnpark(p))
  /\ file' = FALSE
  /\ IF p = "cli" THEN UNCHANGED memory
     ELSE /\ parked' = FALSE /\ method' = "none" /\ windowLeft' = -1 /\ eligibleFor' = -1
          /\ UNCHANGED <<discoverIn, seen>>
  /\ UNCHANGED <<paused, barred, cfgMethod, radio, world, budget>>

-----------------------------------------------------------------------------
(* The daemon *)

(* saver_recover_at_start, then the loop. *)
MutRecoverAtStart ==
  /\ place["daemon"] = "down" /\ Goes("daemon", "tick")
  /\ UNCHANGED <<files, memory, radio, world, budget>>
RecoverAtStart ==
  /\ place["daemon"] = "down"
  /\ Goes("daemon", IF file THEN "recover" ELSE "tick")
  /\ UNCHANGED <<files, memory, radio, world, budget>>

(* The tick reads the pause flag and the links first. *)
Sample ==
  /\ place["daemon"] = "tick"
  /\ seen' = IF assoc THEN "wifi" ELSE IF mobile THEN "mobile" ELSE "none"
  /\ Goes("daemon", IF ~paused THEN "step" ELSE IF parked THEN "unpark" ELSE "sleep")
  /\ UNCHANGED <<files, parked, method, eligibleFor, discoverIn, windowLeft, radio, world, budget>>

saver_eligible == ~barred /\ screen = "off" /\ seen = "mobile"

(* WifiSaver.step up to the command it runs. *)
NotEligible ==
  /\ ~saver_eligible
  /\ eligibleFor' = -1
  /\ Goes("daemon", IF parked THEN "unpark" ELSE "sleep")
MutUnparked ==
  /\ saver_eligible /\ ~parked
  /\ eligibleFor' = 0
  /\ Goes("daemon", IF eligibleFor' >= SaverGrace THEN "park" ELSE "sleep")
Unparked ==
  /\ saver_eligible /\ ~parked
  /\ eligibleFor' = IF eligibleFor = -1 THEN 0 ELSE eligibleFor
  /\ Goes("daemon", IF eligibleFor' >= SaverGrace THEN "park" ELSE "sleep")
Parked ==
  /\ saver_eligible /\ parked
  /\ Goes("daemon", IF cfgMethod # method /\ windowLeft = -1 THEN "unpark"
                    ELSE IF windowLeft = 0 THEN "finish"
                    ELSE IF windowLeft = -1 /\ discoverIn = 0 THEN "discover"
                    ELSE "sleep")
  /\ UNCHANGED eligibleFor
Step ==
  /\ place["daemon"] = "step"
  /\ NotEligible \/ Unparked \/ Parked
  /\ UNCHANGED <<files, parked, method, discoverIn, windowLeft, seen, radio, world, budget>>

(* park: the command, then the record.  (method is read only when parked.) *)
Park ==
  /\ place["daemon"] = "park"
  /\ method' = cfgMethod
  /\ \/ cfgMethod = "down" /\ Command("daemon", LinkDown, "parking", "sleep")
     \/ cfgMethod = "disconnect" /\ Command("daemon", Disconnect, "parking", "parking")
  /\ UNCHANGED <<files, parked, eligibleFor, discoverIn, windowLeft, seen, world, kills, cuts,
                 clis, edits>>
ParkRecord ==
  /\ place["daemon"] = "parking" /\ Goes("daemon", "sleep")
  /\ parked' = TRUE /\ file' = TRUE
  /\ discoverIn' = Every /\ windowLeft' = -1
  /\ UNCHANGED <<paused, barred, cfgMethod, method, eligibleFor, seen, radio, world, budget>>

(* start_discovery: the link comes up, or one scan without connecting. *)
Discover ==
  /\ place["daemon"] = "discover"
  /\ \/ method = "down" /\ Command("daemon", LinkUp, "window", "sleep")
     \/ /\ method = "disconnect" /\ Goes("daemon", "window") /\ UNCHANGED <<radio, fails>>
  /\ UNCHANGED <<files, memory, world, kills, cuts, clis, edits>>
OpenWindow ==
  /\ place["daemon"] = "window" /\ Goes("daemon", "sleep")
  /\ windowLeft' = Window
  /\ UNCHANGED <<files, parked, method, eligibleFor, discoverIn, seen, radio, world, budget>>

(* finish_discovery: unpark if something was found, else park again. *)
MutFound == assoc
Found == IF method = "down" THEN assoc ELSE known
Finish ==
  /\ place["daemon"] = "finish"
  /\ windowLeft' = -1 /\ discoverIn' = Every
  /\ \/ Found /\ Goes("daemon", "unpark") /\ UNCHANGED <<radio, fails>>
     \/ /\ Found /\ method = "disconnect" /\ Fail   \* the scan failed
        /\ Disconnect /\ Goes("daemon", "again")
     \/ ~Found /\ method = "down" /\ Command("daemon", LinkDown, "again", "sleep")
     \/ ~Found /\ method = "disconnect" /\ Command("daemon", Disconnect, "again", "again")
  /\ UNCHANGED <<files, parked, method, eligibleFor, seen, world, kills, cuts, clis, edits>>
FinishRecord ==
  /\ place["daemon"] = "again" /\ Goes("daemon", "sleep")
  /\ file' = parked
  /\ UNCHANGED <<paused, barred, cfgMethod, memory, radio, world, budget>>

Down(n) == IF n > 0 THEN n - 1 ELSE n
(* The poll interval. *)
PollWait ==
  /\ place["daemon"] = "sleep" /\ Goes("daemon", "tick")
  /\ eligibleFor' = IF eligibleFor \in 0 .. SaverGrace - 1 THEN eligibleFor + 1 ELSE eligibleFor
  /\ discoverIn' = Down(discoverIn) /\ windowLeft' = Down(windowLeft)
  /\ UNCHANGED <<files, parked, method, seen, radio, world, budget>>

Forgotten == parked' = FALSE /\ method' = "none" /\ eligibleFor' = -1 /\ discoverIn' = 0
             /\ windowLeft' = -1 /\ seen' = "none"

(* A kill leaves the radio and the file as they are.  One that finds the   *)
(* radio parked and not recorded is counted apart.                         *)
Stop == IF place["daemon"] = "parking" THEN cuts < MaxCuts /\ cuts' = cuts + 1 /\ UNCHANGED kills
        ELSE kills < MaxKills /\ kills' = kills + 1 /\ UNCHANGED cuts
Kill ==
  /\ place["daemon"] # "down" /\ Stop /\ Goes("daemon", "down") /\ Forgotten
  /\ UNCHANGED <<files, radio, world, fails, clis, edits>>

(* _term unparks what the daemon knows to be parked. *)
Term ==
  /\ place["daemon"] # "down" /\ Stop /\ Goes("daemon", "down") /\ Forgotten
  /\ IF parked THEN link' = TRUE /\ wpa' = TRUE /\ file' = FALSE ELSE UNCHANGED <<link, wpa, file>>
  /\ UNCHANGED <<paused, barred, cfgMethod, assoc, world, fails, clis, edits>>

-----------------------------------------------------------------------------
(* The command line: `off' and `saver off' write their flag, then unpark   *)
(* what the state file says is parked; `on' and `saver on' remove it.      *)
Cli == place["cli"] = "idle" /\ clis < MaxClis /\ clis' = clis + 1

CliOff ==
  /\ Cli /\ Goes("cli", "read")
  /\ \/ ~paused /\ paused' = TRUE /\ UNCHANGED barred
     \/ ~barred /\ barred' = TRUE /\ UNCHANGED paused
  /\ UNCHANGED <<cfgMethod, file, memory, radio, world, kills, cuts, fails, edits>>
CliReads ==
  /\ place["cli"] = "read" /\ Goes("cli", IF file THEN "unpark" ELSE "idle")
  /\ UNCHANGED <<files, memory, radio, world, budget>>
CliOn ==
  /\ Cli
  /\ \/ paused /\ paused' = FALSE /\ UNCHANGED barred
     \/ barred /\ barred' = FALSE /\ UNCHANGED paused
  /\ UNCHANGED <<place, cfgMethod, file, memory, radio, world, kills, cuts, fails, edits>>
Edit ==
  /\ edits < MaxEdits /\ edits' = edits + 1
  /\ cfgMethod' \in Methods \ {cfgMethod}
  /\ UNCHANGED <<place, paused, barred, file, memory, radio, world, kills, cuts, fails, clis>>

-----------------------------------------------------------------------------
(* The world *)
Associate ==
  /\ Works /\ known /\ ~assoc /\ assoc' = TRUE
  /\ UNCHANGED <<place, files, memory, wpa, link, world, budget>>
Move ==
  /\ known' = ~known /\ assoc' = (assoc /\ known')
  /\ UNCHANGED <<place, files, memory, wpa, link, mobile, screen, budget>>
Mobile == mobile' = ~mobile /\ UNCHANGED <<place, files, memory, radio, known, screen, budget>>
Screen ==
  /\ screen' = IF screen = "on" THEN "off" ELSE "on"
  /\ UNCHANGED <<place, files, memory, radio, known, mobile, budget>>

DaemonStep ==
  \/ RecoverAtStart \/ Sample \/ Step \/ Park \/ ParkRecord \/ Discover \/ OpenWindow
  \/ Finish \/ FinishRecord \/ PollWait
  \/ UnparkLink("daemon") \/ UnparkReconnect("daemon") \/ UnparkRecord("daemon")
CliStep == CliReads \/ UnparkLink("cli") \/ UnparkReconnect("cli") \/ UnparkRecord("cli")

SaverNext == DaemonStep \/ CliStep \/ CliOff \/ CliOn \/ Edit \/ Kill \/ Term
        \/ Associate \/ Move \/ Mobile \/ Screen

SaverSpec == SaverInit /\ [][SaverNext]_saverVars
(* keepalive restarts the daemon, a command runs to its end, and           *)
(* wpa_supplicant connects when it is let to time and again.               *)
FairSaverSpec == SaverSpec /\ WF_saverVars(DaemonStep) /\ WF_saverVars(CliStep) /\ SF_saverVars(Associate)

-----------------------------------------------------------------------------
(* The state space. *)
Labels == {"down", "tick", "step", "park", "parking", "discover", "window", "finish", "again",
           "sleep", "recover", "unpark", "reconnect", "record", "idle", "read"}
SaverTypeOK ==
  /\ place \in [Processes -> Labels]
  /\ paused \in BOOLEAN /\ barred \in BOOLEAN /\ cfgMethod \in Methods /\ file \in BOOLEAN
  /\ parked \in BOOLEAN /\ method \in Methods \cup {"none"}
  /\ eligibleFor \in -1 .. SaverGrace /\ discoverIn \in 0 .. Every /\ windowLeft \in -1 .. Window
  /\ seen \in {"wifi", "mobile", "none"}
  /\ wpa \in BOOLEAN /\ link \in BOOLEAN /\ assoc \in BOOLEAN
  /\ known \in BOOLEAN /\ mobile \in BOOLEAN /\ screen \in {"on", "off"}
  /\ kills \in 0 .. MaxKills /\ cuts \in 0 .. MaxCuts /\ fails \in 0 .. MaxFails
  /\ clis \in 0 .. MaxClis /\ edits \in 0 .. MaxEdits
  /\ (parked => method # "none") /\ (assoc => Works /\ known)

(* Nothing went wrong that the code does not recover from. *)
Sound == cuts = 0 /\ fails = 0 /\ (kills = 0 \/ clis = 0)

(* A radio that is off is known to be: in the daemon's memory, in what it  *)
(* is about to record, or in the file that the next start reads.  It is    *)
(* what every way back rests on, whoever was killed or gave a command.     *)
ParkedIsKnown ==
  Sound /\ ~Works => \/ parked \/ place["daemon"] = "parking"
                     \/ file /\ place["daemon"] \in {"down", "recover", "reconnect"}

(* Module comment: "Screen on, [...] the kill switch, "off", a deadman     *)
(* restore (hold file) or daemon exit -> unpark": once one of these holds  *)
(* for good the Wi-Fi works for good.                                      *)
WifiComesBack ==
  <>[](Sound /\ (screen = "on" \/ barred \/ paused)) => <>[]Works

(* "a known network found -> unpark": a phone that stays near a configured *)
(* network is connected again and again, whatever the method.              *)
KnownIsFound == <>[](Sound /\ known) => []<>assoc

(* "wpa_supplicant stops scanning": away from every network, with the      *)
(* screen off and mobile data up, the radio scans only in the discovery    *)
(* windows, also after commands that failed.                               *)
ScansEnd ==
  <>[](~known /\ mobile /\ screen = "off" /\ ~barred /\ ~paused)
    => <>[](~Works \/ windowLeft # -1 \/ place["daemon"] \in {"window", "finish"})
=============================================================================
