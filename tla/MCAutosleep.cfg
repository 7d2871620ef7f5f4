SPECIFICATION FairSpec
CONSTANTS
    ssh = ssh
    modem = modem
    Inhibitors <- MCInhibitors
    Sources <- MCSources
    Grace = 2
    AwakeS = 2
    NetAwakeS = 1
    FirstBackoff = 1
    MaxBackoff = 3
    Rests <- MCRests
    SuspendOnUsb = FALSE
    Crashes = TRUE
INVARIANTS
    NoEventSleptOn
    RestedBeforeSleep
    OneLateSuspend
PROPERTIES
    EventuallySleeps
    ScreenOnGovernor
