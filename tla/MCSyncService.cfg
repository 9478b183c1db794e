\* Two SIGHUPs, so that one may arrive during a reload, an edit of the file and
\* SIGTERM at any time.
CONSTANTS
    n1 = n1  c1 = c1  c2 = c2
    Names = {n1}
    Configs = {c1, c2}
    Schedulers <- ThreeSchedulers
    Jobs = {j1, j2}
    SecretsOf <- AllNames
    NoJob = NoJob  NoSecret = NoSecret  BadFile = BadFile
    NoData = NoData  NoFile = NoFile
    ResultsCap = 1
    WatchConfig = FALSE
    EditsReplace = FALSE
    MayTerm = TRUE
    MaxEdits = 1
    MaxReloads = 2
    MaxRotations = 0
    MaxOutages = 0
SPECIFICATION FromFirst
CHECK_DEADLOCK FALSE
INVARIANTS SvcTypeOK ServesItsConfig
PROPERTIES ReloadTakesEffect FilesConverge SchedulerContract ShutdownCompletes
