\* The watcher with two edits, in place or by a rename, while the secret and
\* Vault change; no signals.
CONSTANTS
    n1 = n1  c1 = c1  c2 = c2
    Names = {n1}
    Configs = {c1, c2}
    Schedulers <- OneScheduler
    Jobs = {j1, j2}
    SecretsOf <- AllNames
    NoJob = NoJob  NoSecret = NoSecret  BadFile = BadFile
    NoData = NoData  NoFile = NoFile
    ResultsCap = 1
    WatchConfig = TRUE
    EditsReplace = TRUE
    MayTerm = FALSE
    MaxEdits = 2
    MaxReloads = 0
    MaxRotations = 1
    MaxOutages = 1
SPECIFICATION FairSvcSpec
CHECK_DEADLOCK FALSE
PROPERTIES WatchedChangeApplied FilesConverge
