\* Two descriptions, one of which can never be written in full; two versions,
\* two jobs per run, two runs, two failures.
CONSTANTS
    p = p  q = q  r = r  user = user  pass = pass  good = good  clash = clash
    Files = {p, q, r}
    Basename <- Base
    Confs = {good, clash}
    FileSeq <- Lists
    Templates <- Names
    MaxVersion = 1
    MaxJobs = 2
    MaxRuns = 2
    MaxFailures = 1
    ResultsCap = 1
    Absent = Absent
SPECIFICATION FromGood
INVARIANTS SecretFilesTypeOK SuccessMeansWritten ReadyMeansWritten StatusFollows
PROPERTIES LastVersionWins BecomesReady
