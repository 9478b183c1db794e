\* One scheduler, two names, three goroutines at a time (both names served
\* while a replaced job drains), a results channel of one slot, often full.
\* No symmetry, for liveness.
CONSTANTS
    Schedulers = {s1}
    Names = {n1, n2}
    Configs = {c1}
    Jobs = {j1, j2, j3}
    NoJob = NoJob
    NoSecret = NoSecret
    ResultsCap = 1
SPECIFICATION FairSpec
INVARIANTS TypeOK NoDoubleClose NoOrphanJob
PROPERTIES NoRepeatAfterStop StoppedJobEnds LiveJobSyncs
