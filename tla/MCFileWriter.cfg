\* Two writers of the same file, one of which sets an owner, two directories
\* and one restart.  No symmetry, for liveness.
CONSTANTS
    d1 = d1  d2 = d2  w1 = w1  w2 = w2  a = a  b = b
    Writers = {w1, w2}
    Paths = {p1}
    Contents = {a, b}
    Tmps = {f1, f2}
    ChownWriters = {w1}
    TmpLike = {}
    Dirs = {d1, d2}
    DirOf <- Places
    Matched <- Patterns
    MaxRuns = 2
    Absent = Absent  NoCall = NoCall  NoTmp = NoTmp  Partial = Partial
SPECIFICATION BoundedSpec
INVARIANTS TypeOK NeverPartial CleanupComplete
PROPERTIES Refinement CallReturns
