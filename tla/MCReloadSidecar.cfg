\* Two rotations; the pipe holds the events of a write and one more; the
\* application or the script ends twice.
CONSTANTS
    MaxVersion = 2
    MaxEvents = 4
    MaxPolls = 2
    MaxEnds = 2
SPECIFICATION FairSpec
PROPERTY AppCatchesUp
