------------------------------ MODULE FileWriter ------------------------------
(***************************************************************************)
(* internal/filewriter: WriteFile of writer.go, called by the job          *)
(* goroutines, and CleanupOrphanedTempFiles of cleanup.go, which main runs *)
(* once at every start, after the jobs were started.  Files live on a disk *)
(* that outlives the process; the process may die between any two system   *)
(* calls and be started again.                                             *)
(*                                                                         *)
(* A temporary file is named after its output file with a random suffix, so *)
(* no two calls share a name.  The model numbers the runs of the process   *)
(* and notes in which run, and in which directory, a temporary file was    *)
(* made: that of its output file.                                          *)
(***************************************************************************)
EXTENDS Naturals

CONSTANTS
    Writers, Paths, Contents, Absent, NoCall,
    Tmps,           \* names temporary files may get
    NoTmp,          \* a name no temporary file has, or no name
    Partial,        \* content of a file that is not written to its end
    ChownWriters,   \* writers whose secret configures an owner or a group
    TmpLike,        \* output files whose own name matches *.tmp.*
    Dirs, DirOf,    \* directories, and the one an output file is in
    Matched,        \* directories that the pattern of a directory matches
    MaxRuns         \* bound on the runs of the process

ASSUME FileWriterAssumption ==
    /\ Absent \notin Contents /\ Partial \notin Contents \cup {Absent}
    /\ NoTmp \notin Tmps
    /\ Tmps \cap Paths = {}
    /\ NoCall \notin [path : Paths, content : Contents]
    /\ MaxRuns \in Nat \ {0}
    /\ ChownWriters \subseteq Writers /\ TmpLike \subseteq Paths
    /\ DirOf \in [Paths -> Dirs] /\ Matched \in [Dirs -> SUBSET Dirs]

VARIABLES
    target,     \* output files on disk
    tmp,        \* temporary files on disk
    call,       \* the WriteFile call a writer is in
    pc,         \* where it is in WriteFile
    own,        \* the name of its temporary file
    cleaner,    \* CleanupOrphanedTempFiles: "glob", "removing" or "done"
    todo,       \* directories it has yet to look into
    passed,     \* directories it has not seen, and will not in this run
    matches,    \* what Glob returned and is still to be removed
    spared,     \* files whose removal failed in this run
    run         \* number of the run of the process

vars == <<target, tmp, call, pc, own, cleaner, todo, passed, matches, spared, run>>

Call == [path : Paths, content : Contents]
TmpFile == [body : Contents \cup {Partial}, dir : Dirs, run : 1..MaxRuns]

TypeOK ==
    /\ target \in [Paths -> Contents \cup {Partial, Absent}]
    /\ tmp \in [Tmps -> TmpFile \cup {NoTmp}]
    /\ call \in [Writers -> Call \cup {NoCall}]
    /\ pc \in [Writers -> {"idle", "check", "create", "fill", "chown", "rename"}]
    /\ own \in [Writers -> Tmps \cup {NoTmp}]
    /\ cleaner \in {"glob", "removing", "done"}
    /\ todo \subseteq Dirs /\ passed \subseteq Dirs
    /\ matches \subseteq Tmps \cup Paths /\ spared \subseteq Tmps \cup Paths
    /\ run \in 1..MaxRuns

\* The directories of the files of a configuration, in which the output files
\* of a start are; those of an earlier configuration may not be among them.
Configured == (SUBSET Dirs) \ {{}}

Init ==
    /\ target = [p \in Paths |-> Absent]
    /\ tmp = [f \in Tmps |-> NoTmp]
    /\ call = [w \in Writers |-> NoCall]
    /\ pc = [w \in Writers |-> "idle"]
    /\ own = [w \in Writers |-> NoTmp]
    /\ todo \in Configured /\ passed = Dirs \ todo
    /\ cleaner = "glob" /\ matches = {} /\ spared = {}
    /\ run = 1

-----------------------------------------------------------------------------
cleanVars == <<cleaner, todo, passed, matches, spared, run>>

\* A name that was never given to a file that still matters.
Fresh(f) ==
    /\ tmp[f] = NoTmp /\ f \notin matches
    /\ \A w \in Writers : own[w] # f

\* WriteFile returns to its caller.
Return(w) ==
    /\ call' = [call EXCEPT ![w] = NoCall]
    /\ pc' = [pc EXCEPT ![w] = "idle"]
    /\ own' = [own EXCEPT ![w] = NoTmp]

Goto(w, l) ==
    /\ pc' = [pc EXCEPT ![w] = l]
    /\ UNCHANGED call

\* os.Remove of a writer's own temporary file; the error is ignored.
RemoveOwn(w) == tmp' = [tmp EXCEPT ![own[w]] = NoTmp]

\* Mutant of Begin: the call loses its path.
BeginWithoutPath(w, c) ==
    /\ pc[w] = "idle"
    /\ call' = [call EXCEPT ![w] = [content |-> c.content]]
    /\ pc' = [pc EXCEPT ![w] = "check"]
    /\ UNCHANGED <<target, tmp, own, cleanVars>>

Begin(w, c) ==
    /\ pc[w] = "idle"
    /\ call' = [call EXCEPT ![w] = c]
    /\ pc' = [pc EXCEPT ![w] = "check"]
    /\ UNCHANGED <<target, tmp, own, cleanVars>>

\* Size, path, file type and directory: each may refuse the call.
Check(w) ==
    /\ pc[w] = "check"
    /\ \/ Goto(w, "create") /\ UNCHANGED own
       \/ Return(w)
    /\ UNCHANGED <<target, tmp, cleanVars>>

\* os.WriteFile opens the temporary file, which may fail ...
CreateTmp(w) ==
    /\ pc[w] = "create"
    /\ \/ \E f \in Tmps :
            /\ Fresh(f)
            /\ tmp' = [tmp EXCEPT ![f] = 
                    [body |-> Partial, dir |-> DirOf[call[w].path], run |-> run]]
            /\ own' = [own EXCEPT ![w] = f]
            /\ Goto(w, "fill")
       \/ Return(w) /\ UNCHANGED tmp
    /\ UNCHANGED <<target, cleanVars>>

\* Mutant of FillTmp: the error of the write is ignored.
FillTmpIgnoresError(w) ==
    /\ pc[w] = "fill"
    /\ \/ tmp[own[w]] # NoTmp
          /\ tmp' = [tmp EXCEPT ![own[w]].body = call[w].content]
       \/ UNCHANGED tmp
    /\ Goto(w, IF w \in ChownWriters THEN "chown" ELSE "rename")
    /\ UNCHANGED <<target, own, cleanVars>>

\* ... and writes it.  A file that was removed meanwhile is written without
\* an error, under no name.  When the write fails WriteFile returns and the
\* file stays.
FillTmp(w) ==
    /\ pc[w] = "fill"
    /\ \/ /\ tmp' = IF tmp[own[w]] = NoTmp THEN tmp
                      ELSE [tmp EXCEPT ![own[w]].body = call[w].content]
          /\ Goto(w, IF w \in ChownWriters THEN "chown" ELSE "rename")
          /\ UNCHANGED own
       \/ Return(w) /\ UNCHANGED tmp
    /\ UNCHANGED <<target, cleanVars>>

Chown(w) ==
    /\ pc[w] = "chown"
    /\ \/ tmp[own[w]] # NoTmp /\ Goto(w, "rename") /\ UNCHANGED <<tmp, own>>
       \/ RemoveOwn(w) /\ Return(w)
    /\ UNCHANGED <<target, cleanVars>>

\* The rename replaces the output file; WriteFile returns nil.  It fails when
\* the temporary file is gone, and may fail for other reasons.
Rename(w) ==
    /\ pc[w] = "rename"
    /\ tmp[own[w]] # NoTmp
    /\ target' = [target EXCEPT ![call[w].path] = tmp[own[w]].body]
    /\ RemoveOwn(w)
    /\ Return(w)
    /\ UNCHANGED cleanVars

\* Mutant of RenameFails: the output file was removed to make room first.
RenameFailsTargetGone(w) ==
    /\ pc[w] = "rename"
    /\ target' = [target EXCEPT ![call[w].path] = Absent]
    /\ RemoveOwn(w)
    /\ Return(w)
    /\ UNCHANGED cleanVars

\* Mutant of RenameFails: a missing temporary file is not an error to handle.
RenameFailsIfPresent(w) ==
    /\ pc[w] = "rename" /\ tmp[own[w]] # NoTmp
    /\ RemoveOwn(w)
    /\ Return(w)
    /\ UNCHANGED <<target, cleanVars>>

RenameFails(w) ==
    /\ pc[w] = "rename"
    /\ RemoveOwn(w)
    /\ Return(w)
    /\ UNCHANGED <<target, cleanVars>>

-----------------------------------------------------------------------------
\* The loop takes the directories in any order.  Glob lists what matches
\* d/*.tmp.* now, which are files of d unless its name has metacharacters, and
\* finds nothing, without an error, in a directory it cannot read ...
Glob(d) ==
    /\ cleaner = "glob" /\ d \in todo
    /\ cleaner' = "removing"
    /\ todo' = todo \ {d}
    /\ \E seen \in SUBSET Matched[d] :
         /\ matches' = {f \in Tmps : tmp[f] # NoTmp /\ tmp[f].dir \in seen}
                         \cup {p \in TmpLike : target[p] # Absent /\ DirOf[p] \in seen}
         /\ passed' = passed \cup ({d} \ seen)
    /\ UNCHANGED <<target, tmp, call, pc, own, spared, run>>

\* Mutant of GlobFails: the error ends the cleanup.
GlobFailsEnds(d) ==
    /\ cleaner = "glob" /\ d \in todo
    /\ todo' = todo \ {d} /\ passed' = passed \cup {d}
    /\ cleaner' = "done"
    /\ UNCHANGED <<target, tmp, call, pc, own, matches, spared, run>>

\* ... its error, a name that is not a pattern, is logged and the loop goes on.
GlobFails(d) ==
    /\ cleaner = "glob" /\ d \in todo
    /\ todo' = todo \ {d} /\ passed' = passed \cup {d}
    /\ UNCHANGED <<target, tmp, call, pc, own, cleaner, matches, spared, run>>

\* Each match is removed by its name later; a failure is only logged.
RemoveMatch(f) ==
    /\ cleaner = "removing" /\ f \in matches
    /\ matches' = matches \ {f}
    /\ \/ /\ tmp' = [g \in Tmps |-> IF g = f THEN NoTmp ELSE tmp[g]]
          /\ target' = [p \in Paths |-> IF p = f THEN Absent ELSE target[p]]
          /\ UNCHANGED spared
       \/ spared' = spared \cup {f} /\ UNCHANGED <<tmp, target>>
    /\ UNCHANGED <<call, pc, own, cleaner, todo, passed, run>>

\* The matches of one directory are dealt with ...
DirEnds ==
    /\ cleaner = "removing" /\ matches = {}
    /\ cleaner' = "glob"
    /\ UNCHANGED <<target, tmp, call, pc, own, todo, passed, matches, spared, run>>

\* ... and those of all.
CleanupEnds ==
    /\ cleaner = "glob" /\ todo = {}
    /\ cleaner' = "done"
    /\ UNCHANGED <<target, tmp, call, pc, own, todo, passed, matches, spared, run>>

\* The process dies and is started again, with whatever its configuration then
\* says; the disk keeps what it has.
Restart ==
    /\ run < MaxRuns
    /\ run' = run + 1
    /\ call' = [w \in Writers |-> NoCall]
    /\ pc' = [w \in Writers |-> "idle"]
    /\ own' = [w \in Writers |-> NoTmp]
    /\ todo' \in Configured /\ passed' = Dirs \ todo'
    /\ cleaner' = "glob" /\ matches' = {} /\ spared' = {}
    /\ UNCHANGED <<target, tmp>>

-----------------------------------------------------------------------------
Write(w) ==
    \/ Check(w) \/ CreateTmp(w) \/ FillTmp(w) \/ Chown(w)
    \/ Rename(w) \/ RenameFails(w)

Cleanup ==
    \/ \E d \in Dirs : Glob(d) \/ GlobFails(d)
    \/ \E f \in Tmps \cup Paths : RemoveMatch(f)
    \/ DirEnds \/ CleanupEnds

Next ==
    \/ \E w \in Writers : Write(w) \/ \E c \in Call : Begin(w, c)
    \/ Cleanup
    \/ Restart

Spec == Init /\ [][Next]_vars

\* System calls return, so that a call and a cleanup come to their end.
Fairness == (\A w \in Writers : WF_vars(Write(w))) /\ WF_vars(Cleanup)
FairSpec == Spec /\ Fairness

-----------------------------------------------------------------------------
\* Readers of the output files see WriteFile as one atomic step, and its
\* result tells whether that step was taken (writer.go:34 "writes content to
\* a file atomically").
Atomic == INSTANCE AtomicFile WITH target <- target, call <- call
Refinement == Atomic!Spec

\* An output file never holds part of a content, also after a crash in the
\* middle of a write.
NeverPartial == \A p \in Paths : target[p] # Partial

\* Once the cleanup of a run is done a temporary file of an earlier run, however
\* that ended, is left only where its own removal failed or its own directory
\* was not seen: one failure keeps no other file from being removed.
CleanupComplete ==
    cleaner = "done" =>
        \A f \in Tmps : tmp[f] # NoTmp =>
            tmp[f].run = run \/ f \in spared \/ tmp[f].dir \in passed

\* A call returns, whatever the cleanup and the other calls do, unless the
\* process dies.
CallReturns == \A w \in Writers : call[w] # NoCall ~> call[w] = NoCall
=============================================================================
