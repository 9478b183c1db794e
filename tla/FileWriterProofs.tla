-------------------------- MODULE FileWriterProofs --------------------------
(***************************************************************************)
(* Theorems about FileWriter for any writers, files, contents, names of    *)
(* temporary files and number of runs.                                     *)
(***************************************************************************)
EXTENDS FileWriter, TLAPS

\* A writer has a temporary file from its creation to the end of the call.
OwnWhileWriting ==
    \A w \in Writers :
       own[w] # NoTmp <=> pc[w] \in {"fill", "chown", "rename"}

\* No two writers have the same temporary file.
OwnUnique ==
    \A w, v \in Writers : (own[w] # NoTmp /\ own[w] = own[v]) => w = v

InCall == \A w \in Writers : call[w] # NoCall <=> pc[w] # "idle"

\* What is about to be renamed is the whole content of the call.
WrittenWhole ==
    \A w \in Writers :
       (pc[w] \in {"chown", "rename"} /\ tmp[own[w]] # NoTmp)
           => tmp[own[w]].body = call[w].content

\* The cleanup lists output files only when their own names look temporary.
MatchesTmps == matches \subseteq Tmps \cup TmpLike

IndInv ==
    /\ TypeOK
    /\ OwnWhileWriting
    /\ OwnUnique
    /\ InCall
    /\ WrittenWhole
    /\ MatchesTmps
    /\ NeverPartial

-----------------------------------------------------------------------------
\* The initial disk and process satisfy the inductive invariant.
LEMMA InitInv == Init => IndInv
<1> SUFFICES ASSUME Init PROVE IndInv
  OBVIOUS
<1>1. TypeOK
  <2>1. run \in 1..MaxRuns
    BY FileWriterAssumption DEF Init
  <2> QED BY <2>1 DEF Init, Configured, TypeOK
<1>2. OwnWhileWriting /\ OwnUnique /\ InCall /\ WrittenWhole
  BY DEF Init, OwnWhileWriting, OwnUnique, InCall, WrittenWhole
<1>3. MatchesTmps /\ NeverPartial
  BY FileWriterAssumption DEF Init, MatchesTmps, NeverPartial
<1> QED BY <1>1, <1>2, <1>3 DEF IndInv

\* A call begins.
LEMMA BeginInv ==
    ASSUME IndInv, NEW w \in Writers, NEW c \in Call, Begin(w, c)
    PROVE  IndInv'
<1>1. TypeOK' /\ MatchesTmps' /\ NeverPartial'
  BY DEF Begin, cleanVars, IndInv, TypeOK, MatchesTmps, NeverPartial
<1>2. c # NoCall
  BY FileWriterAssumption DEF Call
<1>3. OwnWhileWriting' /\ OwnUnique' /\ InCall'
  BY <1>2 DEF Begin, IndInv, TypeOK, OwnWhileWriting, OwnUnique, InCall
<1>4. WrittenWhole'
  BY DEF Begin, IndInv, TypeOK, WrittenWhole
<1> QED BY <1>1, <1>3, <1>4 DEF IndInv

\* A call returns: the writer's own state is reset, its temporary file may
\* have been removed or left, the others' files are untouched.
LEMMA ReturnInv ==
    ASSUME IndInv, NEW w \in Writers, Return(w),
           tmp' = tmp \/ (own[w] # NoTmp /\ RemoveOwn(w)),
           target' \in [Paths -> Contents \cup {Absent}],
           UNCHANGED cleanVars
    PROVE  IndInv'
<1>1. \A v \in Writers : v # w =>
        call'[v] = call[v] /\ pc'[v] = pc[v] /\ own'[v] = own[v]
  BY DEF Return, IndInv, TypeOK
<1>2. call'[w] = NoCall /\ pc'[w] = "idle" /\ own'[w] = NoTmp
  BY DEF Return, IndInv, TypeOK
<1>3. tmp' \in [Tmps -> TmpFile \cup {NoTmp}]
  BY DEF RemoveOwn, IndInv, TypeOK
<1>4. TypeOK'
  BY <1>3 DEF Return, cleanVars, IndInv, TypeOK
<1>5. OwnWhileWriting' /\ OwnUnique' /\ InCall'
  BY <1>1, <1>2 DEF IndInv, OwnWhileWriting, OwnUnique, InCall
<1>6. WrittenWhole'
  <2> SUFFICES ASSUME NEW v \in Writers, pc'[v] \in {"chown", "rename"},
                      tmp'[own'[v]] # NoTmp
               PROVE  tmp'[own'[v]].body = call'[v].content
    BY DEF WrittenWhole
  <2>1. v # w /\ own[v] # NoTmp /\ pc[v] \in {"chown", "rename"}
    BY <1>1, <1>2 DEF IndInv, OwnWhileWriting
  <2>2. own[v] # own[w]
    BY <2>1 DEF IndInv, OwnUnique
  <2>3. own[v] \in Tmps
    BY <2>1 DEF IndInv, TypeOK
  <2>4. tmp'[own[v]] = tmp[own[v]]
    BY <2>2, <2>3 DEF RemoveOwn, IndInv, TypeOK
  <2> QED BY <1>1, <2>1, <2>4 DEF IndInv, WrittenWhole
<1>7. MatchesTmps' /\ NeverPartial'
  BY FileWriterAssumption DEF cleanVars, IndInv, MatchesTmps, NeverPartial
<1> QED BY <1>4, <1>5, <1>6, <1>7 DEF IndInv

\* The steps of WriteFile before the rename that do not return.
LEMMA ProgressInv ==
    ASSUME IndInv, NEW w \in Writers, NEW f \in Tmps,
           UNCHANGED <<target, call, cleanVars>>
    PROVE  /\ (pc[w] = "check" /\ Goto(w, "create") /\ UNCHANGED <<own, tmp>>)
                  => IndInv'
           /\ (/\ pc[w] = "create" /\ Fresh(f)
               /\ tmp' = [tmp EXCEPT ![f] =
                       [body |-> Partial, dir |-> DirOf[call[w].path], run |-> run]]
               /\ own' = [own EXCEPT ![w] = f]
               /\ Goto(w, "fill"))
                  => IndInv'
           /\ (/\ pc[w] = "fill"
               /\ tmp' = IF tmp[own[w]] = NoTmp THEN tmp
                           ELSE [tmp EXCEPT ![own[w]].body = call[w].content]
               /\ Goto(w, IF w \in ChownWriters THEN "chown" ELSE "rename")
               /\ UNCHANGED own)
                  => IndInv'
           /\ (pc[w] = "chown" /\ Goto(w, "rename") /\ UNCHANGED <<own, tmp>>)
                  => IndInv'
<1> USE DEF Goto, cleanVars
<1>1. ASSUME pc[w] = "check", Goto(w, "create"), UNCHANGED <<own, tmp>>
      PROVE  IndInv'
  <2>1. TypeOK' /\ MatchesTmps' /\ NeverPartial'
    BY <1>1 DEF IndInv, TypeOK, MatchesTmps, NeverPartial
  <2>2. OwnWhileWriting' /\ OwnUnique' /\ InCall' /\ WrittenWhole'
    BY <1>1 DEF IndInv, TypeOK, OwnWhileWriting, OwnUnique, InCall, WrittenWhole
  <2> QED BY <2>1, <2>2 DEF IndInv
<1>2. ASSUME pc[w] = "create", Fresh(f),
             tmp' = [tmp EXCEPT ![f] =
                       [body |-> Partial, dir |-> DirOf[call[w].path], run |-> run]],
             own' = [own EXCEPT ![w] = f],
             Goto(w, "fill")
      PROVE  IndInv'
  <2>1. [body |-> Partial, dir |-> DirOf[call[w].path], run |-> run] \in TmpFile
    <3>1. call[w] \in Call
      BY <1>2 DEF IndInv, TypeOK, InCall
    <3> QED BY <3>1, FileWriterAssumption DEF Call, IndInv, TypeOK, TmpFile
  <2>2. TypeOK' /\ MatchesTmps' /\ NeverPartial'
    BY <1>2, <2>1 DEF IndInv, TypeOK, MatchesTmps, NeverPartial
  <2>3. OwnWhileWriting' /\ InCall'
    BY <1>2, FileWriterAssumption DEF IndInv, TypeOK, OwnWhileWriting, InCall
  <2>4. OwnUnique'
    BY <1>2 DEF Fresh, IndInv, TypeOK, OwnUnique
  <2>5. WrittenWhole'
    BY <1>2 DEF Fresh, IndInv, TypeOK, OwnWhileWriting, WrittenWhole
  <2> QED BY <2>2, <2>3, <2>4, <2>5 DEF IndInv
<1>3. ASSUME pc[w] = "fill",
             tmp' = IF tmp[own[w]] = NoTmp THEN tmp
                      ELSE [tmp EXCEPT ![own[w]].body = call[w].content],
             Goto(w, IF w \in ChownWriters THEN "chown" ELSE "rename"),
             UNCHANGED own
      PROVE  IndInv'
  <2>1. own[w] \in Tmps /\ call[w] \in Call
    BY <1>3 DEF IndInv, TypeOK, OwnWhileWriting, InCall
  <2>2. call[w].content \in Contents
    BY <2>1 DEF Call
  <2>3. tmp[own[w]] # NoTmp =>
          /\ tmp[own[w]] \in TmpFile
          /\ tmp'[own[w]] = [tmp[own[w]] EXCEPT !.body = call[w].content]
    BY <1>3, <2>1 DEF IndInv, TypeOK
  <2>4. tmp[own[w]] # NoTmp =>
          tmp'[own[w]] \in TmpFile /\ tmp'[own[w]].body = call[w].content
    BY <2>2, <2>3 DEF TmpFile
  <2>5. \A g \in Tmps : g # own[w] => tmp'[g] = tmp[g]
    BY <1>3 DEF IndInv, TypeOK
  <2>6. tmp' \in [Tmps -> TmpFile \cup {NoTmp}]
    BY <1>3, <2>1, <2>4, <2>5 DEF IndInv, TypeOK
  <2>7. TypeOK' /\ MatchesTmps' /\ NeverPartial'
    BY <1>3, <2>6 DEF IndInv, TypeOK, MatchesTmps, NeverPartial
  <2>8. OwnWhileWriting' /\ OwnUnique' /\ InCall'
    BY <1>3 DEF IndInv, TypeOK, OwnWhileWriting, OwnUnique, InCall
  <2>9. WrittenWhole'
    <3> SUFFICES ASSUME NEW v \in Writers, pc'[v] \in {"chown", "rename"},
                        tmp'[own[v]] # NoTmp
                 PROVE  tmp'[own[v]].body = call[v].content
      BY <1>3 DEF WrittenWhole
    <3>1. CASE v = w
      BY <3>1, <1>3, <2>4
    <3>2. CASE v # w
      <4>1. pc[v] \in {"chown", "rename"} /\ own[v] \in Tmps /\ own[v] # own[w]
        BY <1>3, <3>2 DEF IndInv, TypeOK, OwnWhileWriting, OwnUnique
      <4> QED BY <4>1, <2>5 DEF IndInv, WrittenWhole
    <3> QED BY <3>1, <3>2
  <2> QED BY <2>7, <2>8, <2>9 DEF IndInv
<1>4. ASSUME pc[w] = "chown", Goto(w, "rename"), UNCHANGED <<own, tmp>>
      PROVE  IndInv'
  <2>1. TypeOK' /\ MatchesTmps' /\ NeverPartial'
    BY <1>4 DEF IndInv, TypeOK, MatchesTmps, NeverPartial
  <2>2. OwnWhileWriting' /\ OwnUnique' /\ InCall' /\ WrittenWhole'
    BY <1>4 DEF IndInv, TypeOK, OwnWhileWriting, OwnUnique, InCall, WrittenWhole
  <2> QED BY <2>1, <2>2 DEF IndInv
<1> QED BY <1>1, <1>2, <1>3, <1>4

\* Every step of WriteFile, the rename of the output file included.
LEMMA WriteInv ==
    ASSUME IndInv, NEW w \in Writers, Write(w)
    PROVE  IndInv'
<1>1. target \in [Paths -> Contents \cup {Absent}]
  BY DEF IndInv, TypeOK, NeverPartial
<1>2. ASSUME Return(w), UNCHANGED <<target, tmp, cleanVars>> PROVE IndInv'
  BY <1>1, <1>2, ReturnInv
<1>3. ASSUME Return(w), RemoveOwn(w), own[w] # NoTmp,
             target' \in [Paths -> Contents \cup {Absent}], UNCHANGED cleanVars
      PROVE  IndInv'
  BY <1>3, ReturnInv
<1>4. pc[w] \in {"fill", "chown", "rename"} => own[w] # NoTmp /\ own[w] \in Tmps
  BY DEF IndInv, TypeOK, OwnWhileWriting
<1>5. CASE Check(w)
  <2>1. CASE Goto(w, "create") /\ UNCHANGED own
    <3>1. TypeOK' /\ MatchesTmps' /\ NeverPartial'
      BY <1>5, <2>1 DEF Check, Goto, cleanVars, IndInv, TypeOK, MatchesTmps, NeverPartial
    <3>2. OwnWhileWriting' /\ OwnUnique' /\ InCall' /\ WrittenWhole'
      BY <1>5, <2>1 DEF Check, Goto, IndInv, TypeOK, OwnWhileWriting, OwnUnique,
                        InCall, WrittenWhole
    <3> QED BY <3>1, <3>2 DEF IndInv
  <2> QED BY <1>2, <1>5, <2>1 DEF Check
<1>6. CASE CreateTmp(w)
  BY <1>2, <1>6, ProgressInv DEF CreateTmp, Goto
<1>7. CASE FillTmp(w)
  BY <1>2, <1>4, <1>7, ProgressInv DEF FillTmp, Goto
<1>8. CASE Chown(w)
  BY <1>1, <1>3, <1>4, <1>8, ProgressInv DEF Chown, Goto
<1>9. CASE Rename(w)
  <2>1. tmp[own[w]].body = call[w].content /\ call[w] \in Call
    BY <1>9 DEF Rename, IndInv, TypeOK, InCall, WrittenWhole
  <2>2. target' \in [Paths -> Contents \cup {Absent}]
    BY <1>1, <1>9, <2>1 DEF Rename, Call
  <2> QED BY <1>3, <1>4, <1>9, <2>2 DEF Rename
<1>10. CASE RenameFails(w)
  BY <1>1, <1>3, <1>4, <1>10 DEF RenameFails
<1> QED BY <1>5, <1>6, <1>7, <1>8, <1>9, <1>10 DEF Write

\* The cleanup removes files under the writers' feet and still keeps every
\* fact the writers rely on.
LEMMA CleanupInv ==
    ASSUME IndInv, Cleanup
    PROVE  IndInv'
<1>1. CASE (\E d \in Dirs : Glob(d) \/ GlobFails(d)) \/ DirEnds \/ CleanupEnds
  <2>1. TypeOK' /\ NeverPartial' /\ MatchesTmps'
    BY <1>1, FileWriterAssumption
       DEF Glob, GlobFails, DirEnds, CleanupEnds, IndInv, TypeOK, NeverPartial, MatchesTmps
  <2>2. OwnWhileWriting' /\ OwnUnique' /\ InCall' /\ WrittenWhole'
    BY <1>1 DEF Glob, GlobFails, DirEnds, CleanupEnds, IndInv, OwnWhileWriting,
                OwnUnique, InCall, WrittenWhole
  <2> QED BY <2>1, <2>2 DEF IndInv
<1>2. ASSUME NEW f \in Tmps \cup Paths, RemoveMatch(f) PROVE IndInv'
  <2>1. \A g \in Tmps : tmp'[g] = tmp[g] \/ tmp'[g] = NoTmp
    BY <1>2 DEF RemoveMatch
  <2>2. TypeOK' /\ MatchesTmps'
    BY <1>2 DEF RemoveMatch, IndInv, TypeOK, MatchesTmps
  <2>3. NeverPartial'
    BY <1>2, FileWriterAssumption DEF RemoveMatch, IndInv, NeverPartial
  <2>4. OwnWhileWriting' /\ OwnUnique' /\ InCall'
    BY <1>2 DEF RemoveMatch, IndInv, OwnWhileWriting, OwnUnique, InCall
  <2>5. WrittenWhole'
    <3> SUFFICES ASSUME NEW v \in Writers, pc[v] \in {"chown", "rename"},
                        tmp'[own[v]] # NoTmp
                 PROVE  tmp'[own[v]].body = call[v].content
      BY <1>2 DEF RemoveMatch, WrittenWhole
    <3>1. own[v] \in Tmps
      BY DEF IndInv, TypeOK, OwnWhileWriting
    <3>2. tmp'[own[v]] = tmp[own[v]]
      BY <2>1, <3>1
    <3> QED BY <3>2 DEF IndInv, WrittenWhole
  <2> QED BY <2>2, <2>3, <2>4, <2>5 DEF IndInv
<1> QED BY <1>1, <1>2 DEF Cleanup

\* A restart forgets the calls and keeps the disk.
LEMMA RestartInv ==
    ASSUME IndInv, Restart
    PROVE  IndInv'
<1>1. run' \in 1..MaxRuns
  BY FileWriterAssumption DEF Restart, IndInv, TypeOK
<1>2. TypeOK' /\ MatchesTmps' /\ NeverPartial'
  BY <1>1 DEF Restart, Configured, IndInv, TypeOK, MatchesTmps, NeverPartial
<1>3. OwnWhileWriting' /\ OwnUnique' /\ InCall' /\ WrittenWhole'
  BY DEF Restart, OwnWhileWriting, OwnUnique, InCall, WrittenWhole
<1> QED BY <1>2, <1>3 DEF IndInv

\* The invariant is inductive.
LEMMA NextInv == IndInv /\ [Next]_vars => IndInv'
<1> SUFFICES ASSUME IndInv, [Next]_vars PROVE IndInv'
  OBVIOUS
<1>1. CASE UNCHANGED vars
  <2>1. TypeOK' /\ MatchesTmps' /\ NeverPartial'
    BY <1>1 DEF vars, IndInv, TypeOK, MatchesTmps, NeverPartial
  <2>2. OwnWhileWriting' /\ OwnUnique' /\ InCall' /\ WrittenWhole'
    BY <1>1 DEF vars, IndInv, OwnWhileWriting, OwnUnique, InCall, WrittenWhole
  <2> QED BY <2>1, <2>2 DEF IndInv
<1> QED BY <1>1, WriteInv, BeginInv, CleanupInv, RestartInv DEF Next

\* Every reachable state satisfies the inductive invariant.
THEOREM Invariance == Spec => []IndInv
<1> QED BY InitInv, NextInv, PTL DEF Spec

\* Type correctness of the disk and of the process.
THEOREM TypeCorrect == Spec => []TypeOK
<1>1. IndInv => TypeOK
  BY DEF IndInv
<1> QED BY <1>1, Invariance, PTL

\* No output file ever holds part of a content, whatever dies or fails when.
THEOREM NeverPartialFile == Spec => []NeverPartial
<1>1. IndInv => NeverPartial
  BY DEF IndInv
<1> QED BY <1>1, Invariance, PTL

-----------------------------------------------------------------------------
\* A temporary file of an earlier run is still to be listed or to be removed, or
\* is one of those the cleanup could not list or remove: the writers only add
\* files of this run.
OldTmpsMatched ==
    /\ \A f \in Tmps :
          (tmp[f] # NoTmp /\ tmp[f].run # run) =>
              tmp[f].dir \in todo \cup passed \/ f \in matches \cup spared
    /\ cleaner # "removing" => matches = {}
    /\ cleaner = "done" => todo = {}

SameOrigin(f) == tmp'[f].run = tmp[f].run /\ tmp'[f].dir = tmp[f].dir

\* A writer makes files of this run, writes into them and removes them.
LEMMA WriteKeepsRuns ==
    ASSUME IndInv, NEW w \in Writers, Write(w), NEW f \in Tmps, tmp'[f] # NoTmp
    PROVE  tmp'[f].run = run \/ (tmp[f] # NoTmp /\ SameOrigin(f))
<1>1. tmp \in [Tmps -> TmpFile \cup {NoTmp}]
  BY DEF IndInv, TypeOK
<1>2. ASSUME NEW g, tmp' = [tmp EXCEPT ![g] = NoTmp]
      PROVE  tmp[f] # NoTmp /\ SameOrigin(f)
  BY <1>1, <1>2 DEF SameOrigin
<1>3. CASE CreateTmp(w)
  BY <1>1, <1>3 DEF CreateTmp, SameOrigin
<1>4. CASE FillTmp(w)
  <2>1. CASE tmp' = tmp
    BY <2>1 DEF SameOrigin
  <2>2. CASE tmp[own[w]] # NoTmp /\ tmp' = [tmp EXCEPT ![own[w]].body = call[w].content]
    <3>1. CASE f = own[w]
      <4>1. tmp[f] \in TmpFile /\ tmp'[f] = [tmp[f] EXCEPT !.body = call[w].content]
        BY <1>1, <2>2, <3>1
      <4> QED BY <2>2, <3>1, <4>1 DEF TmpFile, SameOrigin
    <3>2. CASE f # own[w]
      BY <1>1, <2>2, <3>2 DEF SameOrigin
    <3> QED BY <3>1, <3>2
  <2> QED BY <1>4, <2>1, <2>2 DEF FillTmp
<1>5. CASE Check(w) \/ Chown(w) \/ Rename(w) \/ RenameFails(w)
  BY <1>2, <1>5 DEF Check, Chown, Rename, RenameFails, RemoveOwn, SameOrigin
<1> QED BY <1>3, <1>4, <1>5 DEF Write

\* Every step keeps account of the old files: the writers run while the cleanup
\* goes through the directories and the names that the glob returned.
LEMMA OldTmpsStep == IndInv /\ OldTmpsMatched /\ [Next]_vars => OldTmpsMatched'
<1> SUFFICES ASSUME IndInv, OldTmpsMatched, [Next]_vars PROVE OldTmpsMatched'
  OBVIOUS
<1>a. tmp \in [Tmps -> TmpFile \cup {NoTmp}]
  BY DEF IndInv, TypeOK
<1>1. ASSUME NEW w \in Writers, Write(w) PROVE OldTmpsMatched'
  <2>1. UNCHANGED cleanVars
    BY <1>1 DEF Write, Check, CreateTmp, FillTmp, Chown, Rename, RenameFails, cleanVars
  <2> QED BY <1>1, <2>1, WriteKeepsRuns DEF OldTmpsMatched, cleanVars, SameOrigin
<1>2. ASSUME NEW w \in Writers, NEW c \in Call, Begin(w, c) PROVE OldTmpsMatched'
  BY <1>2 DEF Begin, cleanVars, OldTmpsMatched
<1>3. ASSUME NEW d \in Dirs, Glob(d) PROVE OldTmpsMatched'
  <2>1. PICK seen \in SUBSET Matched[d] :
          /\ \A f \in Tmps : tmp[f] # NoTmp /\ tmp[f].dir \in seen => f \in matches'
          /\ passed' = passed \cup ({d} \ seen)
    BY <1>3 DEF Glob
  <2>2. /\ matches = {} /\ todo' = todo \ {d} /\ cleaner' = "removing"
        /\ UNCHANGED <<tmp, spared, run>>
    BY <1>3 DEF Glob, OldTmpsMatched
  <2> QED BY <2>1, <2>2 DEF OldTmpsMatched
<1>4. ASSUME NEW d \in Dirs, GlobFails(d) PROVE OldTmpsMatched'
  BY <1>4 DEF GlobFails, OldTmpsMatched
<1>5. ASSUME NEW f \in Tmps \cup Paths, RemoveMatch(f) PROVE OldTmpsMatched'
  <2>1. \A g \in Tmps : tmp'[g] # NoTmp =>
           tmp'[g] = tmp[g] /\ (g \in matches => g \in matches' \cup spared')
    BY <1>5 DEF RemoveMatch
  <2>2. /\ cleaner = "removing" /\ UNCHANGED <<cleaner, todo, passed, run>>
        /\ spared \subseteq spared'
    BY <1>5 DEF RemoveMatch
  <2> QED BY <2>1, <2>2 DEF OldTmpsMatched
<1>6. CASE DirEnds \/ CleanupEnds
  BY <1>6 DEF DirEnds, CleanupEnds, OldTmpsMatched
<1>7. CASE Restart
  <2>1. \A f \in Tmps : tmp'[f] # NoTmp => tmp'[f].dir \in todo' \cup passed'
    BY <1>a, <1>7 DEF Restart, TmpFile
  <2> QED BY <1>7, <2>1 DEF Restart, OldTmpsMatched
<1>8. CASE UNCHANGED vars
  BY <1>8 DEF vars, OldTmpsMatched
<1> QED BY <1>1, <1>2, <1>3, <1>4, <1>5, <1>6, <1>7, <1>8 DEF Next, Cleanup

\* When the cleanup of a run is done, a temporary file of an earlier run is left
\* only where its own removal failed or its own directory was not seen, whatever
\* the writers of this run did meanwhile and wherever the earlier runs died.
THEOREM CleanupAlwaysComplete == Spec => []CleanupComplete
<1>1. Init => OldTmpsMatched
  BY DEF Init, OldTmpsMatched
<1>2. Spec => []OldTmpsMatched
  BY <1>1, OldTmpsStep, Invariance, PTL DEF Spec
<1>3. OldTmpsMatched => CleanupComplete
  BY DEF OldTmpsMatched, CleanupComplete
<1> QED BY <1>2, <1>3, PTL

-----------------------------------------------------------------------------
\* A step of a writer is, to the readers of the output files, nothing, a
\* failed call or the whole write.
LEMMA WriteRefines ==
    ASSUME IndInv, NEW w \in Writers, Write(w)
    PROVE  [Atomic!Next]_(Atomic!vars)
<1>1. pc[w] # "idle" /\ call[w] # NoCall /\ call[w] \in Call
  BY DEF Write, Check, CreateTmp, FillTmp, Chown, Rename, RenameFails, IndInv,
         TypeOK, InCall
<1>2. ASSUME Return(w), UNCHANGED target PROVE Atomic!Fail(w)
  BY <1>1, <1>2 DEF Return, Atomic!Fail
<1>3. CASE Rename(w)
  <2>1. tmp[own[w]].body = call[w].content
    BY <1>3 DEF Rename, IndInv, WrittenWhole
  <2>2. Atomic!Publish(w)
    BY <1>1, <1>3, <2>1 DEF Rename, Return, Atomic!Publish
  <2> QED BY <2>2 DEF Atomic!Next
<1>4. CASE ~Rename(w)
  <2>1. UNCHANGED target /\ (Return(w) \/ UNCHANGED call)
    BY <1>4 DEF Write, Check, CreateTmp, FillTmp, Chown, RenameFails, Goto
  <2> QED BY <1>2, <2>1 DEF Atomic!Next, Atomic!vars
<1> QED BY <1>3, <1>4

\* Unless the configured name of an output file looks like a temporary one,
\* a behaviour of WriteFile, the cleanup and the crashes is one in which each
\* call is a single step.
THEOREM WriteFileIsAtomic == (TmpLike = {}) => (Spec => Refinement)
<1> SUFFICES ASSUME TmpLike = {} PROVE Spec => Refinement
  OBVIOUS
<1>1. Init => Atomic!Init
  BY DEF Init, Atomic!Init
<1>2. IndInv /\ [Next]_vars => [Atomic!Next]_(Atomic!vars)
  <2> SUFFICES ASSUME IndInv, [Next]_vars PROVE [Atomic!Next]_(Atomic!vars)
    OBVIOUS
  <2>1. ASSUME NEW w \in Writers, NEW c \in Call, Begin(w, c)
        PROVE  Atomic!Next
    <3>1. Atomic!Begin(w, c) /\ c \in Atomic!Call
      BY <2>1 DEF Begin, Atomic!Begin, IndInv, InCall, Call, Atomic!Call
    <3> QED BY <3>1 DEF Atomic!Next
  <2>2. CASE Cleanup
    <3>1. ASSUME NEW f \in Tmps \cup Paths, RemoveMatch(f)
          PROVE  UNCHANGED <<target, call>>
      <4>1. f \notin Paths
        BY <3>1, FileWriterAssumption DEF RemoveMatch, IndInv, MatchesTmps
      <4>2. target \in [Paths -> Contents \cup {Partial, Absent}]
        BY DEF IndInv, TypeOK
      <4> QED BY <3>1, <4>1, <4>2 DEF RemoveMatch
    <3>2. UNCHANGED <<target, call>>
      BY <2>2, <3>1 DEF Cleanup, Glob, GlobFails, DirEnds, CleanupEnds
    <3> QED BY <3>2 DEF Atomic!vars
  <2>3. CASE Restart
    BY <2>3 DEF Restart, Atomic!Next, Atomic!Crash
  <2>4. CASE UNCHANGED vars
    BY <2>4 DEF vars, Atomic!vars
  <2> QED BY <2>1, <2>2, <2>3, <2>4, WriteRefines DEF Next
<1> QED BY <1>1, <1>2, Invariance, PTL DEF Spec, Refinement, Atomic!Spec
=============================================================================
