------------------------------ MODULE SecretFiles ------------------------------
(***************************************************************************)
(* The files of one secret, and readiness: SyncSecret of                   *)
(* internal/syncer/syncer.go from the fetch to the last file, the monitor  *)
(* goroutine of main.go, SetReady and the status file of internal/health.  *)
(*                                                                         *)
(* A secret has several files.  SyncSecret renders every template before   *)
(* it writes the first file, writes them in the order of the list, and     *)
(* leaves at the first failure.  A job that the watcher or a reload has    *)
(* replaced completes the sync it is in, beside the first one of its       *)
(* successor.  The output files and the status file outlive the process.   *)
(*                                                                         *)
(* WriteFile is one step here: FileWriter shows that it is one.            *)
(***************************************************************************)
EXTENDS Naturals, Sequences

CONSTANTS
    Files,          \* paths of output files
    Basename,       \* the last element of a path
    Confs,          \* descriptions of the secret that the validator accepts
    FileSeq,        \* the files a description lists, in order
    Templates,      \* the template names it has
    MaxVersion,     \* bound on the rotations of the secret in Vault
    MaxJobs,        \* bound on the jobs of one run of the process
    MaxRuns,        \* bound on the runs of the process
    MaxFailures,    \* bound on the fetches, renderings and writes that fail
    ResultsCap,     \* capacity of the results channel
    Absent          \* an output file that does not exist

Version == 0..MaxVersion
Content == [conf : Confs, tmpl : UNION {Templates[c] : c \in Confs},
            version : Version, run : 1..MaxRuns]

ASSUME SecretFilesAssumption ==
    /\ Confs # {}
    /\ Absent \notin Content
    /\ FileSeq \in [Confs -> Seq(Files)]
    /\ \A c \in Confs : Len(FileSeq[c]) > 0
    /\ MaxVersion \in Nat /\ MaxFailures \in Nat
    /\ MaxJobs \in Nat \ {0} /\ MaxRuns \in Nat \ {0} /\ ResultsCap \in Nat \ {0}

VARIABLES
    version,    \* version of the secret in Vault
    failures,   \* fetches, renderings and writes that have failed
    out,        \* the output files
    pc,         \* where a job is: "none", "rest", "fetch", "write", "ok"
    conf,       \* the description a job captured
    sched,      \* the scheduler a job belongs to
    stopped,    \* the jobs that were told to stop
    got,        \* version its running sync has fetched
    next,       \* index of the file it writes next
    alone,      \* the jobs beside which no other has written since they began to
    cur,        \* the job that runs now, and the scheduler main uses
    curSched,
    results,    \* results channel of each scheduler
    monitored,  \* scheduler whose results the monitor reads; 0 at first
    heard,      \* the monitor has read a result in this run
    ready,      \* Status.Ready
    statusFile, \* the status file exists
    stuck,      \* the last removal of the status file failed
    run         \* number of the run of the process

jobVars == <<pc, conf, sched, stopped, got, next, alone, cur, curSched>>
healthVars == <<monitored, heard, ready, statusFile, stuck>>
diskVars == <<out, run>>
vars == <<version, failures, jobVars, results, healthVars, diskVars>>

Jobs == 1..MaxJobs

JobsTypeOK ==
    /\ pc \in [Jobs -> {"none", "rest", "fetch", "write", "ok"}]
    /\ conf \in [Jobs -> Confs] /\ sched \in [Jobs -> Jobs]
    /\ stopped \subseteq Jobs /\ alone \subseteq Jobs
    /\ got \in [Jobs -> Version] /\ next \in [Jobs -> Nat]
    /\ cur \in Jobs /\ curSched \in Jobs

ResultsTypeOK ==
    /\ results \in [Jobs -> Seq({"success", "error"})]
    /\ \A s \in Jobs : Len(results[s]) <= ResultsCap

HealthTypeOK ==
    /\ monitored \in Jobs \cup {0}
    /\ heard \in BOOLEAN /\ ready \in BOOLEAN
    /\ statusFile \in BOOLEAN /\ stuck \in BOOLEAN

DiskTypeOK ==
    /\ version \in Version /\ failures \in 0..MaxFailures
    /\ out \in [Files -> Content \cup {Absent}]
    /\ run \in 1..MaxRuns

SecretFilesTypeOK == JobsTypeOK /\ ResultsTypeOK /\ HealthTypeOK /\ DiskTypeOK

-----------------------------------------------------------------------------
\* Mutant of Maps: the i-th template in the order of the names goes to the
\* i-th file; here the names are in the reverse order of the files.
MapsByPosition(c, t, f) ==
    \E i \in DOMAIN FileSeq[c] :
       /\ f = FileSeq[c][i]
       /\ t = Basename[FileSeq[c][Len(FileSeq[c]) + 1 - i]]
       /\ t \in Templates[c]

\* fileToTemplate: template t of c is written to the first file of the list
\* whose basename it is, and to no other.
Maps(c, t, f) ==
    /\ t \in Templates[c] /\ Basename[f] = t
    /\ \E i \in DOMAIN FileSeq[c] :
         /\ FileSeq[c][i] = f
         /\ \A k \in 1..(i-1) : Basename[FileSeq[c][k]] # t

All(v) == [j \in Jobs |-> v]

\* A process that has just started has one job, in its first sync.
FirstOnly == [j \in Jobs |-> IF j = 1 THEN "fetch" ELSE "none"]

Init ==
    /\ pc = FirstOnly /\ cur = 1 /\ curSched = 1
    /\ \E c \in Confs : conf = All(c)
    /\ sched = All(1) /\ stopped = {}
    /\ got = All(0) /\ next = All(1) /\ alone = Jobs
    /\ results = All(<<>>)
    /\ monitored = 0 /\ heard = FALSE /\ ready = FALSE
    /\ version = 0 /\ failures = 0
    /\ out = [f \in Files |-> Absent]
    /\ statusFile = FALSE /\ stuck = FALSE
    /\ run = 1

-----------------------------------------------------------------------------
Goto(j, l) == pc' = [pc EXCEPT ![j] = l]

Fail == failures < MaxFailures /\ failures' = failures + 1

\* runJob: the ticker of a job that was not told to stop ...
Tick(j) ==
    /\ pc[j] = "rest" /\ j \notin stopped
    /\ Goto(j, "fetch")
    /\ UNCHANGED <<version, failures, conf, sched, stopped, got, next, alone, cur,
                   curSched, results, healthVars, diskVars>>

\* ... or the end of one that was.
End(j) ==
    /\ pc[j] = "rest" /\ j \in stopped
    /\ Goto(j, "none")
    /\ UNCHANGED <<version, failures, conf, sched, stopped, got, next, alone, cur,
                   curSched, results, healthVars, diskVars>>

\* Mutant of Send: the channel has no bound.
SendUnbounded(j, r) == results' = [results EXCEPT ![sched[j]] = Append(@, r)]

\* Mutant of Send: every sync is reported as a success.
SendSuccess(j, r) ==
    results' = IF Len(results[sched[j]]) < ResultsCap
                 THEN [results EXCEPT ![sched[j]] = Append(@, "success")] ELSE results

\* syncAndReport sends the result, or drops it when the channel is full.
Send(j, r) ==
    results' = IF Len(results[sched[j]]) < ResultsCap
                 THEN [results EXCEPT ![sched[j]] = Append(@, r)] ELSE results

\* Mutant of Report: a failure ends the job.
ReportLast(j, r) ==
    /\ Send(j, r)
    /\ Goto(j, IF r = "success" THEN "rest" ELSE "none")
    /\ got' = [got EXCEPT ![j] = 0] /\ next' = [next EXCEPT ![j] = 1]
    /\ alone' = alone \cup {j}
    /\ UNCHANGED <<version, conf, sched, stopped, cur, curSched, healthVars, diskVars>>

\* SyncSecret has returned; its variables end with it.
Report(j, r) ==
    /\ Send(j, r)
    /\ Goto(j, "rest")
    /\ got' = [got EXCEPT ![j] = 0] /\ next' = [next EXCEPT ![j] = 1]
    /\ alone' = alone \cup {j}
    /\ UNCHANGED <<version, conf, sched, stopped, cur, curSched, healthVars, diskVars>>

\* The fetch succeeds, and every template is parsed and rendered ...
Fetch(j) ==
    /\ pc[j] = "fetch"
    /\ Goto(j, "write")
    /\ got' = [got EXCEPT ![j] = version]
    /\ UNCHANGED <<version, failures, conf, sched, stopped, next, alone, cur, curSched,
                   results, healthVars, diskVars>>

\* ... or SyncSecret returns an error and has written nothing.
FetchFails(j) ==
    /\ pc[j] = "fetch"
    /\ Fail
    /\ Report(j, "error")

\* The file a job is about to write.
NextFile(j) == FileSeq[conf[j]][next[j]]

\* The loop over the files goes on; after the last one SyncSecret returns nil.
Advance(j) ==
    /\ next' = [next EXCEPT ![j] = next[j] + 1]
    /\ Goto(j, IF next[j] = Len(FileSeq[conf[j]]) THEN "ok" ELSE "write")

\* One turn of the loop.
Write(j) ==
    /\ pc[j] = "write"
    /\ \E t \in Templates[conf[j]] :
         /\ Maps(conf[j], t, NextFile(j))
         /\ out' = [out EXCEPT ![NextFile(j)] =
              [conf |-> conf[j], tmpl |-> t, version |-> got[j], run |-> run]]
    /\ Advance(j)
    /\ alone' = {k \in alone : k = j \/ pc[k] \notin {"write", "ok"}}
    /\ UNCHANGED <<version, failures, conf, sched, stopped, got, cur, curSched,
                   results, healthVars, run>>

\* A WriteFile that fails, or a file without a template, ends the sync.
WriteFails(j) ==
    /\ pc[j] = "write"
    /\ \/ Fail
       \/ /\ \A t \in Templates[conf[j]] : ~Maps(conf[j], t, NextFile(j))
          /\ UNCHANGED failures
    /\ Report(j, "error")

\* runJob sends the success.
Succeed(j) == pc[j] = "ok" /\ Report(j, "success") /\ UNCHANGED failures

SyncSecret(j) == Fetch(j) \/ FetchFails(j) \/ Write(j) \/ WriteFails(j) \/ Succeed(j)

-----------------------------------------------------------------------------
\* Mutant of Replace: the old job is not told to stop.
ReplaceKeepsOld(c) ==
    /\ cur + 1 \in Jobs
    /\ cur' = cur + 1
    /\ curSched' \in {curSched, curSched + 1}
    /\ pc' = [pc EXCEPT ![cur + 1] = "fetch"]
    /\ conf' = [conf EXCEPT ![cur + 1] = c]
    /\ sched' = [sched EXCEPT ![cur + 1] = curSched']
    /\ UNCHANGED <<version, failures, stopped, got, next, alone, results, healthVars, diskVars>>

\* main reloads (a new scheduler) or the watcher applies an edit (the same
\* one): the job is told to stop and another one begins, with description c.
Replace(c) ==
    /\ cur + 1 \in Jobs
    /\ cur' = cur + 1
    /\ curSched' \in {curSched, curSched + 1}
    /\ pc' = [pc EXCEPT ![cur + 1] = "fetch"]
    /\ conf' = [conf EXCEPT ![cur + 1] = c]
    /\ sched' = [sched EXCEPT ![cur + 1] = curSched']
    /\ stopped' = stopped \cup {cur}
    /\ UNCHANGED <<version, failures, got, next, alone, results, healthVars, diskVars>>

\* The monitor goroutine evaluates scheduler.Results() when it gets to run.
MonitorStart ==
    /\ monitored = 0
    /\ monitored' = curSched
    /\ UNCHANGED <<version, failures, jobVars, results, heard, ready, statusFile,
                   stuck, diskVars>>

\* Mutant of SetReady: the file of a service that is not ready is left alone.
SetReadyKeepsFile ==
    \/ ready' /\ statusFile' \in {TRUE, statusFile} /\ UNCHANGED <<stuck, failures>>
    \/ ~ready' /\ UNCHANGED <<statusFile, stuck, failures>>

\* SetReady makes the status file or removes it; either may fail, and the
\* monitor ignores it.
SetReady ==
    \/ ready' /\ statusFile' \in {TRUE, statusFile} /\ UNCHANGED <<stuck, failures>>
    \/ ~ready' /\ statusFile' = FALSE /\ stuck' = FALSE /\ UNCHANGED failures
    \/ ~ready' /\ statusFile /\ Fail /\ stuck' = TRUE /\ UNCHANGED statusFile

\* The monitor counts a success; one is enough to be ready.
MonitorTake ==
    /\ monitored # 0 /\ results[monitored] # <<>>
    /\ results' = [results EXCEPT ![monitored] = Tail(@)]
    /\ heard' = TRUE
    /\ ready' = (ready \/ Head(results[monitored]) = "success")
    /\ SetReady
    /\ UNCHANGED <<version, jobVars, monitored, diskVars>>

\* What os.Stat of the status file may answer the probe: the file, that there
\* is none, or another error (a directory of its path that the probe may not
\* search, or that is no directory), which says nothing of the file.
Stat == {IF statusFile THEN "file" ELSE "missing", "error"}

\* The probe of the container, secrets-sync isready: everything but a file
\* that is known not to exist says ready.
CheckReadiness(answer) == answer # "missing"

-----------------------------------------------------------------------------
Rotate ==
    /\ version < MaxVersion
    /\ version' = version + 1
    /\ UNCHANGED <<failures, jobVars, results, healthVars, diskVars>>

\* The process dies; it is started again, with whatever the file then says and
\* with or without a place for its status file.
Restart(c) ==
    /\ run < MaxRuns
    /\ run' = run + 1
    /\ pc' = FirstOnly /\ cur' = 1 /\ curSched' = 1
    /\ conf' = All(c)
    /\ sched' = All(1) /\ stopped' = {}
    /\ got' = All(0) /\ next' = All(1) /\ alone' = Jobs
    /\ results' = All(<<>>)
    /\ monitored' = 0 /\ heard' = FALSE /\ ready' = FALSE /\ stuck' = FALSE
    /\ UNCHANGED <<version, failures, out, statusFile>>

Job(j) == SyncSecret(j) \/ Tick(j) \/ End(j)
Monitor == MonitorStart \/ MonitorTake

Next ==
    \/ \E j \in Jobs : Job(j)
    \/ Monitor
    \/ \E c \in Confs : Replace(c) \/ Restart(c)
    \/ Rotate

Spec == Init /\ [][Next]_vars

\* Goroutines are run and Vault answers; failures are bounded.
Fairness == (\A j \in Jobs : WF_vars(Job(j))) /\ WF_vars(Monitor)
FairSpec == Spec /\ Fairness

-----------------------------------------------------------------------------
\* What a file of c holds after a sync of version v.
Rendered(c, f, v) ==
    /\ out[f] # Absent
    /\ out[f].conf = c /\ out[f].tmpl = Basename[f] /\ out[f].version = v

\* When SyncSecret returns nil, and no other job wrote in the meantime, every
\* file of the secret holds the version that was fetched, each the template
\* that has its name: no file was left out and none belongs to another one.
SuccessMeansWritten ==
    \A j \in Jobs : (pc[j] = "ok" /\ j \in alone) =>
        \A i \in DOMAIN FileSeq[conf[j]] :
           Rendered(conf[j], FileSeq[conf[j]][i], got[j])

\* The service says it is ready only when this run of it has written every
\* file of a description of the secret, however many syncs failed in part.
ReadyMeansWritten ==
    ready => \E c \in Confs : \A i \in DOMAIN FileSeq[c] :
                LET f == FileSeq[c][i] IN out[f] # Absent /\ out[f].run = run

\* A probe that says ready is right, with three exceptions: this run had no
\* result yet, so that the status file may be an earlier run's; its removal
\* failed; or Stat failed in a way that does not tell whether there is a file.
StatusFollows ==
    \A answer \in Stat :
       CheckReadiness(answer) => ready \/ ~heard \/ stuck \/ answer = "error"

\* Every file of c has a template: SyncSecret can succeed.
CanSync(c) ==
    \A i \in DOMAIN FileSeq[c] : \E t \in Templates[c] : Maps(c, t, FileSeq[c][i])

\* In the end the files hold the last version, also when a job that was
\* replaced in the middle of its sync wrote an older one over them.
LastVersionWins ==
    <>[](CanSync(conf[cur]) =>
           \A i \in DOMAIN FileSeq[conf[cur]] :
              Rendered(conf[cur], FileSeq[conf[cur]][i], version))

\* A run that is not reloaded becomes ready if its secret can be synced.
BecomesReady ==
    \A r \in 1..MaxRuns :
       (run = r) ~> (\/ ready \/ run # r \/ curSched # 1
                     \/ ~CanSync(conf[cur]))
=============================================================================
