------------------------------ MODULE Scheduler ------------------------------
(***************************************************************************)
(* The periodic scheduler of internal/syncer/scheduler.go.  A scheduler    *)
(* owns a registry (the map Scheduler.jobs), a stop channel shared by all  *)
(* its jobs and a bounded channel of results.  Every secret it is asked to *)
(* serve gets a job: a goroutine with a ticker and a stop channel of its   *)
(* own.  main.go makes a new scheduler on every reload, so the module      *)
(* models a set of schedulers; their callers (main, the config watcher,    *)
(* the shutdown goroutine) call them concurrently.                         *)
(*                                                                         *)
(* A job's slot is used again once its goroutine has ended and no registry *)
(* refers to it (Go reclaims it), so a behaviour may add jobs for ever.    *)
(***************************************************************************)
EXTENDS Naturals, Sequences

CONSTANTS
    Schedulers,     \* identities of the scheduler objects
    Names,          \* secret names, the keys of the registry
    Configs,        \* configurations a job may capture when it is added
    Jobs,           \* slots for job goroutines that exist at the same time
    NoJob,          \* a registry entry that is absent
    NoSecret,       \* what a free slot serves
    ResultsCap      \* capacity of the results channel, 100 in the code

ASSUME SchedulerAssumption ==
    /\ NoJob \notin Jobs
    /\ ResultsCap \in Nat \ {0}
    /\ NoSecret \notin [sched : Schedulers, name : Names, cfg : Configs]

VARIABLES
    stopCh,     \* Scheduler.stopCh: "none" before NewScheduler, then "open",
                \* "closing" (closed, Stop still waits for the lock), "closed"
    jobs,       \* Scheduler.jobs: which job serves a name
    secret,     \* what a job captured when it was added
    quit,       \* TRUE when job.stopCh is closed
    ticker,     \* job.ticker: "stopped", "running", or "fired" with a tick due
    pc,         \* where runJob is: "spawned", "syncing", "select" or "ended"
    results,    \* Scheduler.results
    panicked    \* a channel was closed twice and the process is gone

vars == <<stopCh, jobs, secret, quit, ticker, pc, results, panicked>>

Secret == [sched : Schedulers, name : Names, cfg : Configs]
SyncResult == [name : Names, ok : BOOLEAN]

TypeOK ==
    /\ stopCh \in [Schedulers -> {"none", "open", "closing", "closed"}]
    /\ jobs \in [Schedulers -> [Names -> Jobs \cup {NoJob}]]
    /\ secret \in [Jobs -> Secret \cup {NoSecret}]
    /\ quit \in [Jobs -> BOOLEAN]
    /\ ticker \in [Jobs -> {"stopped", "running", "fired"}]
    /\ pc \in [Jobs -> {"spawned", "syncing", "select", "ended"}]
    /\ results \in [Schedulers -> Seq(SyncResult)]
    /\ panicked \in BOOLEAN

Init ==
    /\ stopCh = [s \in Schedulers |-> "none"]
    /\ jobs = [s \in Schedulers |-> [n \in Names |-> NoJob]]
    /\ secret = [j \in Jobs |-> NoSecret]
    /\ quit = [j \in Jobs |-> TRUE]
    /\ ticker = [j \in Jobs |-> "stopped"]
    /\ pc = [j \in Jobs |-> "ended"]
    /\ results = [s \in Schedulers |-> <<>>]
    /\ panicked = FALSE

-----------------------------------------------------------------------------
Registered(j) == \E s \in Schedulers, n \in Names : jobs[s][n] = j

Free(j) == pc[j] = "ended" /\ ~Registered(j)

\* Slots have no identity of their own: any free one will do.
FreeSlot == CHOOSE j \in Jobs : Free(j)

Signalled(s) == stopCh[s] \in {"closing", "closed"}

\* The select of runJob would find one of its two stop channels closed.
Stopped(j) == quit[j] \/ (secret[j] # NoSecret /\ Signalled(secret[j].sched))

\* Mutant of StopJobs: the ticker is left running.
StopJobsTickersRun(js) ==
    /\ quit' = [j \in Jobs |-> quit[j] \/ j \in js]
    /\ panicked' = \E j \in js : quit[j]
    /\ UNCHANGED ticker

\* ticker.Stop() and close(stopCh) on every job of js; closing a channel that
\* is already closed panics.  A stopped ticker delivers no tick it had due:
\* timer channels are unbuffered since Go 1.23 and go.mod asks for 1.26.
StopJobs(js) ==
    /\ quit' = [j \in Jobs |-> quit[j] \/ j \in js]
    /\ ticker' = [j \in Jobs |-> IF j \in js THEN "stopped" ELSE ticker[j]]
    /\ panicked' = \E j \in js : quit[j]

\* Mutant of JobsAt: the lookup finds no job to retire.
LookupMisses(s, ns) == {}

JobsAt(s, ns) == {jobs[s][n] : n \in ns} \ {NoJob}

-----------------------------------------------------------------------------
NewScheduler(s) ==
    /\ stopCh[s] = "none"
    /\ stopCh' = [stopCh EXCEPT ![s] = "open"]
    /\ UNCHANGED <<jobs, secret, quit, ticker, pc, results, panicked>>

\* Under the lock: retire the job that has the name, register a new one and
\* start its goroutine.  Nothing asks whether the scheduler was stopped.
AddSecret(s, n, c) ==
    /\ stopCh[s] # "none"
    /\ \E j \in Jobs : Free(j)
    /\ LET j == FreeSlot
           old == JobsAt(s, {n})
       IN  /\ panicked' = \E o \in old : quit[o]
           /\ quit' = [k \in Jobs |-> k # j /\ (quit[k] \/ k \in old)]
           /\ ticker' = [k \in Jobs |-> IF k = j THEN "running"
                                        ELSE IF k \in old THEN "stopped"
                                        ELSE ticker[k]]
           /\ jobs' = [jobs EXCEPT ![s][n] = j]
           /\ secret' = [secret EXCEPT ![j] = [sched |-> s, name |-> n, cfg |-> c]]
           /\ pc' = [pc EXCEPT ![j] = "spawned"]
    /\ UNCHANGED <<stopCh, results>>

\* Mutant of RemoveSecret: the entry is not deleted from the map.
RemoveSecretKeepsEntry(s, n) ==
    /\ stopCh[s] # "none"
    /\ jobs[s][n] # NoJob
    /\ StopJobs(JobsAt(s, {n}))
    /\ UNCHANGED <<stopCh, jobs, secret, pc, results>>

RemoveSecret(s, n) ==
    /\ stopCh[s] # "none"
    /\ jobs[s][n] # NoJob
    /\ StopJobs(JobsAt(s, {n}))
    /\ jobs' = [jobs EXCEPT ![s][n] = NoJob]
    /\ UNCHANGED <<stopCh, secret, pc, results>>

\* Stop closes the scheduler's channel before it takes the lock; a second
\* Stop of the same scheduler panics here.
StopSignal(s) ==
    /\ stopCh[s] # "none"
    /\ stopCh' = [stopCh EXCEPT ![s] = "closing"]
    /\ panicked' = Signalled(s)
    /\ UNCHANGED <<jobs, secret, quit, ticker, pc, results>>

\* Mutant of StopRetire: the map is gone instead of empty.
StopRetireNilMap(s) ==
    /\ stopCh[s] = "closing"
    /\ stopCh' = [stopCh EXCEPT ![s] = "closed"]
    /\ StopJobs(JobsAt(s, Names))
    /\ jobs' = [jobs EXCEPT ![s] = <<>>]
    /\ UNCHANGED <<secret, pc, results>>

\* The rest of Stop, under the lock: retire every job, empty the registry.
StopRetire(s) ==
    /\ stopCh[s] = "closing"
    /\ stopCh' = [stopCh EXCEPT ![s] = "closed"]
    /\ StopJobs(JobsAt(s, Names))
    /\ jobs' = [jobs EXCEPT ![s] = [n \in Names |-> NoJob]]
    /\ UNCHANGED <<secret, pc, results>>

\* Time: the ticker fires.  A ticker with a tick due drops further ones.
Tick(j) ==
    /\ ticker[j] = "running"
    /\ ticker' = [ticker EXCEPT ![j] = "fired"]
    /\ UNCHANGED <<stopCh, jobs, secret, quit, pc, results, panicked>>

\* runJob syncs at once when its goroutine gets to run, whatever has become
\* of its stop channels since it was started.
FirstSync(j) ==
    /\ pc[j] = "spawned"
    /\ pc' = [pc EXCEPT ![j] = "syncing"]
    /\ UNCHANGED <<stopCh, jobs, secret, quit, ticker, results, panicked>>

\* The select takes a due tick.  A stop channel that is closed as well does
\* not prevent it: select chooses among the cases that are ready.
TickSync(j) ==
    /\ pc[j] = "select"
    /\ ticker[j] = "fired"
    /\ pc' = [pc EXCEPT ![j] = "syncing"]
    /\ ticker' = [ticker EXCEPT ![j] = "running"]
    /\ UNCHANGED <<stopCh, jobs, secret, quit, results, panicked>>

\* Mutant of SyncAndReport: the send waits for room in the channel.
SyncAndReportBlocks(j, ok) ==
    /\ pc[j] = "syncing"
    /\ Len(results[secret[j].sched]) < ResultsCap
    /\ pc' = [pc EXCEPT ![j] = "select"]
    /\ results' = [results EXCEPT ![secret[j].sched] =
                     Append(@, [name |-> secret[j].name, ok |-> ok])]
    /\ UNCHANGED <<stopCh, jobs, secret, quit, ticker, panicked>>

\* SyncSecret has returned.  The result is sent without blocking: it is
\* dropped when the channel is full.
SyncAndReport(j, ok) ==
    /\ pc[j] = "syncing"
    /\ pc' = [pc EXCEPT ![j] = "select"]
    /\ LET s == secret[j].sched
           r == [name |-> secret[j].name, ok |-> ok]
       IN  results' = IF Len(results[s]) < ResultsCap
                        THEN [results EXCEPT ![s] = Append(@, r)]
                        ELSE results
    /\ UNCHANGED <<stopCh, jobs, secret, quit, ticker, panicked>>

\* Mutant of Exit: the select lacks the case of the scheduler's channel.
ExitOnJobStopOnly(j) ==
    /\ pc[j] = "select"
    /\ quit[j]
    /\ pc' = [pc EXCEPT ![j] = "ended"]
    /\ secret' = [secret EXCEPT ![j] = NoSecret]
    /\ UNCHANGED <<stopCh, jobs, quit, ticker, results, panicked>>

\* The select takes a closed stop channel and the goroutine returns.
Exit(j) ==
    /\ pc[j] = "select"
    /\ Stopped(j)
    /\ pc' = [pc EXCEPT ![j] = "ended"]
    /\ secret' = [secret EXCEPT ![j] = NoSecret]
    /\ UNCHANGED <<stopCh, jobs, quit, ticker, results, panicked>>

\* The reader of Results() takes one.
TakeResult(s) ==
    /\ results[s] # <<>>
    /\ results' = [results EXCEPT ![s] = Tail(@)]
    /\ UNCHANGED <<stopCh, jobs, secret, quit, ticker, pc, panicked>>

-----------------------------------------------------------------------------
\* What the callers of the scheduler do.  They stop a scheduler at most once.
Call ==
    \E s \in Schedulers :
       \/ NewScheduler(s)
       \/ \E n \in Names, c \in Configs : AddSecret(s, n, c)
       \/ \E n \in Names : RemoveSecret(s, n)
       \/ ~Signalled(s) /\ StopSignal(s)
       \/ StopRetire(s)
       \/ TakeResult(s)

\* What the goroutine of a job and its ticker do.
Run(j) ==
    \/ Tick(j)
    \/ FirstSync(j)
    \/ TickSync(j)
    \/ \E ok \in BOOLEAN : SyncAndReport(j, ok)
    \/ Exit(j)

Next == ~panicked /\ (Call \/ \E j \in Jobs : Run(j))

Spec == Init /\ [][Next]_vars

(***************************************************************************)
(* Time passes, a runnable goroutine is scheduled and SyncSecret returns   *)
(* (its retries are finite).  The select picks at random among the ready   *)
(* cases, so a case that is ready again and again is taken: strong         *)
(* fairness.  Nothing is assumed of the callers, not even of the reader of *)
(* the results, except that a Stop that has begun gets the lock.           *)
(***************************************************************************)
JobFairness(j) ==
    /\ WF_vars(~panicked /\ Tick(j))
    /\ WF_vars(~panicked /\ FirstSync(j))
    /\ WF_vars(~panicked /\ TickSync(j))
    /\ WF_vars(~panicked /\ \E ok \in BOOLEAN : SyncAndReport(j, ok))
    /\ SF_vars(~panicked /\ Exit(j))

FairSpec ==
    /\ Spec
    /\ \A j \in Jobs : JobFairness(j)
    /\ \A s \in Schedulers : WF_vars(~panicked /\ StopRetire(s))

-----------------------------------------------------------------------------
\* AddSecret, RemoveSecret and Stop close a channel at most once, whatever
\* the order in which the goroutines that call them get the lock.
NoDoubleClose == ~panicked

\* A job whose stop channel is open is the one the registry holds under its
\* name.  So a name has at most one such job, and none is out of reach of
\* AddSecret, RemoveSecret and Stop (a goroutine that could never be ended).
NoOrphanJob ==
    \A j \in Jobs : ~quit[j] =>
        \/ secret[j] # NoSecret /\ jobs[secret[j].sched][secret[j].name] = j
        \/ pc[j] = "ended" /\ Registered(j)

\* Once a job was removed or replaced it syncs at most the sync it had begun
\* or, when its goroutine had not run yet, its first one: it never takes
\* another tick, although the select would let it.
NoRepeatAfterStop ==
    [][\A j \in Jobs :
         (pc[j] = "select" /\ pc'[j] = "syncing") => ~quit[j]]_vars

\* A job that was removed, replaced, or whose scheduler was stopped ends,
\* also the job that was added to a scheduler already stopped.
StoppedJobEnds ==
    \A j \in Jobs : (pc[j] # "ended" /\ Stopped(j)) ~> pc[j] = "ended"

\* A job that nobody stops syncs again and again even when nobody reads the
\* results: it comes to its next sync and no full channel holds it up in one.
LiveJobSyncs ==
    \A j \in Jobs :
       /\ []<>(pc[j] = "syncing" \/ pc[j] = "ended" \/ Stopped(j))
       /\ []<>(pc[j] # "syncing")
=============================================================================
