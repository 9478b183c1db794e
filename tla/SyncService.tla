----------------------------- MODULE SyncService -----------------------------
(***************************************************************************)
(* The running service: func run of cmd/secrets-sync/main.go with the      *)
(* goroutines it starts, composed from Scheduler.                          *)
(*                                                                         *)
(*   - main loads the configuration, creates a scheduler, adds a job per   *)
(*     secret, starts the monitor and the config watcher, installs its     *)
(*     signal handlers and serves SIGHUP (reload) and SIGTERM (shutdown);  *)
(*   - the monitor counts results and reports readiness;                   *)
(*   - the watcher (internal/config/watcher.go) applies edits of the file; *)
(*   - the shutdown goroutine (internal/shutdown/handler.go) runs the      *)
(*     handlers while main waits for it, at most 30 seconds;               *)
(*   - each job fetches its secret from Vault and writes its file.         *)
(*                                                                         *)
(* The environment edits the configuration file, sends signals, rotates    *)
(* the secret in Vault and interrupts Vault, all bounded by constants.     *)
(* Schedulers are numbered in the order main creates them.                 *)
(***************************************************************************)
EXTENDS Scheduler, FiniteSets

CONSTANTS
    BadFile,        \* content of the configuration file that Load rejects
    SecretsOf,      \* the names a configuration lists
    WatchConfig,    \* WATCH_CONFIG of the environment
    EditsReplace,   \* TRUE when an edit may put a new file in place (rename)
    MayTerm,        \* TRUE when SIGTERM may be sent
    MaxEdits,       \* bound on the edits of the configuration file
    MaxReloads,     \* bound on the SIGHUPs sent
    MaxRotations,   \* bound on the changes of the secret in Vault
    MaxOutages,     \* bound on the interruptions of Vault
    NoData,         \* a job has fetched nothing yet
    NoFile          \* an output file that does not exist

ASSUME ServiceAssumption ==
    /\ BadFile \notin Configs
    /\ SecretsOf \in [Configs -> (SUBSET Names) \ {{}}]
    /\ {WatchConfig, EditsReplace, MayTerm} \subseteq BOOLEAN
    /\ {MaxEdits, MaxReloads, MaxRotations, MaxOutages} \subseteq Nat
    /\ Schedulers = 1..(MaxReloads + 1)

VARIABLES
    main,       \* where main is: "make", "add", "install", "serve", "stop",
                \* "retire", "shutdown" or "exited"
    handling,   \* shutdown.NewHandler has been called
    sched,      \* the captured variable scheduler; 0 before the first
    cfg,        \* the captured variable cfg
    newCfg,     \* the configuration main is about to run
    todo,       \* names the AddSecret loop of main has still to add
    stopper,    \* the shutdown goroutine: "idle", "signal", "retire", "done"
    term, hup,  \* sigCh and reloadCh, one slot each
    hups,       \* SIGHUPs sent
    disk,       \* what the configuration file holds
    edits,      \* edits made
    event,      \* a write event waits for the watcher
    watching,   \* the watcher still watches the file at the path
    watcher,    \* the watcher goroutine: "off", "idle" or "adding"
    wcfg,       \* the configuration the watcher applied last
    wtodo,      \* names the AddSecret loop of the watcher has still to add
    monitored,  \* the scheduler whose results the monitor reads; 0 at first
    vaultUp, data, outages,
    fetched,    \* what a job got from Vault and has not written yet
    file        \* the output file of each secret

mainVars == <<main, handling, sched, cfg, newCfg, todo, stopper>>
sigVars == <<term, hup, hups>>
diskVars == <<disk, edits, event, watching>>
watchVars == <<watcher, wcfg, wtodo>>
vaultVars == <<vaultUp, data, outages>>
outVars == <<fetched, file>>
svcVars == <<vars, mainVars, sigVars, diskVars, watchVars, monitored,
             vaultVars, outVars>>

Data == 0..MaxRotations
Output == [cfg : Configs, data : Data]

SvcTypeOK ==
    /\ TypeOK
    /\ main \in {"make", "add", "install", "serve", "stop", "retire",
                 "shutdown", "exited"}
    /\ handling \in BOOLEAN
    /\ sched \in Schedulers \cup {0}
    /\ {cfg, newCfg, wcfg} \subseteq Configs
    /\ todo \subseteq Names /\ wtodo \subseteq Names
    /\ stopper \in {"idle", "signal", "retire", "done"}
    /\ {term, hup, event, watching, vaultUp} \subseteq BOOLEAN
    /\ disk \in Configs \cup {BadFile}
    /\ watcher \in {"off", "idle", "adding"}
    /\ monitored \in Schedulers \cup {0}
    /\ data \in Data
    /\ fetched \in [Jobs -> Data \cup {NoData}]
    /\ file \in [Names -> Output \cup {NoFile}]

SvcInit ==
    /\ Init
    /\ disk \in Configs
    /\ cfg = disk /\ newCfg = disk /\ wcfg = disk
    /\ main = "make" /\ handling = FALSE /\ sched = 0
    /\ todo = {} /\ stopper = "idle"
    /\ term = FALSE /\ hup = FALSE /\ hups = 0
    /\ edits = 0 /\ event = FALSE /\ watching = FALSE
    /\ watcher = "off" /\ wtodo = {}
    /\ monitored = 0
    /\ vaultUp = TRUE /\ data = 0 /\ outages = 0
    /\ fetched = [j \in Jobs |-> NoData]
    /\ file = [n \in Names |-> NoFile]

-----------------------------------------------------------------------------
\* Mutant of MakeScheduler: on a reload the new scheduler is bound to a new
\* variable (:= for =) and the captured one keeps the old.
MakeSchedulerShadowed ==
    /\ main = "make"
    /\ \E s \in Schedulers : stopCh[s] = "none" /\ NewScheduler(s)
    /\ sched' = IF handling THEN sched ELSE 1
    /\ cfg' = newCfg /\ todo' = SecretsOf[newCfg] /\ main' = "add"
    /\ UNCHANGED <<handling, newCfg, stopper, sigVars, diskVars, watchVars,
                   monitored, vaultVars, outVars>>

\* Mutant of MakeScheduler: cfg is not assigned on a reload.
MakeSchedulerKeepsCfg ==
    /\ main = "make"
    /\ sched + 1 \in Schedulers
    /\ NewScheduler(sched + 1)
    /\ sched' = sched + 1
    /\ todo' = SecretsOf[cfg] /\ main' = "add"
    /\ UNCHANGED <<handling, cfg, newCfg, stopper, sigVars, diskVars, watchVars,
                   monitored, vaultVars, outVars>>

\* main.  At start and after a reload it makes a scheduler for newCfg ...
MakeScheduler ==
    /\ main = "make"
    /\ sched + 1 \in Schedulers
    /\ NewScheduler(sched + 1)
    /\ sched' = sched + 1
    /\ cfg' = newCfg
    /\ todo' = SecretsOf[newCfg]
    /\ main' = "add"
    /\ UNCHANGED <<handling, newCfg, stopper, sigVars, diskVars, watchVars,
                   monitored, vaultVars, outVars>>

\* ... and adds the secrets, in the order the file lists them (any order).
AddConfigured(n) ==
    /\ main = "add"
    /\ n \in todo
    /\ AddSecret(sched, n, cfg)
    /\ todo' = todo \ {n}
    /\ main' = IF todo # {n} THEN "add" ELSE IF handling THEN "serve" ELSE "install"
    /\ UNCHANGED <<handling, sched, cfg, newCfg, stopper, sigVars, diskVars,
                   watchVars, monitored, vaultVars, outVars>>

\* The watcher is started and then the signal handlers are installed.
Install ==
    /\ main = "install"
    /\ main' = "serve" /\ handling' = TRUE
    /\ watcher' = IF WatchConfig THEN "idle" ELSE "off"
    /\ watching' = WatchConfig
    /\ UNCHANGED <<vars, sched, cfg, newCfg, todo, stopper, sigVars, disk, edits,
                   event, wcfg, wtodo, monitored, vaultVars, outVars>>

\* Mutant of TakeHup: the result of Load and Validate is not looked at.
TakeHupUnchecked ==
    /\ main = "serve" /\ hup
    /\ hup' = FALSE
    /\ main' = "stop" /\ newCfg' = disk
    /\ UNCHANGED <<vars, handling, sched, cfg, todo, stopper, term, hups, diskVars,
                   watchVars, monitored, vaultVars, outVars>>

\* Mutant of TakeHup: the current scheduler is not stopped.
TakeHupNoStop ==
    /\ main = "serve" /\ hup
    /\ hup' = FALSE
    /\ IF disk = BadFile THEN UNCHANGED <<main, newCfg>>
                         ELSE main' = "make" /\ newCfg' = disk
    /\ UNCHANGED <<vars, handling, sched, cfg, todo, stopper, term, hups, diskVars,
                   watchVars, monitored, vaultVars, outVars>>

\* SIGHUP received: load and validate; a bad file leaves everything alone.
TakeHup ==
    /\ main = "serve" /\ hup
    /\ hup' = FALSE
    /\ IF disk = BadFile THEN UNCHANGED <<main, newCfg>>
                         ELSE main' = "stop" /\ newCfg' = disk
    /\ UNCHANGED <<vars, handling, sched, cfg, todo, stopper, term, hups, diskVars,
                   watchVars, monitored, vaultVars, outVars>>

\* scheduler.Stop() of the reload, before the new scheduler exists.
ReloadSignal ==
    /\ main = "stop"
    /\ StopSignal(sched)
    /\ main' = "retire"
    /\ UNCHANGED <<handling, sched, cfg, newCfg, todo, stopper, sigVars, diskVars,
                   watchVars, monitored, vaultVars, outVars>>

ReloadRetire ==
    /\ main = "retire"
    /\ StopRetire(sched)
    /\ main' = "make"
    /\ UNCHANGED <<handling, sched, cfg, newCfg, todo, stopper, sigVars, diskVars,
                   watchVars, monitored, vaultVars, outVars>>

\* SIGTERM received: Shutdown starts the goroutine that runs the handlers.
TakeTerm ==
    /\ main = "serve" /\ term
    /\ term' = FALSE
    /\ main' = "shutdown" /\ stopper' = "signal"
    /\ UNCHANGED <<vars, handling, sched, cfg, newCfg, todo, hup, hups, diskVars,
                   watchVars, monitored, vaultVars, outVars>>

\* Shutdown returns when the handlers are done or after its timeout, and the
\* process ends with whatever its goroutines were doing.
ShutdownReturns ==
    /\ main = "shutdown"
    /\ main' = "exited"
    /\ UNCHANGED <<vars, handling, sched, cfg, newCfg, todo, stopper, sigVars,
                   diskVars, watchVars, monitored, vaultVars, outVars>>

HandlersDone == stopper = "done" /\ ShutdownReturns
Timeout == stopper # "done" /\ ShutdownReturns

\* Mutant of StopperStep: the goroutine never sends on done.
StopperStepSilent ==
    /\ \/ stopper = "signal" /\ StopSignal(sched) /\ stopper' = "retire"
       \/ stopper = "retire" /\ StopRetire(sched) /\ stopper' = "retire"
    /\ UNCHANGED <<main, handling, sched, cfg, newCfg, todo, sigVars, diskVars,
                   watchVars, monitored, vaultVars, outVars>>

\* The handler that stops the scheduler main uses at that time.
StopperStep ==
    /\ \/ stopper = "signal" /\ StopSignal(sched) /\ stopper' = "retire"
       \/ stopper = "retire" /\ StopRetire(sched) /\ stopper' = "done"
    /\ UNCHANGED <<main, handling, sched, cfg, newCfg, todo, sigVars, diskVars,
                   watchVars, monitored, vaultVars, outVars>>

Main ==
    \/ MakeScheduler \/ \E n \in Names : AddConfigured(n) \/ Install
    \/ ReloadSignal \/ ReloadRetire
    \/ HandlersDone

-----------------------------------------------------------------------------
\* The watcher takes a write event and loads the file.
WatchLoad ==
    /\ watcher = "idle" /\ event
    /\ event' = FALSE
    /\ IF disk = BadFile
         THEN UNCHANGED watchVars
         ELSE watcher' = "adding" /\ wcfg' = disk /\ wtodo' = SecretsOf[disk]
    /\ UNCHANGED <<vars, mainVars, sigVars, disk, edits, watching, monitored,
                   vaultVars, outVars>>

\* Mutant of WatchAdd: the jobs capture the configuration of main.
WatchAddOldConfig(n) ==
    /\ watcher = "adding" /\ n \in wtodo
    /\ AddSecret(sched, n, cfg)
    /\ wtodo' = wtodo \ {n}
    /\ watcher' = IF wtodo = {n} THEN "idle" ELSE "adding"
    /\ UNCHANGED <<mainVars, sigVars, diskVars, wcfg, monitored, vaultVars, outVars>>

\* onChange adds each secret to the scheduler the captured variable holds by
\* then.  It removes none.
WatchAdd(n) ==
    /\ watcher = "adding" /\ n \in wtodo
    /\ AddSecret(sched, n, wcfg)
    /\ wtodo' = wtodo \ {n}
    /\ watcher' = IF wtodo = {n} THEN "idle" ELSE "adding"
    /\ UNCHANGED <<mainVars, sigVars, diskVars, wcfg, monitored, vaultVars, outVars>>

Watch == WatchLoad \/ \E n \in Names : WatchAdd(n)

\* The monitor evaluates scheduler.Results() once, when it gets to run ...
MonitorStart ==
    /\ handling /\ monitored = 0
    /\ monitored' = sched
    /\ UNCHANGED <<vars, mainVars, sigVars, diskVars, watchVars, vaultVars, outVars>>

\* ... and takes the results of that scheduler's jobs.  (What it makes of them
\* is in SecretFiles.)
MonitorTake ==
    /\ monitored # 0
    /\ TakeResult(monitored)
    /\ UNCHANGED <<mainVars, sigVars, diskVars, watchVars, monitored, vaultVars,
                   outVars>>

-----------------------------------------------------------------------------
\* A job: FetchSecretWithRetry returns the secret ...
Fetch(j) ==
    /\ pc[j] = "syncing" /\ fetched[j] = NoData
    /\ vaultUp
    /\ fetched' = [fetched EXCEPT ![j] = data]
    /\ UNCHANGED <<vars, mainVars, sigVars, diskVars, watchVars, monitored,
                   vaultVars, file>>

\* ... or gives up after its retries, and the sync is reported as failed.
FetchFails(j) ==
    /\ pc[j] = "syncing" /\ fetched[j] = NoData
    /\ ~vaultUp
    /\ SyncAndReport(j, FALSE)
    /\ UNCHANGED <<mainVars, sigVars, diskVars, watchVars, monitored, vaultVars,
                   outVars>>

\* The file is renamed into place and the success reported.
WriteFile(j) ==
    /\ fetched[j] # NoData
    /\ SyncAndReport(j, TRUE)
    /\ file' = [file EXCEPT ![secret[j].name] =
                  [cfg |-> secret[j].cfg, data |-> fetched[j]]]
    /\ fetched' = [fetched EXCEPT ![j] = NoData]
    /\ UNCHANGED <<mainVars, sigVars, diskVars, watchVars, monitored, vaultVars>>

SyncSecret(j) == Fetch(j) \/ FetchFails(j) \/ WriteFile(j)

\* The steps of runJob that touch nothing but the scheduler.
Idle(A) == A /\ UNCHANGED <<mainVars, sigVars, diskVars, watchVars, monitored,
                            vaultVars, outVars>>

-----------------------------------------------------------------------------
\* The environment.  A signal finds the default action, which ends the
\* process, until the handlers are installed; then it waits in its slot,
\* where a further one of the same kind is lost.
SendTerm ==
    /\ MayTerm /\ ~term /\ stopper = "idle"
    /\ IF handling THEN term' = TRUE /\ UNCHANGED main
                   ELSE main' = "exited" /\ UNCHANGED term
    /\ UNCHANGED <<vars, handling, sched, cfg, newCfg, todo, stopper, hup, hups,
                   diskVars, watchVars, monitored, vaultVars, outVars>>

SendHup ==
    /\ hups < MaxReloads
    /\ hups' = hups + 1
    /\ IF handling THEN hup' = TRUE /\ UNCHANGED main
                   ELSE main' = "exited" /\ UNCHANGED hup
    /\ UNCHANGED <<vars, handling, sched, cfg, newCfg, todo, stopper, term,
                   diskVars, watchVars, monitored, vaultVars, outVars>>

\* The operator edits the file in place, which raises a write event, or
\* renames a new file over it, which ends the watch of the old one.
EditConfig(c) ==
    /\ edits < MaxEdits /\ disk # c
    /\ edits' = edits + 1
    /\ disk' = c
    /\ \/ event' = (event \/ watching) /\ UNCHANGED watching
       \/ EditsReplace /\ watching' = FALSE /\ UNCHANGED event
    /\ UNCHANGED <<vars, mainVars, sigVars, watchVars, monitored, vaultVars,
                   outVars>>

Vault ==
    /\ \/ data < MaxRotations /\ data' = data + 1 /\ UNCHANGED <<vaultUp, outages>>
       \/ /\ vaultUp /\ outages < MaxOutages
          /\ vaultUp' = FALSE /\ outages' = outages + 1
          /\ UNCHANGED data
    /\ UNCHANGED <<vars, mainVars, sigVars, diskVars, watchVars, monitored, outVars>>

VaultRecovers ==
    /\ ~vaultUp /\ vaultUp' = TRUE
    /\ UNCHANGED <<vars, mainVars, sigVars, diskVars, watchVars, monitored,
                   data, outages, outVars>>

-----------------------------------------------------------------------------
Alive == ~panicked /\ main # "exited"

SvcNext ==
    /\ Alive
    /\ \/ Main \/ TakeHup \/ TakeTerm \/ Timeout \/ StopperStep
       \/ Watch \/ MonitorStart \/ MonitorTake
       \/ \E j \in Jobs : \/ SyncSecret(j)
                          \/ Idle(Tick(j)) \/ Idle(FirstSync(j))
                          \/ Idle(TickSync(j)) \/ Idle(Exit(j))
       \/ SendTerm \/ SendHup \/ \E c \in Configs \cup {BadFile} : EditConfig(c)
       \/ Vault \/ VaultRecovers

SvcSpec == SvcInit /\ [][SvcNext]_svcVars

(***************************************************************************)
(* Every goroutine that can run is run; a select that finds a case ready   *)
(* again and again takes it (SIGTERM against SIGHUP, a stop channel against *)
(* the ticker); an outage of Vault ends.  Nobody has to edit the file, send *)
(* a signal or change the secret.                                          *)
(***************************************************************************)
SvcFairness ==
    /\ WF_svcVars(Alive /\ Main)
    /\ WF_svcVars(Alive /\ TakeHup)
    /\ SF_svcVars(Alive /\ TakeTerm)
    /\ WF_svcVars(Alive /\ StopperStep)
    /\ WF_svcVars(Alive /\ Watch)
    /\ WF_svcVars(Alive /\ (MonitorStart \/ MonitorTake))
    /\ WF_svcVars(Alive /\ VaultRecovers)
    /\ \A j \in Jobs :
         /\ WF_svcVars(Alive /\ SyncSecret(j))
         /\ WF_svcVars(Alive /\ Idle(Tick(j)))
         /\ WF_svcVars(Alive /\ Idle(FirstSync(j)))
         /\ WF_svcVars(Alive /\ Idle(TickSync(j)))
         /\ SF_svcVars(Alive /\ Idle(Exit(j)))

FairSvcSpec == SvcSpec /\ SvcFairness

-----------------------------------------------------------------------------
\* main, the watcher and the shutdown goroutine use the schedulers as
\* Scheduler asks: a behaviour of the service is one of Scheduler, so each
\* scheduler is stopped at most once (a second Stop would panic).
SchedulerContract == Spec

\* Without the watcher, whenever main waits for signals the registry of its
\* scheduler lists exactly the secrets of cfg, and every job that was not told
\* to stop belongs to that scheduler and captured that configuration.
ServesItsConfig ==
    (main = "serve" /\ ~WatchConfig) =>
       /\ \A n \in Names : jobs[sched][n] # NoJob <=> n \in SecretsOf[cfg]
       /\ \A j \in Jobs : (~quit[j] /\ pc[j] # "ended") =>
             secret[j].sched = sched /\ secret[j].cfg = cfg

\* Whatever happens around it, a SIGHUP in its slot is served with the file
\* as it is then: the one slot loses no reload that still matters.
ReloadTakesEffect ==
    \A c \in Configs :
       (hup /\ disk = c) ~> (cfg = c \/ disk # c \/ main = "exited")

\* When edits, signals, rotations and outages cease, the file of every secret
\* the scheduler serves ends up with the rendering that its registered job
\* makes of the current secret, and stays so: a job of an earlier scheduler or
\* a replaced one that was in flight overwrites it at most for a while.
FilesConverge ==
    <>[](\/ main = "exited"
         \/ /\ sched # 0
            /\ \A n \in Names : LET j == jobs[sched][n] IN
                 j # NoJob => /\ secret[j] # NoSecret
                              /\ file[n] = [cfg |-> secret[j].cfg, data |-> data])

\* A SIGTERM that was received ends the process, also during a reload.
ShutdownCompletes == term ~> main = "exited"

\* The scheduler main uses serves every secret of c as c describes it.
ServedWith(c) ==
    /\ sched # 0
    /\ \A n \in SecretsOf[c] : \E j \in Jobs :
         jobs[sched][n] = j /\ secret[j] # NoSecret /\ secret[j].cfg = c

\* With the watcher, and as long as no SIGHUP is sent, a change of the file
\* that raised an event reaches the jobs of all its secrets.  (An edit between
\* Load at start and NewWatcher raises none.)
WatchedChangeApplied ==
    \A c \in Configs :
       (event /\ disk = c) ~> (disk # c \/ main = "exited" \/ ServedWith(c))
=============================================================================
