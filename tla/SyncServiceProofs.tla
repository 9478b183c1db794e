--------------------------- MODULE SyncServiceProofs ---------------------------
(***************************************************************************)
(* Theorems about SyncService for every set of secrets, configurations and *)
(* job slots and every bound: main, the watcher and the shutdown goroutine *)
(* keep the contract of Scheduler, and without the watcher the scheduler   *)
(* main uses serves exactly the configuration main holds.                  *)
(***************************************************************************)
EXTENDS SyncService, SchedulerProofs

\* The type invariant, in the parts the proofs use.
MainTypeOK ==
    /\ main \in {"make", "add", "install", "serve", "stop", "retire",
                 "shutdown", "exited"}
    /\ stopper \in {"idle", "signal", "retire", "done"}
    /\ handling \in BOOLEAN
    /\ sched \in Schedulers \cup {0}
    /\ cfg \in Configs /\ newCfg \in Configs
    /\ todo \subseteq Names

WatchTypeOK ==
    /\ watcher \in {"off", "idle", "adding"}
    /\ wcfg \in Configs
    /\ wtodo \subseteq Names
    /\ disk \in Configs \cup {BadFile}
    /\ event \in BOOLEAN /\ watching \in BOOLEAN

EnvTypeOK ==
    /\ term \in BOOLEAN /\ hup \in BOOLEAN /\ vaultUp \in BOOLEAN
    /\ monitored \in Schedulers \cup {0}
    /\ data \in Data

OutTypeOK ==
    /\ fetched \in [Jobs -> Data \cup {NoData}]
    /\ file \in [Names -> Output \cup {NoFile}]

\* main creates the schedulers in order and knows the state of the last one.
\* Only one of the goroutines stops it: the shutdown goroutine runs when main
\* has left its loop for good.
SchedulerUse ==
    /\ \A s \in Schedulers : s > sched => stopCh[s] = "none"
    /\ main \notin {"make", "exited"} => sched # 0
    /\ handling => sched # 0
    /\ watcher # "off" => handling
    /\ stopper # "idle" => main \in {"shutdown", "exited"} /\ sched # 0
    /\ (main \in {"add", "install", "serve", "stop"} \/ stopper = "signal") =>
          stopCh[sched] = "open"

\* A job holds what it fetched only during a sync.
FetchedSyncing == \A j \in Jobs : fetched[j] # NoData => pc[j] = "syncing"

\* Without the watcher only main adds jobs: no other scheduler has any, and
\* while main runs on cfg its scheduler has those of cfg that are not to do.
OthersEmpty ==
    ~WatchConfig =>
       /\ watcher = "off"
       /\ \A s \in Schedulers, n \in Names :
             (s # sched \/ main = "make") => jobs[s][n] = NoJob

Running == main \in {"add", "install", "serve"}

ServingCfg ==
    (Running /\ ~WatchConfig) =>
       /\ main # "add" => todo = {}
       /\ todo \subseteq SecretsOf[cfg]
       /\ \A n \in Names : jobs[sched][n] # NoJob <=> n \in SecretsOf[cfg] \ todo
       /\ \A n \in Names :
             (jobs[sched][n] # NoJob /\ pc[jobs[sched][n]] # "ended") =>
                secret[jobs[sched][n]].cfg = cfg

SvcTypes == MainTypeOK /\ WatchTypeOK /\ EnvTypeOK /\ OutTypeOK

SvcInv ==
    /\ IndInv
    /\ SvcTypes
    /\ SchedulerUse
    /\ FetchedSyncing
    /\ OthersEmpty
    /\ ServingCfg

-----------------------------------------------------------------------------
\* The bounds of the instance are natural numbers and the first scheduler is 1.
LEMMA Bounds ==
    /\ MaxReloads \in Nat /\ MaxRotations \in Nat
    /\ WatchConfig \in BOOLEAN
    /\ Schedulers = 1..(MaxReloads + 1) /\ 0 \notin Schedulers
    /\ Data \subseteq Nat /\ 0 \in Data
    /\ \A c \in Configs : SecretsOf[c] \subseteq Names /\ SecretsOf[c] # {}
<1>1. MaxReloads \in Nat /\ MaxRotations \in Nat
  BY ServiceAssumption, Zenon
<1>0. WatchConfig \in BOOLEAN
  BY ServiceAssumption, Zenon
<1>2. Schedulers = 1..(MaxReloads + 1) /\ 0 \notin Schedulers
  BY <1>1, ServiceAssumption
<1>3. Data \subseteq Nat /\ 0 \in Data
  BY <1>1 DEF Data
<1>4. \A c \in Configs : SecretsOf[c] \subseteq Names /\ SecretsOf[c] # {}
  BY ServiceAssumption
<1> QED BY <1>0, <1>1, <1>2, <1>3, <1>4

\* Every initial state of the service satisfies the invariant.
LEMMA SvcInitInv == SvcInit => SvcInv
<1> SUFFICES ASSUME SvcInit PROVE SvcInv
  OBVIOUS
<1>1. IndInv
  BY InitInv DEF SvcInit
<1>2. MainTypeOK /\ WatchTypeOK /\ EnvTypeOK
  BY Bounds DEF SvcInit, MainTypeOK, WatchTypeOK, EnvTypeOK
<1>3. OutTypeOK
  BY DEF SvcInit, OutTypeOK
<1>4. SchedulerUse
  BY DEF SvcInit, Init, SchedulerUse
<1>5. FetchedSyncing /\ OthersEmpty
  BY DEF SvcInit, Init, FetchedSyncing, OthersEmpty
<1>6. ServingCfg
  BY DEF SvcInit, ServingCfg, Running
<1> QED BY <1>1, <1>2, <1>3, <1>4, <1>5, <1>6 DEF SvcInv, SvcTypes

-----------------------------------------------------------------------------
\* What a step of the service is to the schedulers: main, the watcher and the
\* shutdown goroutine call them as Call allows, the jobs run, and all other
\* steps leave them alone.
LEMMA SvcRefines ==
    ASSUME SvcInv, SvcNext PROVE [Next]_vars
<1>a. /\ ~panicked
      /\ SchedulerUse /\ FetchedSyncing /\ MainTypeOK /\ WatchTypeOK /\ EnvTypeOK
  BY DEF SvcNext, Alive, SvcInv, SvcTypes
<1>b. sched # 0 => sched \in Schedulers
  BY <1>a DEF MainTypeOK
<1>1. ASSUME Call PROVE Next
  BY <1>1, <1>a DEF Next
<1>2. ASSUME NEW j \in Jobs, Run(j) PROVE Next
  BY <1>2, <1>a DEF Next
<1>3. CASE MakeScheduler
  BY <1>3, <1>1 DEF MakeScheduler, Call
<1>4. ASSUME NEW n \in Names, AddConfigured(n) PROVE Next
  <2>1. sched \in Schedulers /\ cfg \in Configs
    BY <1>4, <1>a, <1>b DEF AddConfigured, SchedulerUse, MainTypeOK
  <2> QED BY <2>1, <1>4, <1>1 DEF AddConfigured, Call
<1>5. CASE ReloadSignal
  <2>1. sched \in Schedulers /\ ~Signalled(sched)
    BY <1>5, <1>a, <1>b DEF ReloadSignal, SchedulerUse, Signalled
  <2> QED BY <2>1, <1>5, <1>1 DEF ReloadSignal, Call
<1>6. CASE ReloadRetire
  <2>1. sched \in Schedulers
    BY <1>6, <1>a, <1>b DEF ReloadRetire, SchedulerUse
  <2> QED BY <2>1, <1>6, <1>1 DEF ReloadRetire, Call
<1>7. CASE StopperStep
  <2>1. sched \in Schedulers /\ (stopper = "signal" => ~Signalled(sched))
    BY <1>7, <1>a, <1>b DEF StopperStep, SchedulerUse, Signalled
  <2> QED BY <2>1, <1>7, <1>1 DEF StopperStep, Call
<1>8. ASSUME NEW n \in Names, WatchAdd(n) PROVE Next
  <2>1. sched \in Schedulers /\ wcfg \in Configs
    BY <1>8, <1>a, <1>b DEF WatchAdd, SchedulerUse, WatchTypeOK
  <2> QED BY <2>1, <1>8, <1>1 DEF WatchAdd, Call
<1>9. CASE MonitorTake
  <2>1. monitored \in Schedulers
    BY <1>9, <1>a DEF MonitorTake, EnvTypeOK
  <2> QED BY <2>1, <1>9, <1>1 DEF MonitorTake, Call
<1>10. ASSUME NEW j \in Jobs,
              \/ SyncSecret(j)
              \/ Idle(Tick(j)) \/ Idle(FirstSync(j))
              \/ Idle(TickSync(j)) \/ Idle(Exit(j))
       PROVE  [Next]_vars
  BY <1>10, <1>2 DEF SyncSecret, Fetch, FetchFails, WriteFile, Idle, Run
<1>11. CASE \/ Install \/ HandlersDone \/ TakeHup \/ TakeTerm \/ Timeout
            \/ WatchLoad \/ MonitorStart \/ SendTerm \/ SendHup
            \/ \E c \in Configs \cup {BadFile} : EditConfig(c)
            \/ Vault \/ VaultRecovers
  BY <1>11 DEF Install, HandlersDone, Timeout, ShutdownReturns, TakeHup, TakeTerm,
       WatchLoad, MonitorStart, SendTerm, SendHup, EditConfig, Vault, VaultRecovers
<1> QED BY <1>3, <1>4, <1>5, <1>6, <1>7, <1>8, <1>9, <1>10, <1>11
        DEF SvcNext, Main, Watch

\* The steps that move main, its variables or the watcher.
LEMMA TypesStep ==
    ASSUME SvcInv, SvcNext PROVE MainTypeOK' /\ WatchTypeOK'
<1>a. MainTypeOK /\ WatchTypeOK /\ SchedulerUse
  BY DEF SvcInv, SvcTypes
<1>1. CASE MakeScheduler
  <2>1. sched' \in Schedulers /\ todo' \subseteq Names
    BY <1>1, <1>a, Bounds DEF MakeScheduler, MainTypeOK
  <2> QED BY <2>1, <1>1, <1>a DEF MakeScheduler, diskVars, watchVars, MainTypeOK, WatchTypeOK
<1>2. ASSUME NEW n \in Names, AddConfigured(n) PROVE MainTypeOK' /\ WatchTypeOK'
  BY <1>2, <1>a DEF AddConfigured, diskVars, watchVars, MainTypeOK, WatchTypeOK
<1>3. CASE Install
  BY <1>3, <1>a, Bounds DEF Install, MainTypeOK, WatchTypeOK
<1>4. CASE ReloadSignal \/ ReloadRetire \/ HandlersDone \/ Timeout
  BY <1>4, <1>a DEF ReloadSignal, ReloadRetire, HandlersDone, Timeout,
     ShutdownReturns, diskVars, watchVars, MainTypeOK, WatchTypeOK
<1>5. CASE TakeHup
  BY <1>5, <1>a DEF TakeHup, diskVars, watchVars, MainTypeOK, WatchTypeOK
<1>6. CASE TakeTerm \/ StopperStep
  BY <1>6, <1>a DEF TakeTerm, StopperStep, diskVars, watchVars, MainTypeOK, WatchTypeOK
<1>7. CASE WatchLoad
  BY <1>7, <1>a, Bounds DEF WatchLoad, mainVars, watchVars, MainTypeOK, WatchTypeOK
<1>8. ASSUME NEW n \in Names, WatchAdd(n) PROVE MainTypeOK' /\ WatchTypeOK'
  BY <1>8, <1>a DEF WatchAdd, mainVars, diskVars, MainTypeOK, WatchTypeOK
<1>9. CASE SendTerm \/ SendHup
  BY <1>9, <1>a DEF SendTerm, SendHup, diskVars, watchVars, MainTypeOK, WatchTypeOK
<1>10. ASSUME NEW c \in Configs \cup {BadFile}, EditConfig(c)
       PROVE  MainTypeOK' /\ WatchTypeOK'
  BY <1>10, <1>a DEF EditConfig, mainVars, watchVars, MainTypeOK, WatchTypeOK
<1>11. ASSUME UNCHANGED <<mainVars, diskVars, watchVars>>
       PROVE  MainTypeOK' /\ WatchTypeOK'
  BY <1>11, <1>a DEF mainVars, diskVars, watchVars, MainTypeOK, WatchTypeOK
<1>12. CASE MonitorStart \/ MonitorTake \/ Vault \/ VaultRecovers
  BY <1>11, <1>12 DEF MonitorStart, MonitorTake, Vault, VaultRecovers
<1>13. ASSUME NEW j \in Jobs,
              \/ SyncSecret(j)
              \/ Idle(Tick(j)) \/ Idle(FirstSync(j))
              \/ Idle(TickSync(j)) \/ Idle(Exit(j))
       PROVE  MainTypeOK' /\ WatchTypeOK'
  BY <1>11, <1>13 DEF SyncSecret, Fetch, FetchFails, WriteFile, Idle
<1> QED BY <1>1, <1>2, <1>3, <1>4, <1>5, <1>6, <1>7, <1>8, <1>9, <1>10, <1>12, <1>13
        DEF SvcNext, Main, Watch

\* The steps that touch the signals, the monitor or Vault.
LEMMA EnvStep ==
    ASSUME SvcInv, SvcNext PROVE EnvTypeOK'
<1>a. EnvTypeOK /\ MainTypeOK
  BY DEF SvcInv, SvcTypes
<1>0. ASSUME UNCHANGED <<sigVars, monitored, vaultVars>> PROVE EnvTypeOK'
  BY <1>0, <1>a DEF EnvTypeOK, sigVars, vaultVars
<1>1. CASE Main \/ Watch \/ Timeout \/ StopperStep
  BY <1>0, <1>1 DEF Main, MakeScheduler, AddConfigured, Install, ReloadSignal,
     ReloadRetire, HandlersDone, Timeout, ShutdownReturns, StopperStep,
     Watch, WatchLoad, WatchAdd
<1>2. CASE TakeHup \/ TakeTerm \/ SendTerm \/ SendHup
  BY <1>2, <1>a DEF TakeHup, TakeTerm, SendTerm, SendHup, vaultVars, EnvTypeOK
<1>3. CASE MonitorStart \/ MonitorTake
  BY <1>3, <1>a DEF MonitorStart, MonitorTake, sigVars, vaultVars, EnvTypeOK, MainTypeOK
<1>4. CASE Vault \/ VaultRecovers
  <2>0. MaxRotations \in Nat /\ data \in Data
    BY <1>a, Bounds DEF EnvTypeOK
  <2>1. data' = data \/ (data < MaxRotations /\ data' = data + 1)
    BY <1>4 DEF Vault, VaultRecovers
  <2>2. data' \in Data
    BY <2>0, <2>1 DEF Data
  <2> QED BY <2>2, <1>4, <1>a DEF Vault, VaultRecovers, sigVars, EnvTypeOK
<1>5. ASSUME NEW c \in Configs \cup {BadFile}, EditConfig(c) PROVE EnvTypeOK'
  BY <1>0, <1>5 DEF EditConfig
<1>6. ASSUME NEW j \in Jobs,
             \/ SyncSecret(j)
             \/ Idle(Tick(j)) \/ Idle(FirstSync(j))
             \/ Idle(TickSync(j)) \/ Idle(Exit(j))
      PROVE  EnvTypeOK'
  BY <1>0, <1>6 DEF SyncSecret, Fetch, FetchFails, WriteFile, Idle
<1> QED BY <1>1, <1>2, <1>3, <1>4, <1>5, <1>6 DEF SvcNext

\* The steps of a job: what it fetched and the file it writes.
LEMMA OutStep ==
    ASSUME SvcInv, SvcNext PROVE OutTypeOK' /\ FetchedSyncing'
<1>a. OutTypeOK /\ EnvTypeOK /\ FetchedSyncing /\ LiveHasSecret /\ TypeOK
  BY DEF SvcInv, SvcTypes, IndInv
<1>0. ASSUME UNCHANGED outVars,
             \A j \in Jobs : pc[j] = "syncing" /\ fetched[j] # NoData => pc'[j] = "syncing"
      PROVE  OutTypeOK' /\ FetchedSyncing'
  BY <1>0, <1>a DEF outVars, OutTypeOK, FetchedSyncing
<1>1. ASSUME NEW s, NEW n, NEW c, AddSecret(s, n, c)
      PROVE  \A j \in Jobs : pc[j] = "syncing" => pc'[j] = "syncing"
  <2>1. Free(FreeSlot)
    BY <1>1 DEF AddSecret, FreeSlot
  <2> QED BY <1>1, <2>1, <1>a DEF AddSecret, Free, TypeOK
<1>b. ASSUME UNCHANGED <<pc, outVars>> PROVE OutTypeOK' /\ FetchedSyncing'
  BY <1>0, <1>b
<1>c. ASSUME UNCHANGED outVars,
             NEW s, NewScheduler(s) \/ StopSignal(s) \/ StopRetire(s) \/ TakeResult(s)
      PROVE  OutTypeOK' /\ FetchedSyncing'
  BY <1>b, <1>c DEF NewScheduler, StopSignal, StopRetire, TakeResult
<1>2. CASE MakeScheduler \/ ReloadSignal \/ ReloadRetire \/ StopperStep \/ MonitorTake
  BY <1>c, <1>2 DEF MakeScheduler, ReloadSignal, ReloadRetire, StopperStep, MonitorTake
<1>3. ASSUME NEW n \in Names, AddConfigured(n) \/ WatchAdd(n)
      PROVE  OutTypeOK' /\ FetchedSyncing'
  BY <1>0, <1>1, <1>3 DEF AddConfigured, WatchAdd
<1>4. CASE Install \/ HandlersDone \/ Timeout \/ WatchLoad \/ TakeHup \/ TakeTerm
           \/ SendTerm \/ SendHup \/ MonitorStart \/ Vault \/ VaultRecovers
           \/ \E c \in Configs \cup {BadFile} : EditConfig(c)
  BY <1>b, <1>4 DEF Install, HandlersDone, Timeout, ShutdownReturns, WatchLoad, TakeHup, TakeTerm, SendTerm, SendHup, MonitorStart, Vault,
     VaultRecovers, EditConfig, vars
<1>5. ASSUME NEW j \in Jobs, Fetch(j) PROVE OutTypeOK' /\ FetchedSyncing'
  BY <1>5, <1>a DEF Fetch, vars, OutTypeOK, EnvTypeOK, FetchedSyncing
<1>6. ASSUME NEW j \in Jobs, FetchFails(j) PROVE OutTypeOK' /\ FetchedSyncing'
  BY <1>0, <1>6, <1>a DEF FetchFails, SyncAndReport, TypeOK
<1>7. ASSUME NEW j \in Jobs, WriteFile(j) PROVE OutTypeOK' /\ FetchedSyncing'
  <2>1. secret[j] \in Secret /\ fetched[j] \in Data
    BY <1>7, <1>a DEF WriteFile, SyncAndReport, LiveHasSecret, OutTypeOK
  <2>2. [cfg |-> secret[j].cfg, data |-> fetched[j]] \in Output
    BY <2>1 DEF Secret, Output
  <2>3. OutTypeOK'
    BY <2>1, <2>2, <1>7, <1>a DEF WriteFile, OutTypeOK
  <2>4. FetchedSyncing'
    BY <1>7, <1>a DEF WriteFile, SyncAndReport, FetchedSyncing, OutTypeOK, TypeOK
  <2> QED BY <2>3, <2>4
<1>8. ASSUME NEW j \in Jobs, Idle(Tick(j)) \/ Idle(FirstSync(j)) \/ Idle(TickSync(j))
      PROVE  OutTypeOK' /\ FetchedSyncing'
  BY <1>0, <1>8, <1>a DEF Idle, Tick, FirstSync, TickSync, TypeOK
<1>9. ASSUME NEW j \in Jobs, Idle(Exit(j)) PROVE OutTypeOK' /\ FetchedSyncing'
  BY <1>0, <1>9, <1>a DEF Idle, Exit, TypeOK
<1> QED BY <1>2, <1>3, <1>4, <1>5, <1>6, <1>7, <1>8, <1>9
        DEF SvcNext, Main, Watch, SyncSecret

\* main numbers the schedulers it makes, and only one goroutine stops the last.
LEMMA UseStep ==
    ASSUME SvcInv, SvcNext PROVE SchedulerUse'
<1>a. SchedulerUse /\ MainTypeOK /\ WatchTypeOK /\ main # "exited"
  BY DEF SvcInv, SvcTypes, SvcNext, Alive
<1>b. /\ \A s \in Schedulers : s \in Nat /\ s # 0
      /\ sched \in Nat
      /\ stopCh \in [Schedulers -> {"none", "open", "closing", "closed"}]
  BY <1>a, Bounds DEF MainTypeOK, SvcInv, IndInv, TypeOK
<1>0. ASSUME UNCHANGED <<stopCh, main, handling, sched, stopper, watcher>>
      PROVE  SchedulerUse'
  BY <1>0, <1>a DEF SchedulerUse
<1>1. CASE MakeScheduler
  <2>1. /\ sched + 1 \in Schedulers
        /\ sched' = sched + 1 /\ main' = "add" /\ main = "make"
        /\ stopCh' = [stopCh EXCEPT ![sched + 1] = "open"]
        /\ UNCHANGED <<handling, stopper, watcher>>
    BY <1>1 DEF MakeScheduler, NewScheduler, watchVars
  <2>2. stopCh'[sched'] = "open" /\ sched' # 0
    BY <2>1, <1>b
  <2>3. \A s \in Schedulers : s > sched' => stopCh'[s] = "none"
    BY <2>1, <1>a, <1>b DEF SchedulerUse
  <2> QED BY <2>1, <2>2, <2>3, <1>a DEF SchedulerUse
<1>2. ASSUME NEW n \in Names, AddConfigured(n) PROVE SchedulerUse'
  BY <1>2, <1>a DEF AddConfigured, AddSecret, watchVars, SchedulerUse
<1>3. CASE Install
  BY <1>3, <1>a, <1>b DEF Install, vars, SchedulerUse
<1>4. CASE TakeHup \/ TakeTerm \/ SendTerm \/ SendHup \/ HandlersDone \/ Timeout
  BY <1>4, <1>a DEF TakeHup, TakeTerm, SendTerm, SendHup, HandlersDone, Timeout,
     ShutdownReturns, vars, watchVars, SchedulerUse
<1>5. ASSUME sched # 0, StopSignal(sched) \/ StopRetire(sched)
      PROVE  \A s \in Schedulers : s > sched' /\ sched' = sched => stopCh'[s] = "none"
  BY <1>5, <1>a, <1>b DEF StopSignal, StopRetire, SchedulerUse
<1>6. CASE ReloadSignal \/ ReloadRetire
  BY <1>5, <1>6, <1>a DEF ReloadSignal, ReloadRetire, watchVars, SchedulerUse
<1>7. CASE StopperStep
  BY <1>5, <1>7, <1>a DEF StopperStep, watchVars, SchedulerUse
<1>8. CASE WatchLoad
  BY <1>8, <1>a DEF WatchLoad, vars, mainVars, watchVars, SchedulerUse
<1>9. ASSUME NEW n \in Names, WatchAdd(n) PROVE SchedulerUse'
  BY <1>9, <1>a DEF WatchAdd, AddSecret, mainVars, SchedulerUse
<1>10. CASE MonitorStart \/ MonitorTake \/ Vault \/ VaultRecovers
            \/ \E c \in Configs \cup {BadFile} : EditConfig(c)
  BY <1>0, <1>10 DEF MonitorStart, MonitorTake, TakeResult, Vault, VaultRecovers,
     EditConfig, vars, mainVars, watchVars
<1>11. ASSUME NEW j \in Jobs,
              \/ SyncSecret(j)
              \/ Idle(Tick(j)) \/ Idle(FirstSync(j))
              \/ Idle(TickSync(j)) \/ Idle(Exit(j))
       PROVE  SchedulerUse'
  BY <1>0, <1>11 DEF SyncSecret, Fetch, FetchFails, WriteFile, SyncAndReport,
     Idle, Tick, FirstSync, TickSync, Exit, vars, mainVars, watchVars
<1> QED BY <1>1, <1>2, <1>3, <1>4, <1>6, <1>7, <1>8, <1>9, <1>10, <1>11
        DEF SvcNext, Main, Watch

\* Without the watcher, jobs are added and retired by main and the shutdown
\* goroutine alone, in the scheduler main uses.
LEMMA OthersStep ==
    ASSUME SvcInv, SvcNext PROVE OthersEmpty'
<1> SUFFICES ASSUME ~WatchConfig
             PROVE  /\ watcher' = "off"
                    /\ \A s \in Schedulers, n \in Names :
                          (s # sched' \/ main' = "make") => jobs'[s][n] = NoJob
  BY DEF OthersEmpty
<1>a. /\ watcher = "off"
      /\ \A s \in Schedulers, n \in Names :
            (s # sched \/ main = "make") => jobs[s][n] = NoJob
      /\ MainTypeOK /\ SchedulerUse /\ main # "exited"
      /\ jobs \in [Schedulers -> [Names -> Jobs \cup {NoJob}]]
  BY DEF OthersEmpty, SvcInv, SvcTypes, IndInv, TypeOK, SvcNext, Alive
<1>0. ASSUME UNCHANGED <<jobs, sched, watcher>>, main' # "make"
      PROVE  /\ watcher' = "off"
             /\ \A s \in Schedulers, n \in Names :
                   (s # sched' \/ main' = "make") => jobs'[s][n] = NoJob
  BY <1>0, <1>a
<1>1. CASE MakeScheduler
  BY <1>1, <1>a DEF MakeScheduler, NewScheduler, watchVars
<1>2. ASSUME NEW n \in Names, AddConfigured(n) PROVE OthersEmpty'
  <2>1. /\ jobs' = [jobs EXCEPT ![sched][n] = FreeSlot]
        /\ UNCHANGED <<sched, watcher>> /\ main = "add" /\ main' # "make"
    BY <1>2 DEF AddConfigured, AddSecret, watchVars
  <2> QED BY <2>1, <1>a DEF OthersEmpty
<1>3. CASE Install
  BY <1>3, <1>a DEF Install, vars
<1>4. CASE TakeHup \/ TakeTerm \/ HandlersDone \/ Timeout \/ ReloadSignal
  BY <1>0, <1>4 DEF TakeHup, TakeTerm, HandlersDone, Timeout, ReloadSignal,
     StopSignal, ShutdownReturns, vars, watchVars
<1>5. CASE SendTerm \/ SendHup
  BY <1>5, <1>a DEF SendTerm, SendHup, vars, watchVars
<1>6. CASE ReloadRetire
  BY <1>6, <1>a DEF ReloadRetire, StopRetire, watchVars, SchedulerUse
<1>7. CASE StopperStep
  BY <1>7, <1>a DEF StopperStep, StopSignal, StopRetire, watchVars, SchedulerUse
<1>8. CASE Watch
  BY <1>8, <1>a DEF Watch, WatchLoad, WatchAdd
<1>9. ASSUME UNCHANGED <<jobs, sched, main, watcher>>
      PROVE  OthersEmpty'
  BY <1>9, <1>a DEF OthersEmpty
<1>10. CASE MonitorStart \/ MonitorTake \/ Vault \/ VaultRecovers
            \/ \E c \in Configs \cup {BadFile} : EditConfig(c)
  BY <1>9, <1>10 DEF MonitorStart, MonitorTake, TakeResult, Vault, VaultRecovers,
     EditConfig, vars, mainVars, watchVars, OthersEmpty
<1>11. ASSUME NEW j \in Jobs,
              \/ SyncSecret(j)
              \/ Idle(Tick(j)) \/ Idle(FirstSync(j))
              \/ Idle(TickSync(j)) \/ Idle(Exit(j))
       PROVE  OthersEmpty'
  BY <1>9, <1>11 DEF SyncSecret, Fetch, FetchFails, WriteFile, SyncAndReport,
     Idle, Tick, FirstSync, TickSync, Exit, vars, mainVars, watchVars
<1> QED BY <1>1, <1>2, <1>3, <1>4, <1>5, <1>6, <1>7, <1>8, <1>10, <1>11
        DEF SvcNext, Main, OthersEmpty

\* main adds the jobs of cfg to a scheduler that has none, one by one, and
\* nobody else adds or retires one until main leaves its loop.
LEMMA ServingStep ==
    ASSUME SvcInv, SvcNext PROVE ServingCfg'
<1>a. /\ ServingCfg /\ OthersEmpty /\ SchedulerUse /\ MainTypeOK
      /\ TypeOK /\ main # "exited"
  BY DEF SvcInv, SvcTypes, IndInv, SvcNext, Alive
<1>0. ASSUME UNCHANGED <<jobs, sched, cfg, todo>>,
             Running' => Running /\ (main = "add" => main' = "add"),
             \A k \in Jobs : pc'[k] # "ended" => pc[k] # "ended" /\ secret'[k] = secret[k]
      PROVE  ServingCfg'
  <2>1. SUFFICES ASSUME Running', ~WatchConfig
                 PROVE  /\ main # "add" => todo = {}
                        /\ \A n \in Names :
                             (jobs[sched][n] # NoJob /\ pc'[jobs[sched][n]] # "ended") =>
                                secret'[jobs[sched][n]].cfg = cfg
    BY <1>0, <1>a DEF ServingCfg
  <2>2. sched \in Schedulers
    BY <2>1, <1>0, <1>a DEF Running, SchedulerUse, MainTypeOK
  <2>3. \A n \in Names : jobs[sched][n] \in Jobs \cup {NoJob}
    BY <2>2, <1>a DEF TypeOK
  <2> QED BY <2>1, <2>3, <1>0, <1>a DEF ServingCfg
<1>b. ASSUME ~Running' PROVE ServingCfg'
  BY <1>b DEF ServingCfg
<1>c. ASSUME UNCHANGED <<jobs, secret, pc, main, sched, cfg, todo>> PROVE ServingCfg'
  BY <1>0, <1>c DEF Running
<1>1. CASE MakeScheduler
  <2>1. /\ main = "make" /\ main' = "add"
        /\ sched' \in Schedulers /\ todo' = SecretsOf[cfg']
        /\ jobs' = jobs
    BY <1>1 DEF MakeScheduler, NewScheduler
  <2>2. ~WatchConfig => \A n \in Names : jobs'[sched'][n] = NoJob
    BY <2>1, <1>a DEF OthersEmpty
  <2> QED BY <2>1, <2>2 DEF ServingCfg
<1>2. ASSUME NEW n \in Names, AddConfigured(n) PROVE ServingCfg'
  <2>1. FreeSlot \in Jobs /\ Free(FreeSlot)
    BY <1>2 DEF AddConfigured, AddSecret, FreeSlot
  <2>2. /\ main = "add" /\ n \in todo /\ sched' = sched /\ cfg' = cfg
        /\ todo' = todo \ {n}
        /\ main' # "add" => todo = {n}
        /\ jobs' = [jobs EXCEPT ![sched][n] = FreeSlot]
        /\ secret' = [secret EXCEPT ![FreeSlot] =
                        [sched |-> sched, name |-> n, cfg |-> cfg]]
        /\ pc' = [pc EXCEPT ![FreeSlot] = "spawned"]
    BY <1>2 DEF AddConfigured, AddSecret
  <2> DEFINE j == FreeSlot
  <2> HIDE DEF j
  <2>3. sched \in Schedulers /\ j # NoJob
    BY <2>1, <2>2, <1>a, SchedulerAssumption DEF SchedulerUse, MainTypeOK, j
  <2>4. \A m \in Names : /\ jobs'[sched][m] = IF m = n THEN j ELSE jobs[sched][m]
                         /\ jobs[sched][m] # j
    BY <2>1, <2>2, <2>3, <1>a DEF TypeOK, Free, Registered, j
  <2>5. SUFFICES ASSUME ~WatchConfig
                 PROVE  /\ main' # "add" => todo' = {}
                        /\ todo' \subseteq SecretsOf[cfg]
                        /\ \A m \in Names :
                             jobs'[sched][m] # NoJob <=> m \in SecretsOf[cfg] \ todo'
                        /\ \A m \in Names :
                             (jobs'[sched][m] # NoJob /\ pc'[jobs'[sched][m]] # "ended") =>
                                secret'[jobs'[sched][m]].cfg = cfg
    BY <2>2 DEF ServingCfg
  <2>6. /\ todo \subseteq SecretsOf[cfg]
        /\ \A m \in Names : jobs[sched][m] # NoJob <=> m \in SecretsOf[cfg] \ todo
        /\ \A m \in Names :
             (jobs[sched][m] # NoJob /\ pc[jobs[sched][m]] # "ended") =>
                secret[jobs[sched][m]].cfg = cfg
    BY <2>2, <2>5, <1>a DEF ServingCfg, Running
  <2>7. \A m \in Names :
             (jobs'[sched][m] # NoJob /\ pc'[jobs'[sched][m]] # "ended") =>
                secret'[jobs'[sched][m]].cfg = cfg
    <3>1. secret'[j].cfg = cfg
      BY <2>1, <2>2, <1>a DEF TypeOK, j
    <3>2. \A k \in Jobs : k # j => pc'[k] = pc[k] /\ secret'[k] = secret[k]
      BY <2>2, <1>a DEF TypeOK, j
    <3>3. \A m \in Names : jobs[sched][m] \in Jobs \cup {NoJob}
      BY <2>3, <1>a DEF TypeOK
    <3> QED BY <3>1, <3>2, <3>3, <2>4, <2>6
  <2> QED BY <2>2, <2>3, <2>4, <2>6, <2>7
<1>3. CASE Install
  BY <1>0, <1>3, <1>a DEF Install, vars, Running
<1>4. CASE TakeHup
  BY <1>b, <1>c, <1>4 DEF TakeHup, vars, Running
<1>5. CASE TakeTerm \/ HandlersDone \/ Timeout \/ ReloadSignal \/ ReloadRetire
  BY <1>b, <1>5 DEF TakeTerm, HandlersDone, Timeout, ShutdownReturns, ReloadSignal,
     ReloadRetire, Running
<1>6. CASE SendTerm \/ SendHup
  BY <1>b, <1>c, <1>6 DEF SendTerm, SendHup, vars, Running
<1>7. CASE StopperStep
  BY <1>b, <1>7, <1>a DEF StopperStep, SchedulerUse, Running
<1>8. CASE WatchLoad
  BY <1>c, <1>8 DEF WatchLoad, vars, mainVars
<1>9. ASSUME NEW n \in Names, WatchAdd(n) PROVE ServingCfg'
  BY <1>9, <1>a DEF WatchAdd, OthersEmpty, ServingCfg
<1>10. CASE MonitorStart \/ MonitorTake \/ Vault \/ VaultRecovers
            \/ \E c \in Configs \cup {BadFile} : EditConfig(c)
  BY <1>c, <1>10 DEF MonitorStart, MonitorTake, TakeResult, Vault, VaultRecovers,
     EditConfig, vars, mainVars
<1>11. ASSUME NEW j \in Jobs, SyncSecret(j)
       PROVE  ServingCfg'
  BY <1>0, <1>11, <1>a DEF SyncSecret, Fetch, FetchFails, WriteFile, SyncAndReport,
     TypeOK, vars, mainVars, Running
<1>12. ASSUME NEW j \in Jobs,
              \/ Idle(Tick(j)) \/ Idle(FirstSync(j))
              \/ Idle(TickSync(j)) \/ Idle(Exit(j))
       PROVE  ServingCfg'
  BY <1>0, <1>12, <1>a DEF Idle, Tick, FirstSync, TickSync, Exit, TypeOK,
     mainVars, Running
<1> QED BY <1>1, <1>2, <1>3, <1>4, <1>5, <1>6, <1>7, <1>8, <1>9, <1>10, <1>11, <1>12
        DEF SvcNext, Main, Watch

-----------------------------------------------------------------------------
\* The invariant of the service is inductive.
LEMMA SvcNextInv == SvcInv /\ [SvcNext]_svcVars => SvcInv'
<1> SUFFICES ASSUME SvcInv, [SvcNext]_svcVars PROVE SvcInv'
  OBVIOUS
<1>1. CASE SvcNext
  <2>1. IndInv'
    BY <1>1, SvcRefines, NextInv DEF SvcInv
  <2> QED BY <1>1, <2>1, TypesStep, EnvStep, OutStep, UseStep, OthersStep, ServingStep
          DEF SvcInv, SvcTypes
<1>2. CASE UNCHANGED svcVars
  <2>1. IndInv'
    BY <1>2, NextInv DEF SvcInv, svcVars
  <2>2. SvcTypes'
    BY <1>2 DEF SvcInv, SvcTypes, MainTypeOK, WatchTypeOK, EnvTypeOK, OutTypeOK,
       svcVars, mainVars, sigVars, diskVars, watchVars, vaultVars, outVars
  <2>3. SchedulerUse' /\ FetchedSyncing'
    BY <1>2 DEF SvcInv, SchedulerUse, FetchedSyncing, svcVars, vars, mainVars,
       watchVars, outVars
  <2>4. OthersEmpty' /\ ServingCfg'
    BY <1>2 DEF SvcInv, OthersEmpty, ServingCfg, Running, svcVars, vars, mainVars,
       watchVars
  <2> QED BY <2>1, <2>2, <2>3, <2>4 DEF SvcInv
<1> QED BY <1>1, <1>2

\* Every reachable state of the service satisfies the invariant.
THEOREM SvcInvariance == SvcSpec => []SvcInv
<1>1. SvcInit => SvcInv
  BY SvcInitInv
<1>2. SvcInv /\ [SvcNext]_svcVars => SvcInv'
  BY SvcNextInv
<1> QED BY <1>1, <1>2, PTL DEF SvcSpec

\* main, the watcher and the shutdown goroutine together use the schedulers as
\* Scheduler asks: every behaviour of the service is one of Scheduler, so no
\* scheduler is stopped twice and all that holds of Scheduler holds here.
THEOREM SvcImplementsScheduler == SvcSpec => SchedulerContract
<1>1. SvcInit => Init
  BY DEF SvcInit
<1>2. SvcInv /\ [SvcNext]_svcVars => [Next]_vars
  <2> SUFFICES ASSUME SvcInv, [SvcNext]_svcVars PROVE [Next]_vars
    OBVIOUS
  <2>1. CASE SvcNext
    BY <2>1, SvcRefines
  <2>2. CASE UNCHANGED svcVars
    BY <2>2 DEF svcVars
  <2> QED BY <2>1, <2>2
<1> QED BY <1>1, <1>2, SvcInvariance, PTL DEF SvcSpec, SchedulerContract, Spec

\* So no call of main, of the watcher or of the shutdown goroutine panics on a
\* closed channel (scheduler.go:44, 63, 72), none of them leaves a job out of
\* reach, and a job that a reload or the watcher replaced takes no more ticks.
THEOREM ServiceUsesSchedulerWell ==
    SvcSpec => [](NoDoubleClose /\ NoOrphanJob) /\ NoRepeatAfterStop
<1>1. Spec => NoRepeatAfterStop
  BY NeverRepeatAfterStop
<1>2. SvcSpec => Spec
  BY SvcImplementsScheduler DEF SchedulerContract
<1> QED BY <1>1, <1>2, NeverDoubleClose, NeverOrphanJob, PTL

\* The captured variables, the channels and the files of the service keep
\* their types, whatever signals, edits and outages come in between.
THEOREM SvcTypeCorrect == SvcSpec => []SvcTypeOK
<1>1. SvcInv => SvcTypeOK
  <2> SUFFICES ASSUME SvcInv PROVE SvcTypeOK
    OBVIOUS
  <2>1. TypeOK /\ MainTypeOK /\ WatchTypeOK /\ EnvTypeOK /\ OutTypeOK
    BY DEF SvcInv, SvcTypes, IndInv
  <2>2. {cfg, newCfg, wcfg} \subseteq Configs
    BY <2>1 DEF MainTypeOK, WatchTypeOK
  <2>3. {term, hup, event, watching, vaultUp} \subseteq BOOLEAN
    BY <2>1, Zenon DEF EnvTypeOK, WatchTypeOK
  <2> QED BY <2>1, <2>2, <2>3, Zenon
          DEF SvcTypeOK, MainTypeOK, WatchTypeOK, EnvTypeOK, OutTypeOK
<1> QED BY <1>1, SvcInvariance, PTL

\* Without the watcher, the scheduler main uses lists exactly the secrets of
\* the configuration main holds, and every job that was not told to stop, of
\* whatever scheduler, serves that configuration.
THEOREM AlwaysServesItsConfig == SvcSpec => []ServesItsConfig
<1>1. SvcInv => ServesItsConfig
  <2> SUFFICES ASSUME SvcInv, main = "serve", ~WatchConfig
               PROVE  /\ \A n \in Names : jobs[sched][n] # NoJob <=> n \in SecretsOf[cfg]
                      /\ \A j \in Jobs : (~quit[j] /\ pc[j] # "ended") =>
                            secret[j].sched = sched /\ secret[j].cfg = cfg
    BY DEF ServesItsConfig
  <2>1. /\ todo = {}
        /\ \A n \in Names : jobs[sched][n] # NoJob <=> n \in SecretsOf[cfg] \ todo
        /\ \A n \in Names :
             (jobs[sched][n] # NoJob /\ pc[jobs[sched][n]] # "ended") =>
                secret[jobs[sched][n]].cfg = cfg
    BY DEF SvcInv, ServingCfg, Running
  <2>2. ASSUME NEW j \in Jobs, ~quit[j], pc[j] # "ended"
        PROVE  secret[j].sched = sched /\ secret[j].cfg = cfg
    <3>1. jobs[secret[j].sched][secret[j].name] = j /\ secret[j] \in Secret
      BY <2>2 DEF SvcInv, IndInv, NoOrphanJob, LiveHasSecret
    <3>2. secret[j].sched \in Schedulers /\ secret[j].name \in Names /\ j # NoJob
      BY <3>1, SchedulerAssumption DEF Secret
    <3>3. secret[j].sched = sched
      BY <3>1, <3>2 DEF SvcInv, OthersEmpty
    <3> QED BY <3>1, <3>2, <3>3, <2>1, <2>2
  <2> QED BY <2>1, <2>2
<1> QED BY <1>1, SvcInvariance, PTL
=============================================================================
