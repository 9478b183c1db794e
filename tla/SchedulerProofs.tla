--------------------------- MODULE SchedulerProofs ---------------------------
(***************************************************************************)
(* Theorems about Scheduler for every set of schedulers, names, configs    *)
(* and jobs and every capacity of the results channel.                     *)
(***************************************************************************)
EXTENDS Scheduler, TLAPS

\* A registry entry is a job that can still be told to stop, and a job that
\* runs serves the name it is registered under.
RegistrySound ==
    \A s \in Schedulers, n \in Names :
       jobs[s][n] # NoJob =>
          /\ ~quit[jobs[s][n]]
          /\ pc[jobs[s][n]] # "ended" =>
                /\ secret[jobs[s][n]].sched = s
                /\ secret[jobs[s][n]].name = n

\* No job is registered in two places.
RegisteredOnce ==
    \A s, t \in Schedulers, n, m \in Names :
       (jobs[s][n] # NoJob /\ jobs[s][n] = jobs[t][m]) => s = t /\ n = m

\* A goroutine that has not returned knows what it serves.
LiveHasSecret == \A j \in Jobs : pc[j] # "ended" => secret[j] \in Secret

\* The stop channel of a job is closed only together with its ticker.
QuitTickerStopped == \A j \in Jobs : quit[j] => ticker[j] = "stopped"

IndInv ==
    /\ TypeOK
    /\ RegistrySound
    /\ RegisteredOnce
    /\ LiveHasSecret
    /\ QuitTickerStopped
    /\ NoOrphanJob
    /\ NoDoubleClose

-----------------------------------------------------------------------------
\* Retiring a set of jobs of the registry closes no channel twice: every
\* registered job has its stop channel open.
LEMMA RegisteredOpen ==
    ASSUME RegistrySound, NEW s \in Schedulers, NEW ns \in SUBSET Names,
           NEW j \in JobsAt(s, ns)
    PROVE  ~quit[j]
BY DEF RegistrySound, JobsAt

\* The initial state of the scheduler satisfies the inductive invariant.
LEMMA InitInv == Init => IndInv
<1> SUFFICES ASSUME Init PROVE IndInv
  OBVIOUS
<1>1. TypeOK
  <2>1. <<>> \in Seq(SyncResult)
    OBVIOUS
  <2> QED BY <2>1 DEF Init, TypeOK
<1>2. RegistrySound /\ RegisteredOnce
  BY DEF Init, RegistrySound, RegisteredOnce
<1>3. LiveHasSecret /\ QuitTickerStopped /\ NoOrphanJob /\ NoDoubleClose
  BY DEF Init, LiveHasSecret, QuitTickerStopped, NoOrphanJob, NoDoubleClose
<1> QED BY <1>1, <1>2, <1>3 DEF IndInv

\* Creating a scheduler disturbs no job and no registry.
LEMMA NewSchedulerInv ==
    ASSUME IndInv, NEW s \in Schedulers, NewScheduler(s)
    PROVE  IndInv'
BY DEF NewScheduler, IndInv, TypeOK, RegistrySound, RegisteredOnce,
       LiveHasSecret, QuitTickerStopped, NoOrphanJob, NoDoubleClose, Registered

\* AddSecret retires the job that had the name and registers a free one.
LEMMA AddSecretInv ==
    ASSUME IndInv, NEW s \in Schedulers, NEW n \in Names, NEW c \in Configs,
           AddSecret(s, n, c)
    PROVE  IndInv'
<1> DEFINE old == JobsAt(s, {n})
<1> DEFINE j == FreeSlot
<1>0. j \in Jobs /\ Free(j)
  BY DEF AddSecret, FreeSlot
<1>1. /\ panicked' = \E o \in old : quit[o]
      /\ quit' = [k \in Jobs |-> k # j /\ (quit[k] \/ k \in old)]
      /\ ticker' = [k \in Jobs |-> IF k = j THEN "running"
                                   ELSE IF k \in old THEN "stopped"
                                   ELSE ticker[k]]
      /\ jobs' = [jobs EXCEPT ![s][n] = j]
      /\ secret' = [secret EXCEPT ![j] = [sched |-> s, name |-> n, cfg |-> c]]
      /\ pc' = [pc EXCEPT ![j] = "spawned"]
  BY DEF AddSecret
<1> HIDE DEF j, old
<1>2. UNCHANGED <<stopCh, results>>
  BY DEF AddSecret
<1>3. old = {jobs[s][n]} \ {NoJob}
  BY DEF JobsAt, old
<1>4. j # NoJob
  BY <1>0, SchedulerAssumption
<1>5. \A t \in Schedulers, m \in Names :
        jobs'[t][m] = IF t = s /\ m = n THEN j ELSE jobs[t][m]
  BY <1>0, <1>1 DEF IndInv, TypeOK
<1>6. \A t \in Schedulers, m \in Names : jobs[t][m] # j
  BY <1>0, <1>1 DEF Free, Registered
<1>7. [sched |-> s, name |-> n, cfg |-> c] \in Secret
  BY DEF Secret
<1>8. \A t \in Schedulers, m \in Names :
        (jobs[t][m] \in old) => (t = s /\ m = n)
  BY <1>3 DEF IndInv, RegisteredOnce
<1>9. TypeOK'
  BY <1>0, <1>1, <1>2, <1>7 DEF IndInv, TypeOK
<1>10. RegistrySound'
  <2> SUFFICES ASSUME NEW t \in Schedulers, NEW m \in Names, jobs'[t][m] # NoJob
               PROVE  /\ ~quit'[jobs'[t][m]]
                      /\ pc'[jobs'[t][m]] # "ended" =>
                            /\ secret'[jobs'[t][m]].sched = t
                            /\ secret'[jobs'[t][m]].name = m
    BY DEF RegistrySound
  <2>1. CASE t = s /\ m = n
    BY <2>1, <1>0, <1>1, <1>5 DEF IndInv, TypeOK
  <2>2. CASE ~(t = s /\ m = n)
    <3>1. jobs'[t][m] = jobs[t][m] /\ jobs[t][m] \in Jobs /\ jobs[t][m] # j
      BY <2>2, <1>5, <1>6 DEF IndInv, TypeOK
    <3>2. jobs[t][m] \notin old
      BY <2>2, <1>8
    <3>3. quit'[jobs[t][m]] = quit[jobs[t][m]]
      BY <3>1, <3>2, <1>0, <1>1 DEF IndInv, TypeOK
    <3>4. pc'[jobs[t][m]] = pc[jobs[t][m]] /\ secret'[jobs[t][m]] = secret[jobs[t][m]]
      BY <3>1, <1>0, <1>1 DEF IndInv, TypeOK
    <3> QED BY <3>1, <3>3, <3>4 DEF IndInv, RegistrySound
  <2> QED BY <2>1, <2>2
<1>11. RegisteredOnce'
  BY <1>5, <1>6 DEF IndInv, RegisteredOnce
<1>12. LiveHasSecret'
  BY <1>0, <1>1, <1>7 DEF IndInv, TypeOK, LiveHasSecret
<1>13. QuitTickerStopped'
  BY <1>0, <1>1 DEF IndInv, TypeOK, QuitTickerStopped
<1>14. NoOrphanJob'
  <2> SUFFICES ASSUME NEW k \in Jobs, ~quit'[k]
               PROVE  \/ /\ secret'[k] # NoSecret
                         /\ jobs'[secret'[k].sched][secret'[k].name] = k
                      \/ pc'[k] = "ended" /\ Registered(k)'
    BY DEF NoOrphanJob
  <2>1. CASE k = j
    <3>1. secret'[k] = [sched |-> s, name |-> n, cfg |-> c]
      BY <2>1, <1>0, <1>1 DEF IndInv, TypeOK
    <3>2. secret'[k] # NoSecret
      BY <3>1, <1>7, SchedulerAssumption DEF Secret
    <3>3. jobs'[s][n] = k
      BY <2>1, <1>5
    <3> QED BY <3>1, <3>2, <3>3
  <2>2. CASE k # j
    <3>1. ~quit[k] /\ k \notin old
      BY <2>2, <1>0, <1>1
    <3>2. k # jobs[s][n]
      BY <3>1, <1>3, SchedulerAssumption
    <3>3. secret'[k] = secret[k] /\ pc'[k] = pc[k]
      BY <2>2, <1>0, <1>1 DEF IndInv, TypeOK
    <3>4. CASE secret[k] # NoSecret /\ jobs[secret[k].sched][secret[k].name] = k
      <4>1. secret[k].sched \in Schedulers /\ secret[k].name \in Names
        BY <3>4 DEF IndInv, TypeOK, Secret
      <4> QED BY <4>1, <3>2, <3>3, <3>4, <1>5
    <3>5. CASE pc[k] = "ended" /\ Registered(k)
      BY <3>2, <3>3, <3>5, <1>5 DEF Registered
    <3> QED BY <3>1, <3>4, <3>5 DEF IndInv, NoOrphanJob
  <2> QED BY <2>1, <2>2
<1>15. NoDoubleClose'
  BY <1>0, <1>1, RegisteredOpen, <1>3 DEF IndInv, NoDoubleClose, RegistrySound
<1> QED BY <1>9, <1>10, <1>11, <1>12, <1>13, <1>14, <1>15 DEF IndInv

-----------------------------------------------------------------------------
\* Removing the jobs js = JobsAt(s, ns) of the registry of one scheduler,
\* which RemoveSecret does for one name and Stop for all of them.
LEMMA RetireInv ==
    ASSUME IndInv, NEW s \in Schedulers, NEW ns \in SUBSET Names,
           StopJobs(JobsAt(s, ns)),
           jobs' = [jobs EXCEPT ![s] = [n \in Names |->
                                          IF n \in ns THEN NoJob ELSE jobs[s][n]]],
           stopCh' \in [Schedulers -> {"none", "open", "closing", "closed"}],
           UNCHANGED <<secret, pc, results>>
    PROVE  IndInv'
<1> DEFINE old == JobsAt(s, ns)
<1>1. \A t \in Schedulers, m \in Names :
        jobs'[t][m] = IF t = s /\ m \in ns THEN NoJob ELSE jobs[t][m]
  BY DEF IndInv, TypeOK
<1>2. \A k \in Jobs : quit'[k] = (quit[k] \/ k \in old)
  BY DEF StopJobs
<1>3. \A t \in Schedulers, m \in Names :
        (jobs[t][m] \in old) => (t = s /\ m \in ns)
  BY DEF IndInv, RegisteredOnce, JobsAt
<1>4. TypeOK'
  BY DEF IndInv, TypeOK, StopJobs
<1>5. RegistrySound'
  <2> SUFFICES ASSUME NEW t \in Schedulers, NEW m \in Names, jobs'[t][m] # NoJob
               PROVE  /\ ~quit'[jobs'[t][m]]
                      /\ pc'[jobs'[t][m]] # "ended" =>
                            /\ secret'[jobs'[t][m]].sched = t
                            /\ secret'[jobs'[t][m]].name = m
    BY DEF RegistrySound
  <2>1. jobs'[t][m] = jobs[t][m] /\ ~(t = s /\ m \in ns) /\ jobs[t][m] \in Jobs
    BY <1>1 DEF IndInv, TypeOK
  <2>2. jobs[t][m] \notin old
    BY <2>1, <1>3
  <2>3. quit'[jobs[t][m]] = quit[jobs[t][m]] /\ pc' = pc /\ secret' = secret
    BY <2>1, <2>2, <1>2 DEF IndInv, TypeOK
  <2>4. jobs[t][m] # NoJob
    BY <2>1
  <2> QED BY <2>1, <2>3, <2>4 DEF IndInv, RegistrySound
<1>6. RegisteredOnce'
  BY <1>1 DEF IndInv, RegisteredOnce
<1>7. LiveHasSecret'
  BY DEF IndInv, LiveHasSecret
<1>8. QuitTickerStopped'
  BY <1>2 DEF IndInv, TypeOK, StopJobs, QuitTickerStopped
<1>9. NoOrphanJob'
  <2> SUFFICES ASSUME NEW k \in Jobs, ~quit'[k]
               PROVE  \/ /\ secret[k] # NoSecret
                         /\ jobs'[secret[k].sched][secret[k].name] = k
                      \/ pc[k] = "ended" /\ Registered(k)'
    BY DEF NoOrphanJob
  <2>1. ~quit[k] /\ k \notin old
    BY <1>2
  <2>2. \A m \in ns : jobs[s][m] # k
    BY <2>1, SchedulerAssumption DEF JobsAt
  <2>3. CASE secret[k] # NoSecret /\ jobs[secret[k].sched][secret[k].name] = k
    <3>1. secret[k].sched \in Schedulers /\ secret[k].name \in Names
      BY <2>3 DEF IndInv, TypeOK, Secret
    <3> QED BY <3>1, <2>2, <2>3, <1>1
  <2>4. CASE pc[k] = "ended" /\ Registered(k)
    BY <2>2, <2>4, <1>1 DEF Registered
  <2> QED BY <2>1, <2>3, <2>4 DEF IndInv, NoOrphanJob
<1>10. NoDoubleClose'
  <2>1. \A k \in old : ~quit[k]
    BY RegisteredOpen DEF IndInv
  <2> QED BY <2>1 DEF NoDoubleClose, StopJobs
<1> QED BY <1>4, <1>5, <1>6, <1>7, <1>8, <1>9, <1>10 DEF IndInv

\* Removing a secret and the second half of Stop retire registered jobs.
LEMMA RemoveInv ==
    ASSUME IndInv, NEW s \in Schedulers
    PROVE  /\ \A n \in Names : RemoveSecret(s, n) => IndInv'
           /\ StopRetire(s) => IndInv'
<1>1. ASSUME NEW n \in Names, RemoveSecret(s, n) PROVE IndInv'
  <2>1. [jobs EXCEPT ![s][n] = NoJob]
           = [jobs EXCEPT ![s] = [m \in Names |->
                                    IF m \in {n} THEN NoJob ELSE jobs[s][m]]]
    BY DEF IndInv, TypeOK
  <2>2. stopCh' \in [Schedulers -> {"none", "open", "closing", "closed"}]
    BY <1>1 DEF RemoveSecret, IndInv, TypeOK
  <2> QED BY <1>1, <2>1, <2>2, RetireInv DEF RemoveSecret
<1>2. ASSUME StopRetire(s) PROVE IndInv'
  <2>1. [jobs EXCEPT ![s] = [n \in Names |-> NoJob]]
           = [jobs EXCEPT ![s] = [m \in Names |->
                                    IF m \in Names THEN NoJob ELSE jobs[s][m]]]
    OBVIOUS
  <2>2. stopCh' \in [Schedulers -> {"none", "open", "closing", "closed"}]
    BY <1>2 DEF StopRetire, IndInv, TypeOK
  <2> QED BY <1>2, <2>1, <2>2, RetireInv DEF StopRetire
<1> QED BY <1>1, <1>2

\* The first half of Stop closes a channel that no other Stop has closed.
LEMMA StopSignalInv ==
    ASSUME IndInv, NEW s \in Schedulers, ~Signalled(s), StopSignal(s)
    PROVE  IndInv'
<1>1. TypeOK'
  BY DEF StopSignal, IndInv, TypeOK, Signalled
<1>2. RegistrySound' /\ RegisteredOnce' /\ NoOrphanJob'
  BY DEF StopSignal, IndInv, RegistrySound, RegisteredOnce, NoOrphanJob, Registered
<1>3. LiveHasSecret' /\ QuitTickerStopped' /\ NoDoubleClose'
  BY DEF StopSignal, IndInv, LiveHasSecret, QuitTickerStopped, NoDoubleClose
<1> QED BY <1>1, <1>2, <1>3 DEF IndInv

\* The goroutine of a job moves between the points of runJob.
LEMMA RunInv ==
    ASSUME IndInv, NEW j \in Jobs, Run(j)
    PROVE  IndInv'
<1>1. CASE Tick(j)
  BY <1>1 DEF Tick, IndInv, TypeOK, RegistrySound, RegisteredOnce, LiveHasSecret,
       QuitTickerStopped, NoOrphanJob, NoDoubleClose, Registered
<1>2. CASE FirstSync(j)
  BY <1>2 DEF FirstSync, IndInv, TypeOK, RegistrySound, RegisteredOnce, LiveHasSecret,
       QuitTickerStopped, NoOrphanJob, NoDoubleClose, Registered
<1>3. CASE TickSync(j)
  BY <1>3 DEF TickSync, IndInv, TypeOK, RegistrySound, RegisteredOnce, LiveHasSecret,
       QuitTickerStopped, NoOrphanJob, NoDoubleClose, Registered
<1>4. ASSUME NEW ok \in BOOLEAN, SyncAndReport(j, ok) PROVE IndInv'
  <2> DEFINE s == secret[j].sched
             r == [name |-> secret[j].name, ok |-> ok]
  <2>1. s \in Schedulers /\ r \in SyncResult
    BY <1>4 DEF SyncAndReport, IndInv, LiveHasSecret, Secret, SyncResult
  <2>2. results[s] \in Seq(SyncResult)
    BY <2>1 DEF IndInv, TypeOK
  <2>3. Append(results[s], r) \in Seq(SyncResult)
    BY <2>1, <2>2
  <2>4. results' \in [Schedulers -> Seq(SyncResult)]
    BY <1>4, <2>1, <2>3 DEF SyncAndReport, IndInv, TypeOK
  <2>5. TypeOK'
    BY <1>4, <2>4 DEF SyncAndReport, IndInv, TypeOK
  <2>6. RegistrySound' /\ RegisteredOnce' /\ LiveHasSecret' /\ NoOrphanJob'
    BY <1>4 DEF SyncAndReport, IndInv, TypeOK, RegistrySound, RegisteredOnce,
                LiveHasSecret, NoOrphanJob, Registered
  <2>7. QuitTickerStopped' /\ NoDoubleClose'
    BY <1>4 DEF SyncAndReport, IndInv, QuitTickerStopped, NoDoubleClose
  <2> QED BY <2>5, <2>6, <2>7 DEF IndInv
<1>5. CASE Exit(j)
  <2>1. TypeOK' /\ RegistrySound' /\ RegisteredOnce' /\ LiveHasSecret'
    BY <1>5 DEF Exit, IndInv, TypeOK, RegistrySound, RegisteredOnce, LiveHasSecret
  <2>2. QuitTickerStopped' /\ NoDoubleClose'
    BY <1>5 DEF Exit, IndInv, QuitTickerStopped, NoDoubleClose
  <2>3. NoOrphanJob'
    <3> SUFFICES ASSUME NEW k \in Jobs, ~quit[k]
                 PROVE  \/ /\ secret'[k] # NoSecret
                           /\ jobs[secret'[k].sched][secret'[k].name] = k
                        \/ pc'[k] = "ended" /\ Registered(k)
      BY <1>5 DEF Exit, NoOrphanJob, Registered
    <3>1. CASE k = j
      <4>1. secret[k] \in Secret /\ jobs[secret[k].sched][secret[k].name] = k
        BY <1>5, <3>1 DEF Exit, IndInv, LiveHasSecret, NoOrphanJob
      <4>2. Registered(k)
        BY <4>1 DEF Registered, Secret
      <4> QED BY <1>5, <3>1, <4>2 DEF Exit, IndInv, TypeOK
    <3>2. CASE k # j
      BY <1>5, <3>2 DEF Exit, IndInv, TypeOK, NoOrphanJob
    <3> QED BY <3>1, <3>2
  <2> QED BY <2>1, <2>2, <2>3 DEF IndInv
<1> QED BY <1>1, <1>2, <1>3, <1>4, <1>5 DEF Run

\* The reader of the results touches nothing but the channel.
LEMMA TakeResultInv ==
    ASSUME IndInv, NEW s \in Schedulers, TakeResult(s)
    PROVE  IndInv'
<1>1. results[s] \in Seq(SyncResult) /\ results[s] # <<>>
  BY DEF IndInv, TypeOK, TakeResult
<1>2. Tail(results[s]) \in Seq(SyncResult)
  BY <1>1
<1>3. TypeOK'
  BY <1>2 DEF TakeResult, IndInv, TypeOK
<1>4. RegistrySound' /\ RegisteredOnce' /\ NoOrphanJob'
  BY DEF TakeResult, IndInv, RegistrySound, RegisteredOnce, NoOrphanJob, Registered
<1>5. LiveHasSecret' /\ QuitTickerStopped' /\ NoDoubleClose'
  BY DEF TakeResult, IndInv, LiveHasSecret, QuitTickerStopped, NoDoubleClose
<1> QED BY <1>3, <1>4, <1>5 DEF IndInv

-----------------------------------------------------------------------------
\* The invariant is inductive: every call and every step of a job keeps it.
LEMMA NextInv == IndInv /\ [Next]_vars => IndInv'
<1> SUFFICES ASSUME IndInv, [Next]_vars PROVE IndInv'
  OBVIOUS
<1>1. CASE Call
  BY <1>1, NewSchedulerInv, AddSecretInv, RemoveInv, StopSignalInv, TakeResultInv
     DEF Call
<1>2. CASE \E j \in Jobs : Run(j)
  BY <1>2, RunInv
<1>3. CASE UNCHANGED vars
  BY <1>3 DEF vars, IndInv, TypeOK, RegistrySound, RegisteredOnce, LiveHasSecret,
       QuitTickerStopped, NoOrphanJob, NoDoubleClose, Registered
<1> QED BY <1>1, <1>2, <1>3 DEF Next

\* Every reachable state of the scheduler satisfies the inductive invariant.
THEOREM Invariance == Spec => []IndInv
<1>1. Init => IndInv
  BY InitInv
<1>2. IndInv /\ [Next]_vars => IndInv'
  BY NextInv
<1> QED BY <1>1, <1>2, PTL DEF Spec

\* Type correctness of the scheduler's state, results channel included.
THEOREM TypeCorrect == Spec => []TypeOK
<1>1. IndInv => TypeOK
  BY DEF IndInv
<1> QED BY <1>1, Invariance, PTL

\* No call to AddSecret, RemoveSecret or Stop closes a channel that another
\* one has closed, so none of them panics.
THEOREM NeverDoubleClose == Spec => []NoDoubleClose
<1>1. IndInv => NoDoubleClose
  BY DEF IndInv
<1> QED BY <1>1, Invariance, PTL

\* The jobs that can still run are exactly within reach of the registry.
THEOREM NeverOrphanJob == Spec => []NoOrphanJob
<1>1. IndInv => NoOrphanJob
  BY DEF IndInv
<1> QED BY <1>1, Invariance, PTL

\* A removed or replaced job never takes another tick.
THEOREM NeverRepeatAfterStop == Spec => NoRepeatAfterStop
<1>1. ASSUME IndInv, [Next]_vars
      PROVE  [\A j \in Jobs :
                (pc[j] = "select" /\ pc'[j] = "syncing") => ~quit[j]]_vars
  <2> SUFFICES ASSUME Next, NEW j \in Jobs, pc[j] = "select", pc'[j] = "syncing"
               PROVE  ~quit[j]
    BY <1>1
  <2>1. ASSUME Call PROVE FALSE
    <3>1. CASE \E s \in Schedulers, n \in Names, c \in Configs : AddSecret(s, n, c)
      BY <3>1, <1>1 DEF AddSecret, FreeSlot, IndInv, TypeOK
    <3>2. CASE pc' = pc
      BY <3>2
    <3> QED
      BY <2>1, <3>1, <3>2 DEF Call, NewScheduler, RemoveSecret, StopSignal,
                              StopRetire, TakeResult
  <2>2. PICK k \in Jobs : Run(k)
    BY <2>1 DEF Next
  <2>3. k = j /\ TickSync(j)
    BY <2>2, <1>1 DEF Run, Tick, FirstSync, TickSync, SyncAndReport, Exit,
                      IndInv, TypeOK
  <2> QED BY <2>3, <1>1 DEF TickSync, IndInv, QuitTickerStopped
<1> QED BY <1>1, Invariance, PTL DEF Spec, NoRepeatAfterStop
=============================================================================
