# A TLA+ model of secrets-sync

secrets-sync reads secrets from Vault or OpenBao at intervals, renders them with
templates and writes them to files. It is a single process of cooperating
goroutines with no state of its own but the files it writes. Around it stand a
command that converts Kubernetes manifests into its configuration, and a shell
script that signals an application when a file has changed. This directory models
the parts whose correctness depends on the order in which these, the operator,
Vault and crashes take their steps, and the rules the configuration goes through.
The modules are checked with TLC on small instances; the theorems are proved with
TLAPS for all values of the constants.

Paths below are relative to the repository. Line numbers are in `PROJECT.json`,
which maps every definition to the lines it stands for.

## 1. The system

### Components

| Component | Source | State | Operations | Model |
|---|---|---|---|---|
| Scheduler | `internal/syncer/scheduler.go` | registry of jobs by name, a stop channel for all, one per job, a ticker per job, the bounded results channel | `NewScheduler`, `AddSecret`, `RemoveSecret`, `Stop`, `runJob`, `syncAndReport`, `Results` | `Scheduler` |
| Service loop | `cmd/secrets-sync/main.go`, `run` | the captured variables `cfg` and `scheduler`, which the watcher's callback, the shutdown handler and the client factory see change | start, SIGHUP reload, SIGTERM shutdown, monitor of results | `SyncService`; the monitor's effect in `SecretFiles` |
| Config watcher | `internal/config/watcher.go` | the watched inode, pending events | wait for a write event, load, call back | `SyncService` |
| Shutdown handler | `internal/shutdown/handler.go` | two signal channels of one slot, the handlers, `done` | `WaitForReload`, `Shutdown` with its timeout | signals in `SyncService`, handlers in `Renewal` |
| Secret syncer | `internal/syncer/syncer.go` | the client pool | `SyncSecret`: client, fetch, render, write each file | client and fetch in `ClientPool`, files in `SecretFiles`, a whole sync as two steps in `SyncService` |
| Vault clients | `internal/vault/{client,fetcher,retry}.go`, factory in `main.go` | token, namespace and credentials of a client | login, `FetchSecretWithRetry`, `SetNamespace` | `ClientPool` |
| Token renewal | `internal/vault/auth.go` | the lifetime watcher in a captured variable, the channel `stopped` | `StartRenewal`, re-authentication, the stop function | `Renewal` |
| Circuit breaker | `internal/vault/breaker.go`, callback in `main.go` | state and counts of gobreaker | `executeWithBreaker`, the state change callback | `Breaker` |
| File writer, cleanup | `internal/filewriter/{writer,cleanup}.go` | output files and temporary files on disk | `WriteFile`, `CleanupOrphanedTempFiles`, `ParseMode`, `ParseOwner` | `FileWriter`, `AtomicFile`; the two parsers in `Configuration` |
| Health | `internal/health/{server,status}.go` | the ready flag, the status file | `SetReady`, `CheckReadiness` | `SecretFiles`; not the HTTP server |
| Configuration | `internal/config/{types,loader,validator,env}.go` | none | `Load`, `ExpandEnvVars`, `Validate` | `Configuration`, applied in `Converter` |
| Convert command | `cmd/secrets-sync/convert.go` | none but its command line | `runConvert` and what it calls | `Converter` |
| Reload sidecar | `reload-sidecar/reload-sidecar.sh` | the time of the last reload, the pipe of events | wait for the process, debounce, signal | `ReloadSidecar` |
| Logging, metrics, tracing, other tools | `internal/{logger,metrics,tracing}`, `init.go`, `help.go`, ... | none that matters | output | not modelled |

### How they interact

`run` loads the configuration, connects to Vault with a *default client*, starts
the renewal of that client's token, creates a `SecretSyncer` with an empty client
pool and a first `Scheduler`, and adds a job per secret. It then starts the
monitor goroutine, the watcher (if `WATCH_CONFIG` is set) and the signal handlers,
removes temporary files of earlier runs, and serves signals for ever.

A job is a goroutine: it syncs at once, then on every tick of its ticker, until a
stop channel is closed. A sync takes a client from the pool (making one on a
miss), sets the namespace on that shared client, reads through the client's
breaker, renders, and writes each file by a rename. The result goes to the
scheduler's results channel, or is dropped when that is full. The monitor takes
results and makes the service ready at a success; the container's probe (`isready`)
looks for the status file.

SIGHUP makes `run` load the file, stop the scheduler, and build a new one. The
watcher's callback adds the secrets of the new file to *whatever scheduler the
captured variable holds at the time of each call*. SIGTERM makes a goroutine run
the handlers, among which are the stop of the renewal and that of the scheduler,
while `run` waits for it at most 30 seconds.

The convert command prints a configuration that an operator completes; `Load`
reads it at start, at a SIGHUP and in the watcher. The sidecar watches the
directory of the output files and signals the application.

### What is hard

- **Concurrency.** `AddSecret`, `RemoveSecret` and `Stop` are called by three
  goroutines; `Stop` closes a channel before it takes the lock. Closing a channel
  twice is a panic. `cfg`, `scheduler`, the pool, the namespace of a client and the
  renewal's watcher are shared without a lock. The breaker calls back, and the
  callback makes a request, with the breaker's mutex held.
- **Ordering.** `select` picks any ready case. A job of an old configuration may be
  in flight during a reload and write after its successor. The monitor keeps the
  channel of the first scheduler. Requests of an earlier generation of the breaker
  are answered in a later one.
- **Delivery.** A signal finds one slot or the default action; write events belong
  to an inode, which a rename replaces; the sidecar drops events it takes for
  repetitions.
- **Failure.** Vault fails, tokens expire, logins fail, writes fail halfway, one
  file of several fails, the process dies between two system calls and starts again
  over the same disk.
- **Bounds.** The results channel, the retries of a fetch, the signal slots, the
  half-open breaker's probes.
- **Rules.** Paths are compared before they are normalised; templates are not
  compared with files; the same file is read under different rules at three places.

`PROJECT.json` lists each hazard at the line where it bites, with the properties
that cover it or the reason why none does.

### What makes each component correct

- *Scheduler*: no channel is closed twice; no job gets out of reach of the
  registry; a stopped job takes no further tick and ends; a job that nobody stops
  keeps syncing, read or unread.
- *Service*: each scheduler is stopped once; after a reload exactly the secrets of
  the configuration are served, by jobs of that configuration; reloads and shutdown
  take effect; files converge.
- *Syncer and health*: a success stands for all files of the secret; ready stands for
  files this run has written, and so does what the probe says if it can see the status
  file.
- *Clients*: a client is used with its own credentials; namespaces do not leak to
  other credential sets; logins come to an end.
- *Breaker*: its counts are those of its generation; nobody waits for ever; it
  recovers.
- *Renewal and shutdown*: an expired token is replaced while that can be done; the
  stop leaves nothing behind; every handler runs and the exit says what failed.
- *File writer*: readers see the old content or the new, whatever fails; what a crash
  left behind is cleaned up where it can be.
- *Configuration, convert*: no two files of one path; what convert prints and the
  service accepts can be written.
- *Sidecar*: the application comes to use the last version.

## 2. Modules

```
AtomicFile    <-- refined by -- FileWriter     <- FileWriterProofs,  MCFileWriter
Scheduler     <-- extended by -- SyncService   <- MCSyncService
    ^------- SchedulerProofs <-- extended by -- SyncServiceProofs
    ^------- MCScheduler
SecretFiles   (WriteFile as one step)          <- SecretFilesProofs, MCSecretFiles
ClientPool                                     <- ClientPoolProofs,  MCClientPool
Breaker                                        <- BreakerProofs,     MCBreaker
Renewal                                        <- RenewalProofs,     MCRenewal
Configuration <-- extended by -- Converter     <- ConverterProofs,   MCConverter
ReloadSidecar                                  <- MCReloadSidecar
```

**`Scheduler`** models `scheduler.go` for a set of schedulers and their concurrent
callers. `jobs` is the registry; a job's slot holds what it captured (`secret`),
whether its stop channel is closed (`quit`), its `ticker` and where `runJob` is
(`pc`). `Stop` is two actions, `StopSignal` (close the shared channel, no lock) and
`StopRetire` (under the lock), because other calls may get in between; the other
calls hold the lock throughout and are one action each. `TickSync` and `Exit` are
the cases of the `select`; both may be enabled. Since Go 1.23, to which `go.mod`
commits, a stopped ticker delivers no tick, so `ticker.Stop()` before the `close`
is what keeps a removed job from syncing again. A double close sets `panicked`,
after which nothing happens. A job's slot is used again when its goroutine has
ended and no registry mentions it.

**`SyncService`** extends `Scheduler` with `run`, the monitor, the watcher, the
shutdown goroutine, the body of a sync (fetch, then write), and the environment:
the operator (edits in place or by a rename, SIGHUP, SIGTERM) and Vault (rotation
of the secret, outages). `main` is the program counter of `run`. A reload is
`TakeHup`, `ReloadSignal`, `ReloadRetire`, `MakeScheduler`, and one
`AddConfigured` per secret: everything else may happen in between. The watcher is
`WatchLoad` and one `WatchAdd` per secret and reads `sched`, the captured variable,
at each `WatchAdd`. A rejected file (`BadFile`) is what `Load` and `Validate`
refuse. Signals are one-slot flags; before `Install` they end the process.

**`SecretFiles`** takes one secret and opens what `SyncService` closes: `SyncSecret`
from the fetch to the last file. `Fetch` stands for the read and the rendering of
all templates, each `Write` for one turn of the loop over the files, `WriteFails`
for a failed write and for a file without a template (`Maps` is `fileToTemplate`).
`Replace` is what the watcher and a reload have in common: the job is told to stop
and another one begins, in the same scheduler or in a new one. The monitor
(`MonitorStart`, `MonitorTake`) makes the service ready and `SetReady` makes or
removes the status file. `Restart` is a crash: output files and the status file
stay. `Stat` is what `os.Stat` may answer the probe: the file, that there is none, or
another error, which `CheckReadiness` takes for ready as `status.go:10` does. That
`WriteFile` is one step is what `FileWriter` shows.

**`ClientPool`** models `getOrCreateClient`, the factory and `FetchSecretWithRetry`
for a set of syncers (the job goroutines of all schedulers of a process). The
pool is a plain map: `StoreBegins` and `StoreEnds` are the two ends of a write, and
`Fatal` is the runtime ending the process when a map operation begins in between;
that it goes through is the other outcome. `SetNamespace` and `ReadOk` are two
actions because nothing makes them one. `FetchFails` is any failure of an attempt,
also one the breaker refuses before the namespace is set. `Expire` and
`Reauthenticate` are the end of a token and the renewal goroutine, which knows the
default client only.

**`Breaker`** models one client's breaker and the goroutines that fetch through it.
The breaker is a library (gobreaker), modelled from the settings and calls of
`breaker.go`: `Look` is its glance at the clock, `Request` and `Refuse` the steps
before a request, `AnswerIgnored`, `AnswerCounted`, `Trip` and `Close` those after.
`fresh` marks the requests of the present generation. `Close` keeps the mutex until
`Recovered`: the callback in `main.go` asks Vault for its cluster meanwhile.
`AttemptFails` is the loop of `FetchSecretWithRetry`.

**`Renewal`** models the goroutine of `StartRenewal` (its `select` as `TakeDone` and
`TakeStopped`, the login, and `Replace`, the assignment of the new watcher), the
lifetime watchers (external), and `Shutdown`, which runs the registered handlers one
after the other; the stop of the renewal is the two steps `StopBegins` (close the
channel) and `StopEnds` (stop the watcher now in the variable).

**`FileWriter`** models `WriteFile` system call by system call (`Check`,
`CreateTmp`, `FillTmp`, `Chown`, `Rename`, `RenameFails`), the cleanup that runs
concurrently with the writers of its own run, and `Restart`, a crash at any point over
a disk that stays. The cleanup takes the directories of the configured files
(`Configured`: a restart may find another configuration) one by one. `Glob` lists one:
what matches the pattern, which for a name with metacharacters is in other
directories (`Matched`), or nothing, without an error, if it cannot be read; `GlobFails`
is the error that is logged and passed over. Then come one `RemoveMatch` per file and
`DirEnds`. `passed` are the directories the cleanup did not see, `spared` the files it
failed to remove. **`AtomicFile`** is
what `WriteFile` promises: a call either replaces the file with its content in one
step or leaves it alone. `FileWriter` implements it under the identity mapping of
`target` and `call` (`Atomic`).

**`Configuration`** holds `ExpandEnvVars`, `Validate` and `Load` as operators on
records of the shape of `types.go`. What only a parser sees is a tag: an address is
malformed or not, a TLS field names a file, a directory, nothing or what `os.Stat`
cannot tell, a template renders or fails, a path has a spelling. Modes are numbers and
`ValidMode` computes on their bits. **`Converter`** extends it with the convert command,
one action per file, per skipped document and per converted one (`out` are the entries
printed live with the documents they came from, `comments` counts those commented out),
and with the operator and the three places that load: `Start` (`Load`), `Reload`
(`Load`, then `Validate` again, as `main` does at a SIGHUP) and `WatchLoad` (`Load`).
`Validated` is what `Validate` makes of its argument in place; that the second call sees
other paths than the first is the point. `LoadEnds` is a `Load` that panics
(`LoadPanics`) and ends the service. convert prints the names of fields and keys as they
stand, so `Shape` says of each name what YAML and the template parser make of it: the
key of its line (or `NoKey`, for a line that is a comment), and whether `{{ .name }}`
and `{{ index . "name" }}` render, fail, or break the YAML around them; `Joined` is the
path `filepath.Join` makes. Both are constants: any function that assigns these outcomes
is allowed.

**`ReloadSidecar`** models the script, the writer whose three system calls each put a
line into its pipe, and the application. `quiet` is the debouncing.

The operators called *Mutant of ...* in a module are faulty variants of the
definition that follows them. No specification uses them; they serve to test that
each property can fail.

## 3. What is checked

Runs that pass:

| Run | Question | Instance | States |
|---|---|---|---|
| `scheduler` | Do concurrent calls keep the registry and channels sound, and do jobs live and end as they should? | 1 scheduler, 2 names, 3 jobs, results of 1 slot | 72,000 |
| `service` | Does a reload, also one during a reload, lead to the right jobs and files, and does SIGTERM end the process? | 1 secret, 2 configurations, 1 edit, 2 SIGHUPs, SIGTERM | 103,000 |
| `service_watch` | Do edits reach the jobs and Vault's changes the files while the watcher replaces jobs? | 1 secret, 2 edits (also by rename), 1 rotation, 1 outage | 101,000 |
| `secret_files` | What do a success, ready and the status file say about the files? | 2 descriptions of 2 files, one of which has no template; 2 versions, 2 jobs per run, 2 runs, 1 failure | 229,000 |
| `file` | Is `WriteFile` atomic and does the cleanup clean? | 2 writers of one file, each with its content, 2 directories that may be configured, read and listed or not, 2 temporary files, 1 crash | 186,000 |
| `client_pool` | Do racing syncers get right clients and namespaces and stop logging in? | 2 syncers with one credential set, 2 attempts, 2 expiries | 23,000 |
| `breaker` | Does the breaker count right, let every fetch end, and recover? | 2 goroutines, 2 probes, 3 errors, 2 attempts | 51,000 |
| `renewal` | Does renewal go on as long as it can, and does the shutdown stop it? | 3 logins, all sets of handlers, 1 that may fail | 4,300 |
| `config` | Is what a reload takes free of double paths, and what convert prints complete? | 4 command lines, 7 lists of manifests, 7 handwritten files, 14 names | 12,500 |
| `sidecar` | Does the application catch up in spite of the debouncing? | 2 rotations, a pipe of 4 lines, 2 ends of the script or the application | 7,200 |

- `TypeOK`, `SvcTypeOK`, `PoolTypeOK`, `SecretFilesTypeOK`, `BreakerTypeOK`: the type
  invariants.
- `NoDoubleClose`, `NoOrphanJob`, `NoRepeatAfterStop`: the registry against the
  channels and tickers of the jobs.
- `StoppedJobEnds`, `LiveJobSyncs`: also for a job added to a scheduler that was
  stopped, and with a full results channel.
- `ServesItsConfig`: registry, jobs and `cfg` agree whenever `run` waits for a
  signal (without the watcher; with it they do not, see the observations).
- `SchedulerContract`: a behaviour of the service is one of `Scheduler`, whose
  `Call` says that a scheduler is stopped at most once. This ties the composition
  to what is proved about `Scheduler`.
- `ReloadTakesEffect`: a SIGHUP that waits in its slot is served with the file as it
  is then, so a coalesced signal loses nothing.
- `FilesConverge`: once the environment rests, every file served has the content its
  registered job renders from the current secret, for good.
- `ShutdownCompletes`: a received SIGTERM ends the process.
- `WatchedChangeApplied`: without a SIGHUP, a change that raised an event comes to
  be served.
- `SuccessMeansWritten`, `ReadyMeansWritten`: no success and no readiness on part of
  the files, whatever failed. `LastVersionWins`: a replaced job that writes an older
  version over its successor's does not have the last word.
- `StatusFollows`: after the first result of a run `isready` says ready only if the run
  is, in spite of a status file left by an earlier run. The exceptions are in the
  statement: the removal of the file failed (`stuck`), or `Stat` fails with another
  error than that there is no file. `BecomesReady`: a run whose secret can be synced and
  that is not reloaded becomes ready.
- `CleanupComplete`: after the cleanup a temporary file of an earlier run is left only
  where its own removal failed or its own directory was not seen, so one failure does
  not keep the cleanup from the rest. `NeverPartial`, `CallReturns`, `Refinement`: see
  `FileWriter`; `Refinement` is `AtomicFile`'s specification.
- `RightCredentials`, `NamespaceOfSharers`, `LoginsCease`: see `ClientPool`.
- `CountsAgree`: the breaker's counts are those of its generation, and late answers
  change nothing. `FetchEnds`: although the callback makes a request under the mutex.
  `Recovers`: the breaker closes for good once requests succeed.
- `TokenLives`: an expired token is replaced, again and again, until a login fails or
  gives a token that cannot be renewed. `StopLeavesNone`: at most one watcher, and
  none after the stop unless it crossed a login. `ExitTellsAll`: every handler runs,
  and the result of `Shutdown` says whether one failed.
- `ReloadedDistinct`: two spellings of one path do not pass a SIGHUP. `ConvertedComplete`:
  no manifest with fields is lost, and each file of what convert prints and `Load`
  accepts has a template of its basename that renders, but for the names and templates
  that `BeyondConvert` lists; those are in the instance, so the statement without the
  exception is false. `ConvertEnds`: on anything but a syntax error.
- `AppCatchesUp`: the sync after a rotation may be missed by the application, not all
  that follow.

Runs that show where the code does not do what the repository says:

| Run | The repository | The code |
|---|---|---|
| `pooled_token` | `docs/development/ISSUE-TOKEN-RENEWAL.md:9`: tokens are renewed and re-authenticated | renewal concerns the default client; the jobs use other clients, whose tokens expire for good |
| `namespace_override` | `docs/configuration.md:158`: a secret's namespace overrides the global one | the namespace is set on a shared client and another secret may set its own before the read |

### Observations

Things met while modelling that no run is spent on, since one step shows them.

- A secret removed from the file goes on when the watcher applies the edit: the
  callback only adds (`cmd/secrets-sync/main.go:383`; `docs/configuration.md:346` says
  "Stop syncing removed secrets").
- A reload that loaded an older file replaces the jobs of a newer change the watcher
  applied (`main.go:501`), and a rename over the file ends the watch. The watcher
  uses `envCfg.ConfigFile`, `run` the path given by flag or environment.
- A SIGHUP before the first success leaves a service that never becomes ready: the
  monitor reads the first scheduler's results for ever (`main.go:341`; `README.md:304`
  says ready "when secrets synced"). `BecomesReady` therefore speaks of runs that are
  not reloaded.
- The client pool is a map that goroutines share without a lock (`syncer.go:51`;
  `docs/development/FINAL_REPORT.md:198` says "Thread-safe with proper locking"):
  `Fatal` of `ClientPool`.
- The cleanup of `*.tmp.*` files, meant for those "from previous runs"
  (`main.go:430`), runs after the jobs were started and removes files in use as well
  (`RemoveMatch`); `Refinement` shows that this does no harm to the output.
- A SIGHUP before the handlers are installed takes its default action and ends the
  process (`SendHup`). `Stop` does not wait for jobs in flight, so shutdown may cut a
  sync (`docs/development/ROADMAP.md:101` says otherwise); the file it was writing
  stays whole.
- `isready` says ready at every error of `os.Stat` but that the file does not exist
  (`status.go:10`), for example when it may not search the directory of the status file,
  whether or not there is one. `docs/troubleshooting.md:169` lists "Status file not
  writable" among the reasons for not being ready: a status file in a directory that
  the service may not use is one the probe then finds ready.
- The cleanup leaves temporary files, for good and mostly without a word, in a directory
  it cannot read, in one whose name has `[`, `*` or `?` (the pattern of `cleanup.go:24`
  then means other directories, whose temporary files it removes), and in one that is
  no longer configured.
- `Load` panics at `validator.go:90` when `os.Stat` of `tlsCAPath` fails otherwise than
  with a file that does not exist: at a SIGHUP or an edit that ends the running service
  (`LoadEnds`), where a rejected file leaves it alone.
- convert loops for ever on a syntax error, which the decoder reports again at each
  call (`convert.go:187`). It quotes names with a leading dot or a hyphen only, in
  `dataFrom` only: `{{ .tls.crt }}`, `{{ .2fa }}`, `{{ .a b }}` for fields and
  `{{ .api-key }}` for a property of `data` are accepted by `Validate`, and no sync can
  render them. A name `a/b` gets a file with the basename `b`, which has no template; one
  that begins with `#` makes its line a comment, and an apostrophe ends the quotes, so
  that the printed file is no YAML (`BeyondConvert`, `Accepted`).
- Two files of one path in two spellings pass at start and in the watcher, and the same
  file is refused at a SIGHUP (`main.go:482`). Two secrets of one name pass everywhere
  and the second replaces the first. A template that no file has the name of passes,
  and the secret then never syncs: the "Database credentials" example of
  `docs/configuration.md` is such a configuration.
- `validateMode` compares modes as numbers, so 0620 and 0570 pass. `${NAME}` in a named
  credential set is not expanded (`validator.go:306`). A template may name a field that
  the secret does not have: the file then holds `<no value>`.
- An empty namespace of a secret falls back to the global one or the last one set on
  the client, where `docs/configuration.md:167` says root.
- A stop of the renewal that crosses a login leaves the new watcher running until the
  process ends. A login whose token cannot be renewed ends the renewal silently.
- The sidecar signals at the first event of a write, before the rename, and the rename's
  own event falls to the debouncing: the application is one sync late.

### Bounds, and why they are enough

Every bound is a constant of its module.

- *Jobs.* Two jobs of a name exist together while the older drains, so two slots
  per name show a replacement; `scheduler` has three for two names. A state in which
  `AddSecret` would need a further slot waits for one to be reclaimed. In
  `secret_files`, two jobs per run are the replaced one and its successor.
- *Results.* `ResultsCap` is 100 in the code; with 1 the channel is full most of
  the time, which is the interesting case.
- *Reloads, edits, rotations, outages.* One or two: the races are between one
  occurrence and one that follows. SIGHUPs and SIGTERM are in `service`, outages and
  rotations in `service_watch`: their product adds states and no new interaction (jobs
  do not know why they were replaced, nor `run` what its jobs do). The configurations
  of `service` differ in name only, so it starts with the first of them. One secret is
  enough there: a reload starts with an empty registry, so what it drops, keeps or adds
  differs only in the jobs of the old scheduler, which must all be stopped.
- *Runs of the process.* Two: what a crash leaves behind is seen by the next run.
- *Temporary files.* Two names for two writers, so one left over makes the other
  writer wait; names in use are never given twice (the random suffix). Each writer has
  its own content, so the file tells which one wrote it (`BoundedSpec`).
- *Directories.* Two: that of the output file, and one with a name that is a pattern
  for both. The first may be listed, passed over or not configured, and found through
  the second.
- *Retries, expiries, failures.* `MaxRetries` 1 distinguishes first, last and no
  attempt; two expiries let the default and a pooled client expire in one behaviour.
- *Syncers.* Two meet in the pool. Several credential sets, and any number of
  syncers, are covered by the theorems instead.
- *Breaker.* Three errors: the fewest that can trip it are two of three requests, and
  one more makes a probe fail or comes late. `MaxCounts` 4 lets requests go on past the
  three of the trip rule.
- *Renewal.* Three logins: a watcher, its successor and one more, so that the stop can
  meet the second one and cross the third login.
- *Configuration.* Each command line, manifest and file is there for a branch of the
  code: no file, no address, a login; a list, unreadable and mistyped input, a syntax
  error; names of each shape; a key twice; an interval the validator refuses; two
  spellings, an unset variable, a mode that will not do, a directory of certificates
  that `os.Stat` cannot tell of.
- *Sidecar.* The pipe holds the three events of a write and one of the next.

Symmetry is not used, because the runs check liveness as well.

`CHECK_DEADLOCK FALSE` appears where the process may end: after SIGTERM
(`SyncService`, `Renewal`) or a fatal runtime error (`ClientPool`).

### Fairness

- A goroutine that can run is run and a request or system call returns: weak
  fairness of the steps of jobs, of `run`, the watcher, the monitor, syncers,
  writers and the renewal goroutine. `SyncSecret` returns in the code because its
  retries are finite, and time passes for tickers, for the breaker's intervals and
  for the sidecar's debouncing.
- Go's `select` picks at random among ready cases, so a case that is ready again
  and again is taken: strong fairness of `Exit` (a stop channel against the ticker)
  and `TakeTerm` (SIGTERM against SIGHUP).
- A Go mutex does not starve a waiter: strong fairness of the breaker's users, whose
  steps are disabled while another one holds the mutex.
- An outage ends, errors of `Breaker` and failures of `SecretFiles` are bounded. Nothing
  makes a request of `ClientPool` or a login of `Renewal` succeed. A watcher ends when
  its token has expired.
- The convert command runs on until it ends. The application of the sidecar handles its
  signals and is started again; the script is not obliged to stay up.
- Nobody is obliged to edit, signal, rotate, reload, crash, call `AddSecret` or read
  the results of a `Scheduler`.
- The shutdown timeout may fire at any time but does not have to.

## 4. What is proved

Every type invariant, safety invariant and action property that a passing run checks is
proved, with the refinement of `AtomicFile` and that of `Scheduler` by the service.
(`ReloadSidecar` has a liveness property only.) The proofs are in the `...Proofs`
modules and hold for any values of the constants that satisfy the modules'
assumptions: absent values differ from present ones, bounds are natural numbers, the
capacity of the results is positive, the users of a breaker are finitely many, a
configuration has at least one secret (`Validate` refuses others), a manifest is of the
shape its Go struct has and has finitely many fields. Each inductive invariant was
checked by TLC on the instances of section 3 before it was proved.

**Scheduler.** `TypeCorrect`, `NeverDoubleClose`, `NeverOrphanJob`,
`NeverRepeatAfterStop`. `NoDoubleClose` is not inductive: that no channel is closed
twice rests on every registered job having an open channel, on a job being
registered at most once and under the name it captured, on free slots being
registered nowhere, and on a job's ticker being stopped exactly when its
channel is closed. The conjunction `IndInv` says this; each action preserves it
because `AddSecret` takes a slot that is free and `StopJobs` only touches jobs it
removes from the registry. `NeverRepeatAfterStop` is an action property and follows
from `IndInv`: a job whose channel is closed has a stopped ticker, so its `select`
finds no tick.

**Service.** `SvcImplementsScheduler` shows `SchedulerContract` step by step: each
action of `SyncService` is one of `Scheduler` or leaves its variables alone. What has
to be shown is that the callers keep the contract of `Scheduler!Call`: `run` makes
schedulers in order, uses none before it is made, and stops each once. The two
goroutines that may stop one, `run` in a reload and the one of the shutdown, do not do
so together, since the latter starts when `run` has left its loop (`SchedulerUse`).
`ServiceUsesSchedulerWell` carries the theorems about `Scheduler` over. Of
the watcher it needs only that it adds to a scheduler that exists.
`AlwaysServesItsConfig` is not inductive, because it speaks of the moments in which
`run` waits. Between them the registry lists the secrets of `cfg` that were added
already, so `ServingCfg` says what it lists for each value of `todo`, and
`OthersEmpty` that every other scheduler lists nothing: `NoOrphanJob` then takes a job
that was not told to stop into the registry of the present scheduler.
`SvcTypeCorrect` needs that a job holds fetched data only during a sync
(`FetchedSyncing`). Proving the service brought to light that
`[Configs -> SUBSET Names \ {{}}]`, the type of `SecretsOf`, was read in two ways: as
subsets of names but the empty one by TLC, and as subsets of `Names \ {{}}` by the prover.
It now has the parentheses it needs.

**File writer.** `TypeCorrect`, `NeverPartialFile` and `WriteFileIsAtomic`, the
refinement of `AtomicFile`, by `Init` and one step at a time: `Rename` maps to the
step that replaces the file, the ends of failed calls and crashes to calls given up,
everything else stutters. The invariant says where a call's temporary file is and
that it is complete when the call gets to the rename, unless the cleanup has removed it, in
which case the rename fails. `WriteFileIsAtomic` assumes that no output file has a
name like `*.tmp.*` (`TmpLike = {}`); the code does not prevent such names, and its
cleanup would remove those files. `CleanupAlwaysComplete` rests on `OldTmpsMatched`:
while the cleanup runs, a temporary file of an earlier run is in a directory yet to be
looked into (`todo`), among the matches of the present one still to remove, in a
directory that was not seen (`passed`), or one whose removal failed (`spared`), since
writers only make files of their own run. At the end the first two are empty. It needs
no assumption about the names of outputs.

**Client pool.** `TypeCorrect`, `NeverWrongCredentials`, `NeverForeignNamespace` and
`UniformReadsOwnNamespace`. The invariant adds that a syncer past its login holds a
client (`Holding`), that what is set on a client is its first namespace or one that
a secret with its credentials names (`Headers`), and that a syncer about to read for
a secret with a namespace finds some namespace set (`Reading`). The last theorem is
the condition under which a configuration is safe from `namespace_override`:
secrets that share credentials agree on their namespace.

**Secret files.** `TypeCorrect`, `SuccessIsComplete`, `ReadyIsWritten` and
`StatusIsCurrent`. What a job vouches for are the files before `next`: each was written
in this run (`Written`), and holds the fetched version if no other job wrote beside it.
`next` is past the last file exactly when the sync has succeeded (`Places`); a successor
takes a place that was never used (`Order`), so its description is not mixed up with
files counted for another. A success in a results channel vouches for files that were
all written (`Vouched`) and stays true, since within a run nothing removes an output
file. `ReadyMeansWritten` needs all of it: the flag is set by a monitor that sees nothing
but the result.

**Breaker.** `BreakerTypeCorrect` and `CountsAlwaysAgree`. What is counted is a set, the
requests in flight that are `fresh`, so each step is a lemma on cardinalities: a request
sent adds a member, an answer counted removes one, a new generation empties the set.
The invariant adds `FreshInFlight`: a user whose request is fresh is waiting for its answer
or has not counted it yet. Without it a user could send a second request that the set
does not gain. The users must be finitely many.

**Renewal and shutdown.** `StopAlwaysLeavesNone` and `ExitAlwaysTellsAll`. At most one
watcher runs because the goroutine replaces it only after it has ended (`OneWatcher`).
That none does after the stop needs that the stop function runs once, as the
first handler (`HandlersOK`, `StopOnce`): after it has closed the channel, a goroutine
that was not in a login stays in its `select` or has ended, so that the watcher in the
variable, which is the one to be stopped, is still the one that runs. The exception,
a crossed login, is in the statement because the code has it (section 3). The handlers
that ran are those before `turn` (`TurnOK`), whatever they returned.

**Configuration and convert.** `ReloadAlwaysDistinct` and `ConvertAlwaysComplete`, for any
command line, manifests, fields in Vault and files an operator may write. The first is
about `Validate` alone: what it makes of a configuration has clean paths (`CleanTwice`,
`ValidatedSecrets`), so that a second comparison sees the paths that the service will
use (`RevalidatedDistinct`); after one comparison only, as at a start, the statement is
false, which is the mutant of that run. `RevalidationRefusesDuplicatesOnly` is the other
half: the second `Validate` refuses nothing else that the first accepted, so two
spellings are all that a SIGHUP can hold against a file the service started from.
Its hypothesis `WholeConfig` says that a configuration has the fields of its Go
structs and lists that are sequences. `ConvertAlwaysComplete` is about the loop over
files and documents. `QueueOK` and `DocsOK` say that what is left to read is the end of
what the command line names; so the documents before it (`Done`) are those read, each
with fields printed once (`CountOK`), and at the end they are all of them (`AllDone`).
`OutOK` says that an entry which YAML accepts has a template that renders for each of
its files, but for names beyond convert, or no template at all, in which case `Validate`
refuses it. It rests on `AcceptedTemplate`: two lines of one key are no YAML, so a name
that is its own key finds the text printed for it; and on a case distinction of what is
printed for a name (`ExtractedComplete`, `PlaceholderComplete`, `ListedComplete`).
`FileOK` ties the file to `out`, entry by entry, until an operator replaces it, and
`InvComplete` carries this through `Load`, which keeps templates and basenames. Nothing
is assumed of `Shape` and `Joined` but that the text by index does not fail: a name that
is printed wrongly is named by `BeyondConvert`, and without that exception the theorem
would be false.

Only model-checked: all liveness properties (`StoppedJobEnds`, `LiveJobSyncs`,
`ReloadTakesEffect`, `FilesConverge`, `ShutdownCompletes`, `WatchedChangeApplied`,
`LastVersionWins`, `BecomesReady`, `CallReturns`, `LoginsCease`, `FetchEnds`, `Recovers`,
`TokenLives`, `ConvertEnds`, `AppCatchesUp`). They rest on fairness, hence on `ENABLED`,
which the prover does not treat.

## 5. What is not modelled

- Contents, owners, formats of messages: data that no property tells apart. What a
  template says is its name, or that it renders or fails.
- The order of the secrets in a file: `AddConfigured` and `WatchAdd` take any.
- The HTTP servers of health and metrics, which show what `SecretFiles` has.
- The settings of `env.go` and the TLS overrides of `main.go`: they are constants or
  input of the models.
- KV versions beyond their validation, the response size limit, the length of the
  backoff: they change what one request returns or when, and a request may fail at
  any time anyway.
- Address and credentials changing under the pool at a reload.
- The sidecar's webhook and command.
- The deprecated and test-only operations `GetLastSyncTime`, `Handler.Stop`, `Ping`, and
  `watcher.Stop`, which nothing calls.
- Failures of start before the first scheduler exists: they end the process.
- A file that makes `Load` panic is in `Converter` and not in `SyncService`, whose
  `BadFile` is one that `Load` or `Validate` refuses with an error.
- Data races on `cfg` and `scheduler` beyond the interleaving of their reads and
  writes: both are single words whose torn values the platforms do not produce.
- Logging, metrics, tracing, and the commands that print texts (`init`, `help`,
  `version`) or call `Load` (`validate`).

## 6. Plan

The safety properties are proved. What would add to them:

1. `Scheduler`, `FileWriter` and `ClientPool`: the steps that the liveness arguments rest
   on and that need no fairness, as action properties (a stopped job never goes back to
   its `select` for a tick, a call of `WriteFile` never goes back to an earlier step).
2. A reload that changes address and credentials under `ClientPool`'s pool.
