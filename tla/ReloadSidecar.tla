----------------------------- MODULE ReloadSidecar -----------------------------
(***************************************************************************)
(* The reload sidecar (reload-sidecar/reload-sidecar.sh), between the      *)
(* service that writes a secret's file and the application that reads it.  *)
(*                                                                         *)
(* inotifywait puts a line into a pipe for each event in the directory;    *)
(* the script reads the lines one by one and signals the application, at   *)
(* most once in DEBOUNCE_SECONDS.  A write makes several events: the       *)
(* temporary file is created, changed, and renamed, and only then is the   *)
(* new content at the path.                                                *)
(***************************************************************************)
EXTENDS Naturals

CONSTANTS
    MaxVersion, \* bound on the versions of the secret
    MaxEvents,  \* bound on the unread lines
    MaxPolls,   \* 30 in the script
    MaxEnds     \* bound on the ends of the application and of the script

ASSUME SidecarAssumption == {MaxVersion, MaxEvents, MaxPolls, MaxEnds} \subseteq Nat \ {0}

VARIABLES
    latest,     \* the version in Vault
    writing,    \* the writer: "idle", "created", "changed"
    fetched,    \* the version it is writing
    disk,       \* the version at the path
    app,        \* "up", "down"
    used,       \* the version the application has loaded
    signal,     \* a signal is pending at the application
    ends,       \* ends of the application and of the script so far
    script,     \* "waiting" for the process, "watching", "ended"
    polls,      \* the loop counter i, less one
    events,     \* lines in the pipe
    quiet       \* less than DEBOUNCE_SECONDS have passed since last_reload

writerVars == <<latest, writing, fetched, disk>>
appVars == <<app, used, signal>>
scriptVars == <<script, polls, quiet>>
vars == <<writerVars, appVars, ends, scriptVars, events>>

\* last_reload is 0 at first, so the first event reloads.
Init ==
    /\ latest = 0 /\ writing = "idle" /\ fetched = 0 /\ disk = 0
    /\ app \in {"up", "down"} /\ used = 0 /\ signal = FALSE /\ ends = 0
    /\ script = "waiting" /\ polls = 0 /\ events = 0 /\ quiet = FALSE

-----------------------------------------------------------------------------
\* The secret is rotated.
Rotate ==
    /\ latest < MaxVersion /\ latest' = latest + 1
    /\ UNCHANGED <<writing, fetched, disk, appVars, ends, scriptVars, events>>

\* An event is a line in the pipe once inotifywait has started.
Event ==
    /\ events < MaxEvents
    /\ events' = IF script = "watching" THEN events + 1 ELSE events

\* Each sync writes the file, whether or not the secret has changed.
Create ==
    /\ writing = "idle" /\ Event
    /\ writing' = "created" /\ fetched' = latest
    /\ UNCHANGED <<latest, disk, appVars, ends, scriptVars>>

Change ==
    /\ writing = "created" /\ Event
    /\ writing' = "changed"
    /\ UNCHANGED <<latest, fetched, disk, appVars, ends, scriptVars>>

Rename ==
    /\ writing = "changed" /\ Event
    /\ writing' = "idle" /\ disk' = fetched
    /\ UNCHANGED <<latest, fetched, appVars, ends, scriptVars>>

-----------------------------------------------------------------------------
\* The application loads what is at the path when it starts and when a signal
\* tells it to; signals do not queue.
AppStarts ==
    /\ app = "down" /\ app' = "up" /\ used' = disk /\ signal' = FALSE
    /\ UNCHANGED <<writerVars, ends, scriptVars, events>>

AppLoads ==
    /\ app = "up" /\ signal /\ used' = disk /\ signal' = FALSE
    /\ UNCHANGED <<app, writerVars, ends, scriptVars, events>>

AppEnds ==
    /\ app = "up" /\ ends < MaxEnds
    /\ app' = "down" /\ signal' = FALSE /\ ends' = ends + 1
    /\ UNCHANGED <<used, writerVars, scriptVars, events>>

-----------------------------------------------------------------------------
\* The initial check: one poll a second until the process is there, and after
\* the last poll the script goes on without it.
Poll ==
    /\ script = "waiting"
    /\ script' = IF app = "up" \/ polls + 1 = MaxPolls THEN "watching" ELSE script
    /\ polls' = IF script' = "watching" THEN polls ELSE polls + 1
    /\ UNCHANGED <<writerVars, appVars, ends, events, quiet>>

\* should_reload: time enough has passed.
Pass ==
    /\ quiet /\ quiet' = FALSE
    /\ UNCHANGED <<writerVars, appVars, ends, script, polls, events>>

\* Mutant of ReloadApplication: the failed pgrep ends the script (set -e).
ReloadApplicationStrict ==
    /\ quiet' = TRUE
    /\ signal' = (app = "up" \/ signal)
    /\ script' = IF app = "up" THEN script ELSE "ended"

\* reload_application, of which last_reload is the first assignment: the
\* reload counts although no process was found.
ReloadApplication ==
    /\ quiet' = TRUE
    /\ signal' = (app = "up" \/ signal)
    /\ script' = script

\* A line is read.
ReadEvent ==
    /\ script = "watching" /\ events > 0
    /\ events' = events - 1
    /\ \/ ~quiet /\ ReloadApplication
       \/ quiet /\ UNCHANGED <<quiet, signal, script>>
    /\ UNCHANGED <<writerVars, app, used, ends, polls>>

\* The container is started again: the pipe and last_reload are new.
ScriptRestarts ==
    /\ script = "watching" /\ ends < MaxEnds
    /\ script' = "waiting" /\ polls' = 0 /\ events' = 0 /\ quiet' = FALSE
    /\ ends' = ends + 1
    /\ UNCHANGED <<writerVars, appVars>>

Write == Create \/ Change \/ Rename
Script == Poll \/ ReadEvent
Next == Rotate \/ Write \/ AppStarts \/ AppLoads \/ AppEnds \/ Script \/ Pass \/ ScriptRestarts

Spec == Init /\ [][Next]_vars

\* Syncs recur (the ticker of each job), time passes, the application handles
\* its signals and is started again, the script reads its pipe.
FairSpec == Spec /\ WF_vars(Write) /\ WF_vars(AppStarts) /\ WF_vars(AppLoads)
                 /\ WF_vars(Script) /\ WF_vars(Pass)

-----------------------------------------------------------------------------
\* When rotations cease, the application comes to use the last version and
\* keeps it, although it may be signalled before the rename (the first event
\* is that of the temporary file) and the event of the rename falls to the
\* debouncing at reload-sidecar.sh:57: a later sync makes up for it.
AppCatchesUp == <>[](app = "up" => used = latest)
=============================================================================
