-------------------------------- MODULE Renewal --------------------------------
(***************************************************************************)
(* Token renewal and the end of the process: StartRenewal of               *)
(* internal/vault/auth.go and Shutdown of internal/shutdown/handler.go,    *)
(* whose first handler is the stop function of the renewal.                *)
(*                                                                         *)
(* The renewal goroutine waits for its lifetime watcher (the Vault API's,  *)
(* which renews the token until the server refuses), then logs in again    *)
(* and replaces the watcher in a variable that the stop function reads     *)
(* without a lock.  The handlers run one after the other in a goroutine    *)
(* while main waits for it, at most 30 seconds.                            *)
(***************************************************************************)
EXTENDS Naturals, Sequences, FiniteSets

CONSTANTS
    MaxLogins,  \* bound on the renewable logins of the client
    Fallible    \* handlers that may return an error

Handler == {"renewal", "scheduler", "health", "tracing"}

ASSUME RenewalAssumption ==
    /\ MaxLogins \in Nat \ {0}
    /\ Fallible \subseteq Handler

\* Lifetime watchers, numbered as they are made.
Watchers == 1..MaxLogins

VARIABLES
    token,      \* the client's token has not expired
    renewer,    \* the goroutine: "none", "select", "login", "replace", "ended"
    gaveUp,     \* it ended because a login or its token would not do
    watcher,    \* the captured variable; 0 before the first
    wstate,     \* a watcher: "none", "running", "done" (DoneCh has its end)
    halted,     \* watchers that Stop was called on
    stopped,    \* the channel stopped is closed
    crossed,    \* it was closed while the goroutine was logging in
    handlers,   \* the handlers main registered
    turn,       \* index of the handler that runs; 0 before Shutdown
    stopping,   \* the stop function has closed the channel and not returned
    ran,        \* handlers that have returned
    failed,     \* handlers that returned an error
    main        \* "serve", "shutdown", or how Shutdown has returned and the
                \* process ended: "ok", "errors" or "timeout"

renewVars == <<token, renewer, gaveUp, watcher, wstate>>
stopVars == <<halted, stopped, crossed, stopping>>
mainVars == <<handlers, turn, ran, failed, main>>
vars == <<renewVars, stopVars, mainVars>>

RenewalTypeOK ==
    /\ {token, gaveUp, stopped, crossed, stopping} \subseteq BOOLEAN
    /\ renewer \in {"none", "select", "login", "replace", "ended"}
    /\ watcher \in Watchers \cup {0}
    /\ wstate \in [Watchers -> {"none", "running", "done"}]
    /\ halted \subseteq Watchers
    /\ handlers \in Seq(Handler) /\ turn \in 0..(Len(handlers) + 1)
    /\ ran \subseteq Handler /\ failed \subseteq ran
    /\ main \in {"serve", "shutdown", "ok", "errors", "timeout"}

\* main has logged in, called StartRenewal (which starts nothing unless the
\* token is renewable) and registered the handlers of what it has started: the
\* metrics server and tracing are optional.
Init ==
    /\ token = TRUE /\ gaveUp = FALSE
    /\ renewer \in {"none", "select"}
    /\ watcher = IF renewer = "select" THEN 1 ELSE 0
    /\ wstate = [w \in Watchers |-> IF w = watcher THEN "running" ELSE "none"]
    /\ halted = {} /\ stopped = FALSE /\ crossed = FALSE /\ stopping = FALSE
    /\ handlers \in {<<"renewal", "scheduler">> \o h \o t :
                        h \in {<<>>, <<"health">>}, t \in {<<>>, <<"tracing">>}}
    /\ turn = 0 /\ ran = {} /\ failed = {} /\ main = "serve"

Running == {w \in Watchers : wstate[w] = "running"}

-----------------------------------------------------------------------------
\* The watcher comes to its end: it was stopped, or the server refuses to
\* renew the token any longer.
WatcherEnds(w) ==
    /\ wstate[w] = "running"
    /\ wstate' = [wstate EXCEPT ![w] = "done"]
    /\ UNCHANGED <<token, renewer, gaveUp, watcher, stopVars, mainVars>>

\* A token that nothing renews expires.
Expire ==
    /\ token /\ Running \subseteq halted
    /\ token' = FALSE
    /\ UNCHANGED <<renewer, gaveUp, watcher, wstate, stopVars, mainVars>>

\* Mutant of TakeDone: the channel stopped is not looked at.
TakeDoneUnchecked ==
    /\ renewer = "select" /\ wstate[watcher] = "done"
    /\ wstate' = [wstate EXCEPT ![watcher] = "none"]
    /\ renewer' = "login"
    /\ UNCHANGED <<token, gaveUp, watcher, stopVars, mainVars>>

\* The select finds DoneCh ready.  If the channel stopped is not closed the
\* goroutine logs in again.  (A value of RenewCh is logged and changes nothing.)
TakeDone ==
    /\ renewer = "select" /\ wstate[watcher] = "done"
    /\ wstate' = [wstate EXCEPT ![watcher] = "none"]
    /\ renewer' = IF stopped THEN "ended" ELSE "login"
    /\ UNCHANGED <<token, gaveUp, watcher, stopVars, mainVars>>

\* The select finds stopped closed.
TakeStopped ==
    /\ renewer = "select" /\ stopped
    /\ renewer' = "ended"
    /\ UNCHANGED <<token, gaveUp, watcher, wstate, stopVars, mainVars>>

\* authenticateAppRole: a new token, which a new watcher can renew or not ...
LoginOk ==
    /\ renewer = "login"
    /\ token' = TRUE
    /\ \/ watcher + 1 \in Watchers /\ renewer' = "replace" /\ UNCHANGED gaveUp
       \/ renewer' = "ended" /\ gaveUp' = TRUE
    /\ UNCHANGED <<watcher, wstate, stopVars, mainVars>>

\* ... or an error, the first of which ends the renewal.
LoginFails ==
    /\ renewer = "login"
    /\ renewer' = "ended" /\ gaveUp' = TRUE
    /\ UNCHANGED <<token, watcher, wstate, stopVars, mainVars>>

\* Mutant of Replace: the new watcher is bound to a new variable (:= for =).
ReplaceShadowed ==
    /\ renewer = "replace"
    /\ wstate' = [wstate EXCEPT ![watcher + 1] = "running"]
    /\ renewer' = "select"
    /\ UNCHANGED <<token, gaveUp, watcher, stopVars, mainVars>>

\* watcher = newWatcher; go watcher.Start().
Replace ==
    /\ renewer = "replace"
    /\ watcher' = watcher + 1
    /\ wstate' = [wstate EXCEPT ![watcher + 1] = "running"]
    /\ renewer' = "select"
    /\ UNCHANGED <<token, gaveUp, stopVars, mainVars>>

Renewer == TakeDone \/ TakeStopped \/ LoginOk \/ LoginFails \/ Replace

-----------------------------------------------------------------------------
\* A SIGTERM was received: main calls Shutdown.
Shutdown ==
    /\ main = "serve"
    /\ main' = "shutdown" /\ turn' = 1
    /\ UNCHANGED <<renewVars, stopVars, handlers, ran, failed>>

Turn(h) == main = "shutdown" /\ turn \in DOMAIN handlers /\ handlers[turn] = h

HandlerEnds ==
    /\ turn' = turn + 1
    /\ ran' = ran \cup {handlers[turn]}

\* The stop function closes the channel; that of a token that is not renewed
\* does nothing.
StopBegins ==
    /\ Turn("renewal") /\ ~stopping
    /\ IF renewer = "none"
         THEN HandlerEnds /\ UNCHANGED <<stopped, crossed, stopping>>
         ELSE /\ stopped' = TRUE /\ stopping' = TRUE
              /\ crossed' = (renewer \in {"login", "replace"})
              /\ UNCHANGED <<turn, ran>>
    /\ UNCHANGED <<renewVars, halted, handlers, failed, main>>

\* It stops the watcher that it then finds in the variable.
StopEnds ==
    /\ Turn("renewal") /\ stopping
    /\ halted' = halted \cup {watcher}
    /\ stopping' = FALSE
    /\ HandlerEnds
    /\ UNCHANGED <<renewVars, stopped, crossed, handlers, failed, main>>

\* Mutant of RunHandler: the first error ends the loop.
RunHandlerUntilError(h) ==
    /\ h # "renewal" /\ Turn(h)
    /\ ran' = ran \cup {h}
    /\ \/ turn' = turn + 1 /\ UNCHANGED failed
       \/ h \in Fallible /\ failed' = failed \cup {h} /\ turn' = Len(handlers) + 1
    /\ UNCHANGED <<renewVars, stopVars, handlers, main>>

\* Any other handler returns, with an error or not.
RunHandler(h) ==
    /\ h # "renewal" /\ Turn(h)
    /\ HandlerEnds
    /\ \/ UNCHANGED failed
       \/ h \in Fallible /\ failed' = failed \cup {h}
    /\ UNCHANGED <<renewVars, stopVars, handlers, main>>

\* Shutdown returns what the goroutine sent on done, or after its timeout.
HandlersDone ==
    /\ main = "shutdown" /\ turn > Len(handlers)
    /\ main' = IF failed = {} THEN "ok" ELSE "errors"
    /\ UNCHANGED <<renewVars, stopVars, handlers, turn, ran, failed>>

Timeout ==
    /\ main = "shutdown"
    /\ main' = "timeout"
    /\ UNCHANGED <<renewVars, stopVars, handlers, turn, ran, failed>>

Alive == main \in {"serve", "shutdown"}

Next ==
    /\ Alive
    /\ \/ Renewer \/ Expire \/ \E w \in Watchers : WatcherEnds(w)
       \/ Shutdown \/ StopBegins \/ StopEnds \/ HandlersDone \/ Timeout
       \/ \E h \in Handler : RunHandler(h)

Spec == Init /\ [][Next]_vars

\* The goroutine runs, its logins return, and the server refuses to renew a
\* token that has expired before its watcher was started.
FairSpec ==
    /\ Spec
    /\ WF_vars(Alive /\ Renewer)
    /\ WF_vars(Alive /\ ~token /\ \E w \in Watchers : WatcherEnds(w))

-----------------------------------------------------------------------------
\* At most one watcher renews the token that was not told to stop, and after
\* the stop function none does, unless it crossed a login: then the goroutine
\* starts another after it (auth.go:107), which runs until the process ends.
StopLeavesNone ==
    /\ Cardinality(Running \ halted) <= 1
    /\ (stopped /\ ~stopping /\ ~crossed) => Running \subseteq halted

\* An expired token is replaced by a new login, again and again, until a login
\* fails, the new token is not renewable, or the renewal is stopped.
TokenLives ==
    (~token /\ renewer # "none") ~> (token \/ gaveUp \/ stopped \/ ~Alive)

\* Unless it exits by the timeout, every handler has run, also after one that
\* failed, and the exit says whether one did.
ExitTellsAll ==
    main \in {"ok", "errors"} =>
        /\ ran = {handlers[i] : i \in DOMAIN handlers}
        /\ main = "ok" <=> failed = {}
=============================================================================
