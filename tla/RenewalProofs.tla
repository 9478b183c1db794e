----------------------------- MODULE RenewalProofs -----------------------------
(***************************************************************************)
(* Theorems about Renewal for every number of logins and every choice of   *)
(* the handlers that may fail.                                             *)
(***************************************************************************)
EXTENDS Renewal, FiniteSetTheorems, SequenceTheorems, TLAPS

\* What the proofs use of the types.
RenewTypeOK ==
    /\ renewer \in {"none", "select", "login", "replace", "ended"}
    /\ watcher \in Watchers \cup {0}
    /\ wstate \in [Watchers -> {"none", "running", "done"}]

\* main registers the stop function of the renewal first, and once.
HandlersOK ==
    /\ handlers \in Seq(Handler) /\ Len(handlers) > 0
    /\ \A i \in DOMAIN handlers : handlers[i] = "renewal" <=> i = 1

TurnOK ==
    /\ turn \in 0..(Len(handlers) + 1)
    /\ main = "serve" => turn = 0
    /\ ran = {handlers[i] : i \in {k \in DOMAIN handlers : k < turn}}
    /\ failed \subseteq Handler

\* The goroutine replaces its watcher only when that one has ended, so the
\* watcher in the variable is the only one that may run.
OneWatcher ==
    /\ \A w \in Watchers : wstate[w] = "running" =>
          w = watcher /\ renewer \in {"select", "ended"}
    /\ renewer # "none" => watcher \in Watchers
    /\ renewer = "replace" => watcher + 1 \in Watchers

\* The stop function runs once.  A goroutine that was not logging in when it
\* closed the channel does not log in any more, so the watcher it stops next
\* is still the one in the variable.
StopOnce ==
    /\ stopping => stopped /\ turn = 1
    /\ stopped => renewer # "none" /\ turn > 0
    /\ (stopped /\ ~stopping) => turn > 1
    /\ (stopped /\ ~crossed) => renewer \in {"select", "ended"}
    /\ (stopped /\ ~stopping /\ ~crossed) => watcher \in halted

RenewalInv ==
    /\ RenewTypeOK
    /\ HandlersOK
    /\ TurnOK
    /\ OneWatcher
    /\ StopOnce
    /\ ExitTellsAll

-----------------------------------------------------------------------------
\* The four lists of handlers that main may have registered.
LEMMA HandlersInit ==
    ASSUME NEW h \in {<<>>, <<"health">>}, NEW t \in {<<>>, <<"tracing">>},
           handlers = <<"renewal", "scheduler">> \o h \o t
    PROVE  HandlersOK
<1> DEFINE rs == <<"renewal", "scheduler">>
<1>1. rs \in Seq(Handler) /\ Len(rs) = 2 /\ rs[1] = "renewal" /\ rs[2] = "scheduler"
  BY DEF Handler
<1>2. h \in Seq(Handler) /\ \A i \in 1..Len(h) : h[i] = "health"
  <2>1. CASE h = <<>>
    BY <2>1, EmptySeq
  <2>2. CASE h = <<"health">>
    BY <2>2 DEF Handler
  <2> QED BY <2>1, <2>2
<1>3. t \in Seq(Handler) /\ \A i \in 1..Len(t) : t[i] = "tracing"
  <2>1. CASE t = <<>>
    BY <2>1, EmptySeq
  <2>2. CASE t = <<"tracing">>
    BY <2>2 DEF Handler
  <2> QED BY <2>1, <2>2
<1> HIDE DEF rs
<1>4. /\ rs \o h \in Seq(Handler) /\ Len(rs \o h) = 2 + Len(h)
      /\ \A i \in 1..Len(rs \o h) : (rs \o h)[i] = IF i <= 2 THEN rs[i] ELSE h[i - 2]
  <2>1. rs \in Seq(Handler) /\ Len(rs) = 2 /\ h \in Seq(Handler) /\ Len(h) \in Nat
    BY <1>1, <1>2
  <2>2. /\ rs \o h \in Seq(Handler)
        /\ Len(rs \o h) = Len(rs) + Len(h)
        /\ \A i \in 1 .. Len(rs) + Len(h) :
              (rs \o h)[i] = IF i <= Len(rs) THEN rs[i] ELSE h[i - Len(rs)]
    BY <2>1, ConcatProperties, Zenon
  <2> QED BY <2>1, <2>2
<1>5. /\ (rs \o h) \o t \in Seq(Handler)
      /\ Len((rs \o h) \o t) = 2 + Len(h) + Len(t)
      /\ \A i \in 1..Len((rs \o h) \o t) :
            ((rs \o h) \o t)[i] = IF i <= 2 + Len(h) THEN (rs \o h)[i]
                                                    ELSE t[i - (2 + Len(h))]
  BY <1>3, <1>4, ConcatProperties
<1>6. \A i \in 1..Len((rs \o h) \o t) :
         ((rs \o h) \o t)[i] = "renewal" <=> i = 1
  <2> SUFFICES ASSUME NEW i \in 1..Len((rs \o h) \o t)
               PROVE  ((rs \o h) \o t)[i] = "renewal" <=> i = 1
    OBVIOUS
  <2>0. Len(h) \in Nat /\ Len(t) \in Nat
    BY <1>2, <1>3
  <2>1. CASE i <= 2
    BY <2>0, <2>1, <1>1, <1>4, <1>5
  <2>2. CASE i > 2 /\ i <= 2 + Len(h)
    BY <2>0, <2>2, <1>2, <1>4, <1>5
  <2>3. CASE i > 2 + Len(h)
    BY <2>0, <2>3, <1>3, <1>5
  <2> QED BY <2>0, <2>1, <2>2, <2>3
<1>7. handlers = (rs \o h) \o t
  BY DEF rs
<1>8. Len(handlers) > 0 /\ DOMAIN handlers = 1..Len(handlers)
  BY <1>2, <1>3, <1>5, <1>7
<1>9. \A i \in 1..Len(handlers) : handlers[i] = "renewal" <=> i = 1
  BY <1>6, <1>7
<1> QED BY <1>5, <1>7, <1>8, <1>9, Zenon DEF HandlersOK

\* Every initial state satisfies the invariant.
LEMMA RenewalInitInv == Init => RenewalInv
<1> SUFFICES ASSUME Init PROVE RenewalInv
  OBVIOUS
<1>1. 1 \in Watchers /\ 0 \notin Watchers
  BY RenewalAssumption DEF Watchers
<1>2. RenewTypeOK
  BY <1>1 DEF Init, RenewTypeOK
<1>3. HandlersOK
  BY HandlersInit DEF Init
<1>4. TurnOK
  BY <1>3 DEF Init, TurnOK, HandlersOK
<1>5. OneWatcher
  BY <1>1 DEF Init, OneWatcher
<1>6. StopOnce /\ ExitTellsAll
  BY DEF Init, StopOnce, ExitTellsAll
<1> QED BY <1>2, <1>3, <1>4, <1>5, <1>6 DEF RenewalInv

-----------------------------------------------------------------------------
\* The steps of the renewal goroutine, its watchers and the clock.
LEMMA RenewStep ==
    ASSUME RenewalInv, Alive,
           Renewer \/ Expire \/ \E w \in Watchers : WatcherEnds(w)
    PROVE  RenewalInv'
<1>a. RenewTypeOK /\ HandlersOK /\ TurnOK /\ OneWatcher /\ StopOnce
  BY DEF RenewalInv
<1>b. UNCHANGED <<stopVars, mainVars>>
  BY DEF Renewer, TakeDone, TakeStopped, LoginOk, LoginFails, Replace, Expire, WatcherEnds
<1>c. \A w \in Watchers : w \in Nat /\ w + 1 # w
  BY RenewalAssumption DEF Watchers
<1>1. HandlersOK' /\ TurnOK'
  BY <1>a, <1>b DEF mainVars, HandlersOK, TurnOK
<1>2. ExitTellsAll'
  BY <1>b DEF Alive, mainVars, ExitTellsAll
<1>3. RenewTypeOK' /\ OneWatcher' /\ StopOnce'
  <2>1. CASE TakeDone
    <3>1. RenewTypeOK' /\ OneWatcher'
      BY <2>1, <1>a DEF TakeDone, RenewTypeOK, OneWatcher
    <3>2. StopOnce'
      BY <2>1, <1>a DEF TakeDone, stopVars, mainVars, StopOnce
    <3> QED BY <3>1, <3>2
  <2>2. CASE TakeStopped
    BY <2>2, <1>a DEF TakeStopped, stopVars, mainVars, RenewTypeOK, OneWatcher, StopOnce
  <2>3. CASE LoginOk \/ LoginFails
    BY <2>3, <1>a DEF LoginOk, LoginFails, stopVars, mainVars, RenewTypeOK, OneWatcher, StopOnce
  <2>4. CASE Replace
    <3>1. watcher + 1 \in Watchers /\ watcher' = watcher + 1 /\ renewer' = "select"
      BY <2>4, <1>a DEF Replace, OneWatcher
    <3>2. RenewTypeOK' /\ OneWatcher'
      BY <3>1, <2>4, <1>a DEF Replace, RenewTypeOK, OneWatcher
    <3>3. StopOnce'
      BY <2>4, <1>a DEF Replace, stopVars, mainVars, StopOnce
    <3> QED BY <3>2, <3>3
  <2>5. CASE Expire
    BY <2>5, <1>a DEF Expire, stopVars, mainVars, RenewTypeOK, OneWatcher, StopOnce
  <2>6. ASSUME NEW w \in Watchers, WatcherEnds(w)
        PROVE  RenewTypeOK' /\ OneWatcher' /\ StopOnce'
    BY <2>6, <1>a DEF WatcherEnds, stopVars, mainVars, RenewTypeOK, OneWatcher, StopOnce
  <2> QED BY <2>1, <2>2, <2>3, <2>4, <2>5, <2>6 DEF Renewer
<1> QED BY <1>1, <1>2, <1>3 DEF RenewalInv

\* The handler that has its turn returns and the next has its turn.
LEMMA HandlerEndsTurn ==
    ASSUME HandlersOK, TurnOK, turn \in DOMAIN handlers, HandlerEnds,
           UNCHANGED handlers, main # "serve", main' = main,
           failed' \subseteq Handler
    PROVE  TurnOK'
<1>1. /\ turn \in 1..Len(handlers) /\ DOMAIN handlers = 1..Len(handlers)
      /\ Len(handlers) \in Nat
  BY DEF HandlersOK
<1>2. {k \in DOMAIN handlers : k < turn + 1} = {k \in DOMAIN handlers : k < turn} \cup {turn}
  BY <1>1
<1>3. ran' = {handlers[i] : i \in {k \in DOMAIN handlers : k < turn + 1}}
  BY <1>2 DEF TurnOK, HandlerEnds
<1>4. turn' \in 0..(Len(handlers) + 1)
  BY <1>1 DEF HandlerEnds
<1> QED BY <1>3, <1>4 DEF TurnOK, HandlerEnds

\* The steps of Shutdown and of the goroutine that runs the handlers.
LEMMA ShutdownStep ==
    ASSUME RenewalInv, Alive,
           \/ Shutdown \/ StopBegins \/ StopEnds \/ HandlersDone \/ Timeout
           \/ \E h \in Handler : RunHandler(h)
    PROVE  RenewalInv'
<1>a. RenewTypeOK /\ HandlersOK /\ TurnOK /\ OneWatcher /\ StopOnce
  BY DEF RenewalInv
<1>b. /\ DOMAIN handlers = 1..Len(handlers) /\ Len(handlers) \in Nat \ {0}
      /\ turn \in Nat
  BY <1>a DEF HandlersOK, TurnOK
<1>c. UNCHANGED <<renewVars, handlers>>
  BY DEF Shutdown, StopBegins, StopEnds, HandlersDone, Timeout, RunHandler
<1>d. RenewTypeOK' /\ OneWatcher' /\ HandlersOK'
  BY <1>a, <1>c DEF renewVars, RenewTypeOK, OneWatcher, HandlersOK
<1>1. CASE Shutdown
  <2>1. TurnOK'
    BY <1>1, <1>a, <1>b DEF Shutdown, TurnOK
  <2>2. StopOnce'
    BY <1>1, <1>a DEF Shutdown, TurnOK, StopOnce, renewVars, stopVars
  <2> QED BY <2>1, <2>2, <1>1, <1>d DEF Shutdown, ExitTellsAll, RenewalInv
<1>2. CASE StopBegins
  <2>0. /\ turn = 1 /\ turn \in DOMAIN handlers /\ main = "shutdown" /\ main' = main
        /\ ~stopping /\ failed' = failed /\ ~stopped
    BY <1>2, <1>a DEF StopBegins, Turn, HandlersOK, StopOnce
  <2>1. CASE renewer = "none"
    <3>1. TurnOK'
      BY <2>0, <2>1, <1>2, <1>a, <1>c, HandlerEndsTurn DEF StopBegins, TurnOK
    <3>2. StopOnce'
      BY <2>0, <2>1, <1>2, <1>a DEF StopBegins, StopOnce, renewVars
    <3> QED BY <3>1, <3>2, <2>0, <1>d DEF ExitTellsAll, RenewalInv
  <2>2. CASE renewer # "none"
    <3>1. TurnOK'
      BY <2>0, <2>2, <1>2, <1>a, <1>c DEF StopBegins, TurnOK
    <3>2. /\ stopped' = TRUE /\ stopping' = TRUE /\ turn' = 1 /\ renewer' = renewer
          /\ crossed' = (renewer \in {"login", "replace"})
      BY <2>0, <2>2, <1>2 DEF StopBegins, renewVars
    <3>4. ~crossed' => renewer' \in {"select", "ended"}
      BY <3>2, <2>2, <1>a DEF RenewTypeOK
    <3>5. StopOnce'
      BY <3>2, <3>4, <2>2 DEF StopOnce
    <3> QED BY <3>1, <3>5, <2>0, <1>d DEF ExitTellsAll, RenewalInv
  <2> QED BY <2>1, <2>2
<1>3. CASE StopEnds
  <2>0. /\ turn = 1 /\ turn \in DOMAIN handlers /\ main = "shutdown" /\ main' = main
        /\ stopping /\ failed' = failed /\ turn' = 2
    BY <1>3, <1>a DEF StopEnds, Turn, StopOnce, HandlerEnds
  <2>1. TurnOK'
    BY <2>0, <1>3, <1>a, <1>c, HandlerEndsTurn DEF StopEnds, TurnOK
  <2>2. /\ stopped /\ ~stopping' /\ halted' = halted \cup {watcher}
        /\ UNCHANGED <<stopped, crossed, renewer, watcher>>
    BY <2>0, <1>3, <1>a DEF StopEnds, StopOnce, renewVars
  <2>3. /\ renewer' # "none"
        /\ ~crossed' => renewer' \in {"select", "ended"}
    BY <2>2, <1>3, <1>a DEF StopEnds, StopOnce
  <2>4. StopOnce'
    BY <2>0, <2>2, <2>3 DEF StopOnce
  <2> QED BY <2>0, <2>1, <2>4, <1>d DEF ExitTellsAll, RenewalInv
<1>4. ASSUME NEW h \in Handler, RunHandler(h) PROVE RenewalInv'
  <2>0. /\ turn \in DOMAIN handlers /\ turn > 1 /\ main = "shutdown" /\ main' = main
        /\ UNCHANGED stopVars /\ turn' = turn + 1 /\ HandlerEnds
    BY <1>4, <1>a, <1>b DEF RunHandler, Turn, HandlersOK, HandlerEnds
  <2>1. failed' \subseteq Handler
    BY <1>4, <1>a DEF RunHandler, TurnOK
  <2>2. TurnOK'
    BY <2>0, <2>1, <1>a, <1>c, HandlerEndsTurn
  <2>3. StopOnce'
    BY <2>0, <1>a, <1>b, <1>c DEF StopOnce, renewVars, stopVars
  <2> QED BY <2>0, <2>2, <2>3, <1>d DEF ExitTellsAll, RenewalInv
<1>5. CASE HandlersDone
  <2>1. TurnOK' /\ StopOnce'
    BY <1>5, <1>a DEF HandlersDone, TurnOK, StopOnce, renewVars, stopVars
  <2>2. {k \in DOMAIN handlers : k < turn} = DOMAIN handlers
    BY <1>5, <1>b DEF HandlersDone
  <2>3. ran = {handlers[i] : i \in DOMAIN handlers}
    BY <2>2, <1>a DEF TurnOK
  <2>4. ExitTellsAll'
    BY <2>3, <1>5 DEF HandlersDone, ExitTellsAll
  <2> QED BY <2>1, <2>4, <1>d DEF RenewalInv
<1>6. CASE Timeout
  <2>1. TurnOK' /\ StopOnce'
    BY <1>6, <1>a DEF Timeout, TurnOK, StopOnce, renewVars, stopVars
  <2> QED BY <2>1, <1>6, <1>d DEF Timeout, ExitTellsAll, RenewalInv
<1> QED BY <1>1, <1>2, <1>3, <1>4, <1>5, <1>6

-----------------------------------------------------------------------------
\* The invariant is inductive.
LEMMA RenewalNextInv == RenewalInv /\ [Next]_vars => RenewalInv'
<1> SUFFICES ASSUME RenewalInv, [Next]_vars PROVE RenewalInv'
  OBVIOUS
<1>1. CASE Next
  BY <1>1, RenewStep, ShutdownStep DEF Next
<1>2. CASE UNCHANGED vars
  BY <1>2 DEF vars, renewVars, stopVars, mainVars, RenewalInv, RenewTypeOK,
     HandlersOK, TurnOK, OneWatcher, StopOnce, ExitTellsAll
<1> QED BY <1>1, <1>2

\* Every reachable state satisfies the invariant.
THEOREM RenewalInvariance == Spec => []RenewalInv
<1>1. Init => RenewalInv
  BY RenewalInitInv
<1>2. RenewalInv /\ [Next]_vars => RenewalInv'
  BY RenewalNextInv
<1> QED BY <1>1, <1>2, PTL DEF Spec

\* At most one watcher renews the token unstopped; after the stop function
\* none does, unless a login crossed it, although the goroutine replaces the
\* watcher in a variable that the stop function reads without a lock.
THEOREM StopAlwaysLeavesNone == Spec => []StopLeavesNone
<1>1. RenewalInv => StopLeavesNone
  <2> SUFFICES ASSUME RenewalInv PROVE StopLeavesNone
    OBVIOUS
  <2>1. OneWatcher /\ StopOnce
    BY DEF RenewalInv
  <2>2. Running \ halted \subseteq {watcher}
    BY <2>1 DEF Running, OneWatcher
  <2>3. Cardinality(Running \ halted) <= 1
    <3>1. IsFiniteSet({watcher}) /\ Cardinality({watcher}) = 1
      BY FS_Singleton
    <3>2. Cardinality(Running \ halted) <= Cardinality({watcher})
      BY <2>2, <3>1, FS_Subset
    <3> QED BY <3>1, <3>2
  <2>4. (stopped /\ ~stopping /\ ~crossed) => Running \subseteq halted
    BY <2>1 DEF Running, OneWatcher, StopOnce
  <2> QED BY <2>3, <2>4 DEF StopLeavesNone
<1> QED BY <1>1, RenewalInvariance, PTL

\* Unless it exits by the timeout, every handler has run, also after one that
\* failed, and the exit says whether one did.
THEOREM ExitAlwaysTellsAll == Spec => []ExitTellsAll
<1>1. RenewalInv => ExitTellsAll
  BY DEF RenewalInv
<1> QED BY <1>1, RenewalInvariance, PTL
=============================================================================
