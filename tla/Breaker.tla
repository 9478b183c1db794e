-------------------------------- MODULE Breaker --------------------------------
(***************************************************************************)
(* The circuit breaker of one pooled Vault client: internal/vault/         *)
(* breaker.go, executeWithBreaker, the retries of FetchSecretWithRetry and *)
(* the state change callback that the client factory of main.go installs.  *)
(* The users are the job goroutines whose secrets share the client.        *)
(*                                                                         *)
(* The breaker itself is github.com/sony/gobreaker.  It is modelled from   *)
(* the settings the code gives it: a mutex around the steps before and     *)
(* after a request, counts that start again with each generation, answers  *)
(* of an older generation ignored, time looked at in those steps only.     *)
(* The callback runs with the mutex held, and on a recovery it makes a     *)
(* request of its own, which does not pass through the breaker.            *)
(***************************************************************************)
EXTENDS Naturals, FiniteSets

CONSTANTS
    Users,          \* goroutines that fetch through the client
    Nobody,
    MaxRequests,    \* CIRCUIT_BREAKER_MAX_REQUESTS, 0 meaning 1
    MaxRetries,     \* of main's RetryConfig
    MaxCounts,      \* bound on the requests of one interval
    MaxErrors       \* bound on the requests that fail

ASSUME BreakerAssumption ==
    /\ Nobody \notin Users /\ IsFiniteSet(Users)
    /\ MaxRequests \in Nat \ {0} /\ MaxCounts \in Nat \ {0}
    /\ MaxRetries \in Nat /\ MaxErrors \in Nat

VARIABLES
    state,      \* "closed", "half-open" or "open"
    requests, successes, failures, \* counts of the generation
    due,        \* its interval (closed) or its timeout (open) is over
    mutex,      \* who holds the breaker's mutex while the callback runs
    pc,         \* a user: "idle", "try", "request", "answered", "recovering",
                \* "backoff"
    fresh,      \* the request a user has in flight is of this generation
    answer,     \* what Vault said: "data", "missing" or "error"
    attempt,    \* number of the attempt of FetchSecretWithRetry
    errors      \* requests that failed

counts == <<requests, successes, failures>>
vars == <<state, counts, due, mutex, pc, fresh, answer, attempt, errors>>

InFlight == {u \in Users : fresh[u]}

BreakerTypeOK ==
    /\ state \in {"closed", "half-open", "open"}
    /\ {requests, successes, failures} \subseteq Nat
    /\ due \in BOOLEAN /\ mutex \in Users \cup {Nobody}
    /\ pc \in [Users -> {"idle", "try", "request", "answered", "recovering", "backoff"}]
    /\ fresh \in [Users -> BOOLEAN]
    /\ answer \in [Users -> {"data", "missing", "error"}]
    /\ attempt \in [Users -> 0..MaxRetries]
    /\ errors \in 0..MaxErrors

Init ==
    /\ state = "closed"
    /\ requests = 0 /\ successes = 0 /\ failures = 0
    /\ due = FALSE /\ mutex = Nobody
    /\ pc = [u \in Users |-> "idle"]
    /\ fresh = [u \in Users |-> FALSE]
    /\ answer = [u \in Users |-> "data"]
    /\ attempt = [u \in Users |-> 0]
    /\ errors = 0

-----------------------------------------------------------------------------
Goto(u, l) == pc' = [pc EXCEPT ![u] = l]

\* ReadyToTrip: three requests, of which 60% or more failed.
ReadyToTrip(r, f) == r >= 3 /\ 5 * f >= 3 * r

\* FetchSecretWithRetry is called.
Begin(u) ==
    /\ pc[u] = "idle"
    /\ Goto(u, "try")
    /\ attempt' = [attempt EXCEPT ![u] = 0]
    /\ UNCHANGED <<state, counts, due, mutex, fresh, answer, errors>>

\* Mutant of AttemptFails: the loop has no end.
AttemptFailsForever(u) ==
    /\ Goto(u, "backoff") /\ UNCHANGED attempt

\* Mutant of AttemptFails: one attempt too many.
AttemptFailsOffByOne(u) ==
    IF attempt[u] <= MaxRetries
      THEN Goto(u, "backoff") /\ attempt' = [attempt EXCEPT ![u] = @ + 1]
      ELSE Goto(u, "idle") /\ UNCHANGED attempt

\* The attempt returned an error: wait and try again, or give up.
AttemptFails(u) ==
    IF attempt[u] < MaxRetries
      THEN Goto(u, "backoff") /\ attempt' = [attempt EXCEPT ![u] = @ + 1]
      ELSE Goto(u, "idle") /\ UNCHANGED attempt

Backoff(u) ==
    /\ pc[u] = "backoff"
    /\ Goto(u, "try")
    /\ UNCHANGED <<state, counts, due, mutex, fresh, answer, attempt, errors>>

\* currentState: time has moved the breaker to a new generation.
Expired == due /\ state \in {"closed", "open"}

Expire ==
    /\ state' = IF state = "open" THEN "half-open" ELSE "closed"
    /\ requests' = 0 /\ successes' = 0 /\ failures' = 0
    /\ due' = FALSE

\* Mutant of LetIn: one probe too few.
LetInOneLess ==
    \/ state = "closed" /\ requests < MaxCounts
    \/ state = "half-open" /\ requests + 1 < MaxRequests

\* beforeRequest refuses while open, and all but MaxRequests while half-open.
LetIn ==
    \/ state = "closed" /\ requests < MaxCounts
    \/ state = "half-open" /\ requests < MaxRequests

\* Whoever takes the mutex next, before or after its request, looks at the time
\* first.
Look ==
    /\ Expired /\ mutex = Nobody
    /\ \E u \in Users : pc[u] \in {"try", "answered"}
    /\ Expire
    /\ fresh' = [v \in Users |-> FALSE]
    /\ UNCHANGED <<mutex, pc, answer, attempt, errors>>

MutexFree == mutex = Nobody /\ ~Expired

Request(u) ==
    /\ pc[u] = "try" /\ MutexFree /\ LetIn
    /\ requests' = requests + 1
    /\ fresh' = [fresh EXCEPT ![u] = TRUE]
    /\ Goto(u, "request")
    /\ UNCHANGED <<state, successes, failures, due, mutex, answer, attempt, errors>>

Refuse(u) ==
    /\ pc[u] = "try" /\ MutexFree
    /\ state # "closed" /\ ~LetIn
    /\ AttemptFails(u)
    /\ UNCHANGED <<state, counts, due, mutex, fresh, answer, errors>>

-----------------------------------------------------------------------------
\* Vault answers, or the request fails: an error of the transport or of the
\* server, a permission denied for this secret included.  A secret that is
\* missing is no error.
Answer(u, a) ==
    /\ pc[u] = "request"
    /\ IF a = "error" THEN errors < MaxErrors /\ errors' = errors + 1
                      ELSE UNCHANGED errors
    /\ answer' = [answer EXCEPT ![u] = a]
    /\ Goto(u, "answered")
    /\ UNCHANGED <<state, counts, due, mutex, fresh, attempt>>

\* FetchSecret returns to FetchSecretWithRetry.
Return(u) ==
    IF answer[u] = "data" THEN Goto(u, "idle") /\ UNCHANGED attempt
                          ELSE AttemptFails(u)

\* setState.
Enter(s) ==
    /\ state' = s
    /\ requests' = 0 /\ successes' = 0 /\ failures' = 0
    /\ due' = FALSE
    /\ fresh' = [u \in Users |-> FALSE]

\* Mutant of Stale: an answer counts whatever generation it is of.
NeverStale(u) == FALSE

\* afterRequest ignores an answer of an older generation.
Stale(u) == ~fresh[u]

AnswerIgnored(u) ==
    /\ pc[u] = "answered" /\ MutexFree /\ Stale(u)
    /\ Return(u)
    /\ UNCHANGED <<state, counts, due, mutex, fresh, answer, errors>>

\* It counts any other.
AnswerCounted(u) ==
    /\ pc[u] = "answered" /\ MutexFree /\ ~Stale(u)
    /\ IF answer[u] = "error"
         THEN failures' = failures + 1 /\ UNCHANGED successes
         ELSE successes' = successes + 1 /\ UNCHANGED failures
    /\ state = "closed" => ~ReadyToTrip(requests, failures')
    /\ state = "half-open" => answer[u] # "error" /\ successes' < MaxRequests
    /\ fresh' = [fresh EXCEPT ![u] = FALSE]
    /\ Return(u)
    /\ UNCHANGED <<state, requests, due, mutex, answer, errors>>

Trip(u) ==
    /\ pc[u] = "answered" /\ MutexFree /\ ~Stale(u) /\ answer[u] = "error"
    /\ state = "closed" => ReadyToTrip(requests, failures + 1)
    /\ Enter("open")
    /\ Return(u)
    /\ UNCHANGED <<mutex, answer, errors>>

\* Enough successes close it; the callback asks Vault for its cluster while
\* the user holds the mutex.
Close(u) ==
    /\ pc[u] = "answered" /\ MutexFree /\ ~Stale(u) /\ answer[u] # "error"
    /\ state = "half-open" /\ successes + 1 >= MaxRequests
    /\ Enter("closed")
    /\ mutex' = u /\ Goto(u, "recovering")
    /\ UNCHANGED <<answer, attempt, errors>>

\* GetClusterInfo has returned, with an error or not.
Recovered(u) ==
    /\ pc[u] = "recovering"
    /\ mutex' = Nobody
    /\ Return(u)
    /\ UNCHANGED <<state, counts, due, fresh, answer, errors>>

\* The interval or the timeout of the generation is over.
Elapse ==
    /\ ~due /\ state \in {"closed", "open"}
    /\ due' = TRUE
    /\ UNCHANGED <<state, counts, mutex, pc, fresh, answer, attempt, errors>>

Step(u) ==
    \/ Begin(u) \/ Backoff(u) \/ Request(u) \/ Refuse(u)
    \/ \E a \in {"data", "missing", "error"} : Answer(u, a)
    \/ AnswerIgnored(u) \/ AnswerCounted(u) \/ Trip(u) \/ Close(u) \/ Recovered(u)

Next == (\E u \in Users : Step(u)) \/ Look \/ Elapse

Spec == Init /\ [][Next]_vars

\* Jobs fetch again and again, requests end (by the client's timeout at last),
\* time passes, and a Go mutex does not starve a waiter: hence SF.
FairSpec == Spec /\ (\A u \in Users : SF_vars(Step(u))) /\ WF_vars(Look) /\ WF_vars(Elapse)

-----------------------------------------------------------------------------
\* The counts of a generation account for each of its requests, answered or in
\* flight, and for no other: a late answer of an older generation changes
\* neither.  While half-open at most MaxRequests are let through, and while
\* open none of that generation is in flight.
CountsAgree ==
    /\ requests = Cardinality(InFlight) + successes + failures
    /\ state = "half-open" => requests <= MaxRequests
    /\ state = "open" => requests = 0

\* The callback makes a request with the breaker's mutex held.  All the same,
\* every fetch comes to its end: nobody waits for the mutex for ever.
FetchEnds == \A u \in Users : pc[u] # "idle" ~> pc[u] = "idle"

\* When requests no longer fail the breaker closes for good, whatever answers
\* of earlier generations come in.
Recovers == <>[](state = "closed")
=============================================================================
