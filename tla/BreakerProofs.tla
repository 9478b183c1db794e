----------------------------- MODULE BreakerProofs -----------------------------
(***************************************************************************)
(* Theorems about Breaker for every set of users, every limit of probes,   *)
(* every number of retries and every bound.                                *)
(***************************************************************************)
EXTENDS Breaker, FiniteSetTheorems, TLAPS

\* The type invariant, in the parts the proofs use.
GenerationTypeOK ==
    /\ state \in {"closed", "half-open", "open"}
    /\ requests \in Nat /\ successes \in Nat /\ failures \in Nat
    /\ mutex \in Users \cup {Nobody}
    /\ errors \in 0..MaxErrors

UserTypeOK ==
    /\ pc \in [Users -> {"idle", "try", "request", "answered", "recovering", "backoff"}]
    /\ answer \in [Users -> {"data", "missing", "error"}]
    /\ attempt \in [Users -> 0..MaxRetries]

FlagTypeOK ==
    /\ due \in BOOLEAN
    /\ fresh \in [Users -> BOOLEAN]

\* Only a request that was sent and whose answer was not yet counted is in
\* flight: a user does not send a second one before.
FreshInFlight == \A u \in Users : fresh[u] => pc[u] \in {"request", "answered"}

BreakerInv ==
    /\ GenerationTypeOK /\ UserTypeOK /\ FlagTypeOK
    /\ FreshInFlight
    /\ CountsAgree

-----------------------------------------------------------------------------
\* The requests in flight are finitely many, whoever sent them.
LEMMA InFlightFinite == IsFiniteSet(InFlight) /\ Cardinality(InFlight) \in Nat
<1>1. IsFiniteSet(InFlight)
  BY BreakerAssumption, FS_Subset DEF InFlight
<1> QED BY <1>1, FS_CardinalityType

\* Nothing is in flight at the start of a generation.
LEMMA NoneInFlight ==
    ASSUME fresh' = [u \in Users |-> FALSE]
    PROVE  Cardinality(InFlight') = 0
<1>1. InFlight' = {}
  BY DEF InFlight
<1> QED BY <1>1, FS_EmptySet

\* A generation begins with all counts at zero and nothing in flight.
LEMMA NewGeneration ==
    ASSUME requests' = 0, successes' = 0, failures' = 0,
           fresh' = [u \in Users |-> FALSE]
    PROVE  CountsAgree' /\ FreshInFlight' /\ fresh' \in [Users -> BOOLEAN]
<1>1. MaxRequests \in Nat
  BY BreakerAssumption
<1>2. Cardinality(InFlight') = 0
  BY NoneInFlight
<1>3. CountsAgree'
  BY <1>1, <1>2 DEF CountsAgree
<1>4. FreshInFlight'
  BY DEF FreshInFlight
<1> QED BY <1>3, <1>4

\* The initial state satisfies the invariant.
LEMMA BreakerInit == Init => BreakerInv
<1> SUFFICES ASSUME Init PROVE BreakerInv
  OBVIOUS
<1>0. 0 \in 0..MaxErrors /\ 0 \in 0..MaxRetries
  BY BreakerAssumption
<1>1. GenerationTypeOK /\ UserTypeOK /\ FlagTypeOK
  BY <1>0 DEF Init, GenerationTypeOK, UserTypeOK, FlagTypeOK
<1>2. FreshInFlight
  BY DEF Init, FreshInFlight
<1>3. InFlight = {}
  BY DEF Init, InFlight
<1>4. CountsAgree
  BY <1>3, FS_EmptySet DEF Init, CountsAgree
<1> QED BY <1>1, <1>2, <1>4 DEF BreakerInv

\* After an attempt a user backs off or is idle, and never exceeds its retries.
LEMMA ReturnTypes ==
    ASSUME UserTypeOK, NEW u \in Users, Return(u) \/ AttemptFails(u)
    PROVE  /\ \/ pc' = [pc EXCEPT ![u] = "idle"]
              \/ pc' = [pc EXCEPT ![u] = "backoff"]
           /\ attempt' \in [Users -> 0..MaxRetries]
<1>1. \/ Goto(u, "idle") /\ UNCHANGED attempt
      \/ /\ attempt[u] < MaxRetries
         /\ Goto(u, "backoff") /\ attempt' = [attempt EXCEPT ![u] = @ + 1]
  BY DEF Return, AttemptFails
<1>2. attempt \in [Users -> 0..MaxRetries] /\ MaxRetries \in Nat
  BY BreakerAssumption DEF UserTypeOK
<1>3. attempt[u] < MaxRetries => attempt[u] + 1 \in 0..MaxRetries
  BY <1>2
<1> QED BY <1>1, <1>2, <1>3 DEF Goto

-----------------------------------------------------------------------------
\* A request is counted when it is let in.
LEMMA RequestInv ==
    ASSUME BreakerInv, NEW u \in Users, Request(u)
    PROVE  BreakerInv'
<1>a. /\ GenerationTypeOK /\ UserTypeOK /\ FlagTypeOK /\ FreshInFlight /\ CountsAgree
  BY DEF BreakerInv
<1>b. /\ pc[u] = "try" /\ LetIn
      /\ requests' = requests + 1
      /\ fresh' = [fresh EXCEPT ![u] = TRUE]
      /\ pc' = [pc EXCEPT ![u] = "request"]
      /\ UNCHANGED <<state, successes, failures, due, mutex, answer, attempt, errors>>
  BY DEF Request, Goto
<1>1. GenerationTypeOK' /\ UserTypeOK' /\ FlagTypeOK'
  BY <1>a, <1>b DEF GenerationTypeOK, UserTypeOK, FlagTypeOK
<1>2. FreshInFlight'
  BY <1>a, <1>b DEF FreshInFlight, FlagTypeOK, UserTypeOK
<1>3. InFlight' = InFlight \cup {u} /\ u \notin InFlight
  BY <1>a, <1>b DEF InFlight, FreshInFlight, FlagTypeOK
<1>4. Cardinality(InFlight') = Cardinality(InFlight) + 1
  BY <1>3, InFlightFinite, FS_AddElement
<1>5. requests' = Cardinality(InFlight') + successes' + failures'
  BY <1>a, <1>b, <1>4, InFlightFinite DEF CountsAgree, GenerationTypeOK
<1>6. /\ state' = "half-open" => requests' <= MaxRequests
      /\ state' # "open"
  BY <1>a, <1>b, BreakerAssumption DEF LetIn, GenerationTypeOK
<1> QED BY <1>1, <1>2, <1>5, <1>6 DEF BreakerInv, CountsAgree

\* An answer of this generation moves its request from those in flight to the
\* successes or the failures.
LEMMA CountedInv ==
    ASSUME BreakerInv, NEW u \in Users, AnswerCounted(u)
    PROVE  BreakerInv'
<1>a. /\ GenerationTypeOK /\ UserTypeOK /\ FlagTypeOK /\ FreshInFlight /\ CountsAgree
  BY DEF BreakerInv
<1>b. /\ fresh[u]
      /\ \/ failures' = failures + 1 /\ successes' = successes
         \/ successes' = successes + 1 /\ failures' = failures
      /\ fresh' = [fresh EXCEPT ![u] = FALSE]
      /\ Return(u)
      /\ UNCHANGED <<state, requests, due, mutex, answer, errors>>
  BY DEF AnswerCounted, Stale
<1>1. GenerationTypeOK' /\ FlagTypeOK'
  BY <1>a, <1>b DEF GenerationTypeOK, FlagTypeOK
<1>2. UserTypeOK'
  BY <1>a, <1>b, ReturnTypes DEF UserTypeOK
<1>3. FreshInFlight'
  BY <1>a, <1>b, ReturnTypes DEF FreshInFlight, FlagTypeOK, UserTypeOK
<1>4. InFlight' = InFlight \ {u} /\ u \in InFlight
  BY <1>a, <1>b DEF InFlight, FlagTypeOK
<1>5. Cardinality(InFlight') = Cardinality(InFlight) - 1
  BY <1>4, InFlightFinite, FS_RemoveElement
<1>6. requests' = Cardinality(InFlight') + successes' + failures'
  BY <1>a, <1>b, <1>5, InFlightFinite DEF CountsAgree, GenerationTypeOK
<1> QED BY <1>a, <1>b, <1>1, <1>2, <1>3, <1>6 DEF BreakerInv, CountsAgree

\* Tripping, and closing after enough successes, start a new generation.
LEMMA EnterInv ==
    ASSUME BreakerInv, NEW u \in Users, Trip(u) \/ Close(u)
    PROVE  BreakerInv'
<1>a. GenerationTypeOK /\ UserTypeOK
  BY DEF BreakerInv
<1>1. /\ state' \in {"open", "closed"} /\ due' = FALSE
      /\ requests' = 0 /\ successes' = 0 /\ failures' = 0
      /\ fresh' = [v \in Users |-> FALSE]
  BY DEF Trip, Close, Enter
<1>2. CountsAgree' /\ FreshInFlight' /\ FlagTypeOK'
  BY <1>1, NewGeneration DEF FlagTypeOK
<1>3. GenerationTypeOK'
  BY <1>a, <1>1 DEF Trip, Close, GenerationTypeOK
<1>4. UserTypeOK'
  <2>1. CASE Trip(u)
    BY <2>1, <1>a, ReturnTypes DEF Trip, UserTypeOK
  <2>2. CASE Close(u)
    BY <2>2, <1>a DEF Close, Goto, UserTypeOK
  <2> QED BY <2>1, <2>2
<1> QED BY <1>2, <1>3, <1>4 DEF BreakerInv

\* The steps of a user that touch no count: a user that had a request in
\* flight still has it, for an answer of an older generation is not in flight.
LEMMA UncountedInv ==
    ASSUME BreakerInv, NEW u \in Users,
           \/ Begin(u) \/ Backoff(u) \/ Refuse(u)
           \/ \E a \in {"data", "missing", "error"} : Answer(u, a)
           \/ AnswerIgnored(u) \/ Recovered(u)
    PROVE  BreakerInv'
<1>a. /\ GenerationTypeOK /\ UserTypeOK /\ FlagTypeOK /\ FreshInFlight /\ CountsAgree
  BY DEF BreakerInv
<1>1. UNCHANGED <<state, counts, due, fresh>>
  BY DEF Begin, Backoff, Refuse, Answer, AnswerIgnored, Recovered
<1>2. CountsAgree' /\ FlagTypeOK'
  BY <1>a, <1>1 DEF counts, CountsAgree, InFlight, FlagTypeOK
<1>3. CASE Begin(u) \/ Backoff(u)
  <2>1. GenerationTypeOK'
    BY <1>a, <1>3 DEF Begin, Backoff, counts, GenerationTypeOK
  <2>2. UserTypeOK' /\ FreshInFlight'
    BY <1>a, <1>3, BreakerAssumption
       DEF Begin, Backoff, Goto, UserTypeOK, FreshInFlight
  <2> QED BY <2>1, <2>2, <1>2 DEF BreakerInv
<1>4. ASSUME NEW a \in {"data", "missing", "error"}, Answer(u, a) PROVE BreakerInv'
  <2>1. GenerationTypeOK'
    BY <1>a, <1>4, BreakerAssumption DEF Answer, counts, GenerationTypeOK
  <2>2. UserTypeOK' /\ FreshInFlight'
    BY <1>a, <1>4 DEF Answer, Goto, UserTypeOK, FreshInFlight
  <2> QED BY <2>1, <2>2, <1>2 DEF BreakerInv
<1>5. CASE Refuse(u) \/ AnswerIgnored(u) \/ Recovered(u)
  <2>1. GenerationTypeOK'
    BY <1>a, <1>5 DEF Refuse, AnswerIgnored, Recovered, counts, GenerationTypeOK
  <2>2. /\ Return(u) \/ AttemptFails(u)
        /\ UNCHANGED <<fresh, answer>> /\ ~fresh[u]
    BY <1>a, <1>5 DEF Refuse, AnswerIgnored, Recovered, Stale, FreshInFlight
  <2>3. UserTypeOK'
    BY <1>a, <2>2, ReturnTypes DEF UserTypeOK
  <2>4. FreshInFlight'
    BY <1>a, <2>2, ReturnTypes DEF FreshInFlight, UserTypeOK
  <2> QED BY <2>1, <2>3, <2>4, <1>2 DEF BreakerInv
<1> QED BY <1>3, <1>4, <1>5

\* Time moves the breaker to a new generation, or marks that it is over.
LEMMA TimeInv ==
    ASSUME BreakerInv, Look \/ Elapse
    PROVE  BreakerInv'
<1>a. /\ GenerationTypeOK /\ UserTypeOK /\ FlagTypeOK /\ FreshInFlight /\ CountsAgree
  BY DEF BreakerInv
<1>1. CASE Look
  <2>1. CountsAgree' /\ FreshInFlight' /\ FlagTypeOK'
    BY <1>1, NewGeneration DEF Look, Expire, FlagTypeOK
  <2>2. GenerationTypeOK' /\ UserTypeOK'
    BY <1>a, <1>1 DEF Look, Expire, GenerationTypeOK, UserTypeOK
  <2> QED BY <2>1, <2>2 DEF BreakerInv
<1>2. CASE Elapse
  <2>1. CountsAgree' /\ FreshInFlight' /\ FlagTypeOK'
    BY <1>a, <1>2 DEF Elapse, counts, CountsAgree, InFlight, FreshInFlight, FlagTypeOK
  <2>2. GenerationTypeOK' /\ UserTypeOK'
    BY <1>a, <1>2 DEF Elapse, counts, GenerationTypeOK, UserTypeOK
  <2> QED BY <2>1, <2>2 DEF BreakerInv
<1> QED BY <1>1, <1>2

-----------------------------------------------------------------------------
\* The invariant is inductive.
LEMMA BreakerNext == BreakerInv /\ [Next]_vars => BreakerInv'
<1> SUFFICES ASSUME BreakerInv, [Next]_vars PROVE BreakerInv'
  OBVIOUS
<1>1. ASSUME NEW u \in Users, Step(u) PROVE BreakerInv'
  BY <1>1, RequestInv, CountedInv, EnterInv, UncountedInv DEF Step
<1>2. CASE Look \/ Elapse
  BY <1>2, TimeInv
<1>3. CASE UNCHANGED vars
  BY <1>3 DEF vars, counts, BreakerInv, GenerationTypeOK, UserTypeOK, FlagTypeOK,
     FreshInFlight, CountsAgree, InFlight
<1> QED BY <1>1, <1>2, <1>3 DEF Next

\* Every reachable state of the breaker satisfies the invariant.
THEOREM BreakerInvariance == Spec => []BreakerInv
<1>1. Init => BreakerInv
  BY BreakerInit
<1>2. BreakerInv /\ [Next]_vars => BreakerInv'
  BY BreakerNext
<1> QED BY <1>1, <1>2, PTL DEF Spec

\* The breaker and its users keep their types: no count becomes negative and
\* no user makes more attempts than its retries allow.
THEOREM BreakerTypeCorrect == Spec => []BreakerTypeOK
<1>1. BreakerInv => BreakerTypeOK
  <2> SUFFICES ASSUME BreakerInv PROVE BreakerTypeOK
    OBVIOUS
  <2>1. GenerationTypeOK /\ UserTypeOK /\ FlagTypeOK
    BY DEF BreakerInv
  <2>2. {requests, successes, failures} \subseteq Nat
    BY <2>1 DEF GenerationTypeOK
  <2> QED BY <2>1, <2>2, Zenon
          DEF BreakerTypeOK, GenerationTypeOK, UserTypeOK, FlagTypeOK
<1> QED BY <1>1, BreakerInvariance, PTL

\* The counts account for each request of the generation, answered or in
\* flight, and for no other: late answers of older generations count nowhere.
\* At most MaxRequests probes are let through while half-open, and none of the
\* generation is in flight while open.
THEOREM CountsAlwaysAgree == Spec => []CountsAgree
<1>1. BreakerInv => CountsAgree
  BY DEF BreakerInv
<1> QED BY <1>1, BreakerInvariance, PTL
=============================================================================
