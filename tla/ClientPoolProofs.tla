--------------------------- MODULE ClientPoolProofs ---------------------------
(***************************************************************************)
(* Proofs about ClientPool, for any syncers, credential sets, namespaces,  *)
(* clients, retries and expiries.  The invariants the runs check are not   *)
(* inductive: that a syncer reads in a namespace of its own credential set *)
(* rests on what may be set on a client (Headers), that the namespace it   *)
(* has just set is not undone by a new login (Reading), and that it holds  *)
(* a client at all (Holding).                                              *)
(***************************************************************************)
EXTENDS ClientPool, TLAPS

\* A syncer past its login holds a client.
Holding ==
    \A j \in Syncers :
       pc[j] \in {"store", "storing", "fetch", "read"} => client[j] # NoClient

\* On a client is set its first namespace or one that a secret with the
\* client's credentials names.
Headers ==
    \A k \in Clients : header[k] # Root =>
       \E i \in Syncers : CredOf[i] = creds[k] /\ NsOf[i] = header[k]

\* A syncer whose secret names a namespace reads with some namespace set.
Reading ==
    \A j \in Syncers :
       (pc[j] = "read" /\ NsOf[j] # NoNs) => header[client[j]] # Root

IndInv ==
    /\ PoolTypeOK
    /\ RightCredentials
    /\ Holding
    /\ Headers
    /\ Reading
    /\ NamespaceOfSharers

-----------------------------------------------------------------------------
\* A login takes a slot nobody refers to, and not main's.
LEMMA FreeSlotIsFree ==
  ASSUME \E k \in Clients : FreeClient(k)
  PROVE  FreeSlot \in Clients /\ FreeClient(FreeSlot)
BY DEF FreeSlot

LEMMA InitIndInv == Init => IndInv
<1> SUFFICES ASSUME Init PROVE IndInv
  OBVIOUS
<1> USE PoolAssumption
<1>1. PoolTypeOK
  <2>1. /\ pool \in [CredSets -> Clients \cup {NoClient}]
        /\ writing \subseteq Syncers
        /\ creds \in [Clients -> CredSets]
        /\ header \in [Clients -> Namespaces \cup {Root}]
    BY DEF Init
  <2>2. token \in [Clients -> {"none", "valid", "expired"}]
    <3> DEFINE t(k) == IF k = DefaultClient THEN "valid" ELSE "none"
    <3>1. token = [k \in Clients |-> t(k)]
      BY DEF Init
    <3>2. \A k \in Clients : t(k) \in {"none", "valid", "expired"}
      OBVIOUS
    <3> HIDE DEF t
    <3> QED
      BY <3>1, <3>2
  <2>3. expiries \in 0..MaxExpiries
    <3>1. expiries = 0
      BY DEF Init
    <3> QED
      BY <3>1
  <2>4. renewal \in {"running", "ended"}
    <3>1. renewal = "running" \/ renewal = "ended"
      BY Zenon DEF Init
    <3> QED
      BY <3>1
  <2>5. /\ client \in [Syncers -> Clients \cup {NoClient}]
        /\ pc \in [Syncers -> {"idle", "login", "store", "storing", "fetch", "read"}]
        /\ attempt \in [Syncers -> 0..MaxRetries]
        /\ file \in [Syncers -> Namespaces \cup {Root, NoFile}]
    BY DEF Init
  <2>6. crashed \in BOOLEAN
    BY DEF Init
  <2> QED
    BY <2>1, <2>2, <2>3, <2>4, <2>5, <2>6 DEF PoolTypeOK
<1>2. RightCredentials /\ Holding /\ Headers /\ Reading /\ NamespaceOfSharers
  BY DEF Init, RightCredentials, Holding, Headers, Reading, NamespaceOfSharers
<1> QED
  BY <1>1, <1>2 DEF IndInv

\* SyncSecret returns: its syncer is idle and holds nothing.
LEMMA ReturnTyped ==
  ASSUME PoolTypeOK, NEW j \in Syncers, Return(j)
  PROVE  /\ pc' \in [Syncers -> {"idle", "login", "store", "storing", "fetch", "read"}]
         /\ client' \in [Syncers -> Clients \cup {NoClient}]
         /\ attempt' \in [Syncers -> 0..MaxRetries]
         /\ pc'[j] = "idle" /\ client'[j] = NoClient
         /\ \A i \in Syncers \ {j} : pc'[i] = pc[i] /\ client'[i] = client[i]
BY PoolAssumption DEF Return, Goto, PoolTypeOK

LEMMA LoginPreserves ==
  ASSUME IndInv, NEW j \in Syncers, LoginOk(j)
  PROVE  IndInv'
<1> DEFINE k == FreeSlot
<1>1. k \in Clients /\ FreeClient(k)
  BY FreeSlotIsFree DEF LoginOk
<1>2. /\ creds' = [creds EXCEPT ![k] = CredOf[j]]
      /\ header' = [header EXCEPT ![k] = Root]
      /\ token' = [token EXCEPT ![k] = "valid"]
      /\ client' = [client EXCEPT ![j] = k]
      /\ pc' = [pc EXCEPT ![j] = "store"]
      /\ UNCHANGED <<pool, writing, renewal, expiries, attempt, file, crashed>>
  BY DEF LoginOk, Goto
<1> HIDE DEF k
<1> USE PoolAssumption
<1>3. PoolTypeOK'
  BY <1>1, <1>2 DEF IndInv, PoolTypeOK
<1>4. RightCredentials'
  BY <1>1, <1>2 DEF IndInv, PoolTypeOK, RightCredentials, FreeClient
<1>5. Holding'
  BY <1>1, <1>2 DEF IndInv, PoolTypeOK, Holding
<1>6. Headers'
  BY <1>1, <1>2 DEF IndInv, PoolTypeOK, Headers
<1>7. Reading'
  BY <1>1, <1>2 DEF IndInv, PoolTypeOK, Reading, FreeClient
<1>8. NamespaceOfSharers'
  BY <1>2 DEF IndInv, NamespaceOfSharers, Sharers
<1> QED
  BY <1>3, <1>4, <1>5, <1>6, <1>7, <1>8 DEF IndInv

LEMMA SetNamespacePreserves ==
  ASSUME IndInv, NEW j \in Syncers, SetNamespace(j)
  PROVE  IndInv'
<1> USE PoolAssumption
<1>1. client[j] \in Clients /\ creds[client[j]] = CredOf[j]
  BY DEF IndInv, PoolTypeOK, Holding, RightCredentials, SetNamespace
<1>2. PoolTypeOK'
  BY <1>1 DEF IndInv, PoolTypeOK, SetNamespace, Goto
<1>3. RightCredentials'
  BY DEF IndInv, RightCredentials, SetNamespace
<1>4. Holding'
  BY DEF IndInv, PoolTypeOK, Holding, SetNamespace, Goto
<1>5. Headers'
  BY <1>1 DEF IndInv, PoolTypeOK, Headers, SetNamespace
<1>6. Reading'
  <2> SUFFICES ASSUME NEW i \in Syncers, pc'[i] = "read", NsOf[i] # NoNs
               PROVE  header'[client[i]] # Root
    BY DEF Reading, SetNamespace
  <2>1. client[i] \in Clients
    BY <1>1 DEF IndInv, PoolTypeOK, Holding, SetNamespace, Goto
  <2>2. CASE i = j
    BY <2>1, <2>2 DEF IndInv, PoolTypeOK, SetNamespace
  <2>3. CASE i # j
    <3>1. header[client[i]] # Root
      BY <2>3 DEF IndInv, PoolTypeOK, Reading, SetNamespace, Goto
    <3> QED
      BY <1>1, <2>1, <3>1 DEF IndInv, PoolTypeOK, SetNamespace
  <2> QED
    BY <2>2, <2>3
<1>7. NamespaceOfSharers'
  BY DEF IndInv, NamespaceOfSharers, Sharers, SetNamespace
<1> QED
  BY <1>2, <1>3, <1>4, <1>5, <1>6, <1>7 DEF IndInv

LEMMA ReadPreserves ==
  ASSUME IndInv, NEW j \in Syncers, ReadOk(j)
  PROVE  IndInv'
<1> USE PoolAssumption
<1>1. client[j] \in Clients /\ creds[client[j]] = CredOf[j]
  BY DEF IndInv, PoolTypeOK, Holding, RightCredentials, ReadOk
<1>2. /\ file' = [file EXCEPT ![j] = header[client[j]]]
      /\ UNCHANGED <<pool, writing, creds, header, token, renewal, expiries, crashed>>
  BY DEF ReadOk, clientVars
<1>3. /\ pc' \in [Syncers -> {"idle", "login", "store", "storing", "fetch", "read"}]
      /\ client' \in [Syncers -> Clients \cup {NoClient}]
      /\ attempt' \in [Syncers -> 0..MaxRetries]
      /\ pc'[j] = "idle" /\ client'[j] = NoClient
      /\ \A i \in Syncers \ {j} : pc'[i] = pc[i] /\ client'[i] = client[i]
  BY ReturnTyped DEF IndInv, ReadOk
<1>4. PoolTypeOK'
  BY <1>1, <1>2, <1>3 DEF IndInv, PoolTypeOK
<1>5. RightCredentials' /\ Holding' /\ Reading'
  BY <1>2, <1>3 DEF IndInv, RightCredentials, Holding, Reading
<1>6. Headers'
  BY <1>2 DEF IndInv, Headers
<1>7. NamespaceOfSharers'
  <2> SUFFICES ASSUME NEW i \in Syncers, file'[i] # NoFile
               PROVE  \/ file'[i] \in {NsOf[h] : h \in Sharers(i)} \ {NoNs}
                      \/ file'[i] = Root /\ NsOf[i] = NoNs
    BY DEF NamespaceOfSharers, Sharers
  <2>1. CASE i # j
    BY <1>2, <2>1 DEF IndInv, PoolTypeOK, NamespaceOfSharers
  <2>2. CASE i = j
    <3>1. file'[j] = header[client[j]]
      BY <1>2 DEF IndInv, PoolTypeOK
    <3>2. CASE header[client[j]] = Root
      BY <2>2, <3>1, <3>2 DEF IndInv, Reading, ReadOk
    <3>3. CASE header[client[j]] # Root
      <4>1. PICK h \in Syncers : CredOf[h] = CredOf[j] /\ NsOf[h] = header[client[j]]
        BY <1>1, <3>3 DEF IndInv, Headers
      <4>2. header[client[j]] # NoNs
        BY <1>1, <3>3 DEF IndInv, PoolTypeOK
      <4> QED
        BY <2>2, <3>1, <4>1, <4>2 DEF Sharers
    <3> QED
      BY <3>2, <3>3
  <2> QED
    BY <2>1, <2>2
<1> QED
  BY <1>4, <1>5, <1>6, <1>7 DEF IndInv

\* The steps that leave clients and files alone.
LEMMA OtherStepPreserves ==
  ASSUME IndInv, NEW j \in Syncers,
         \/ Fatal(j) \/ Lookup(j) \/ LoginFails(j)
         \/ StoreBegins(j) \/ StoreEnds(j) \/ FetchFails(j)
  PROVE  IndInv'
<1> USE PoolAssumption
<1>1. UNCHANGED <<creds, header, token, renewal, expiries, file>>
  BY DEF Fatal, Lookup, LoginFails, StoreBegins, StoreEnds, FetchFails, clientVars
<1>2. Headers' /\ NamespaceOfSharers'
  BY <1>1 DEF IndInv, Headers, NamespaceOfSharers, Sharers
<1>3. CASE Fatal(j)
  BY <1>1, <1>2, <1>3
     DEF IndInv, Fatal, PoolTypeOK, RightCredentials, Holding, Reading
<1>4. CASE Lookup(j)
  <2>1. PoolTypeOK'
    BY <1>1, <1>4 DEF IndInv, Lookup, Goto, PoolTypeOK
  <2>2. RightCredentials'
    BY <1>1, <1>4 DEF IndInv, Lookup, PoolTypeOK, RightCredentials
  <2>3. Holding' /\ Reading'
    BY <1>1, <1>4 DEF IndInv, Lookup, Goto, PoolTypeOK, Holding, Reading
  <2> QED
    BY <1>2, <2>1, <2>2, <2>3 DEF IndInv
<1>5. CASE LoginFails(j) \/ (FetchFails(j) /\ Return(j))
  <2>1. /\ pc' \in [Syncers -> {"idle", "login", "store", "storing", "fetch", "read"}]
        /\ client' \in [Syncers -> Clients \cup {NoClient}]
        /\ attempt' \in [Syncers -> 0..MaxRetries]
        /\ pc'[j] = "idle" /\ client'[j] = NoClient
        /\ \A i \in Syncers \ {j} : pc'[i] = pc[i] /\ client'[i] = client[i]
    BY <1>5, ReturnTyped DEF IndInv, LoginFails
  <2>2. UNCHANGED <<pool, writing, crashed>>
    BY <1>5 DEF LoginFails, FetchFails
  <2>3. PoolTypeOK'
    BY <1>1, <2>1, <2>2 DEF IndInv, PoolTypeOK
  <2>4. RightCredentials' /\ Holding' /\ Reading'
    BY <1>1, <2>1, <2>2 DEF IndInv, RightCredentials, Holding, Reading
  <2> QED
    BY <1>2, <2>3, <2>4 DEF IndInv
<1>6. CASE StoreBegins(j)
  <2>1. PoolTypeOK'
    BY <1>1, <1>6 DEF IndInv, StoreBegins, Goto, PoolTypeOK
  <2>2. RightCredentials' /\ Holding' /\ Reading'
    BY <1>1, <1>6
       DEF IndInv, StoreBegins, Goto, PoolTypeOK, RightCredentials, Holding, Reading
  <2> QED
    BY <1>2, <2>1, <2>2 DEF IndInv
<1>7. CASE StoreEnds(j)
  <2>1. PoolTypeOK'
    BY <1>1, <1>7 DEF IndInv, StoreEnds, Goto, PoolTypeOK
  <2>2. RightCredentials'
    BY <1>1, <1>7 DEF IndInv, StoreEnds, PoolTypeOK, RightCredentials, Holding
  <2>3. Holding' /\ Reading'
    BY <1>1, <1>7 DEF IndInv, StoreEnds, Goto, PoolTypeOK, Holding, Reading
  <2> QED
    BY <1>2, <2>1, <2>2, <2>3 DEF IndInv
<1>8. CASE FetchFails(j) /\ attempt[j] < MaxRetries
  <2>1. PoolTypeOK'
    BY <1>1, <1>8 DEF IndInv, FetchFails, Goto, PoolTypeOK
  <2>2. RightCredentials' /\ Holding' /\ Reading'
    BY <1>1, <1>8
       DEF IndInv, FetchFails, Goto, PoolTypeOK, RightCredentials, Holding, Reading
  <2> QED
    BY <1>2, <2>1, <2>2 DEF IndInv
<1> QED
  BY <1>3, <1>4, <1>5, <1>6, <1>7, <1>8 DEF FetchFails

\* Tokens come and go without a trace in the invariant.
LEMMA TokenStepPreserves ==
  ASSUME IndInv, (\E k \in Clients : Expire(k)) \/ Reauthenticate
  PROVE  IndInv'
<1> USE PoolAssumption
<1>1. UNCHANGED <<pool, writing, creds, header, client, pc, attempt, file, crashed>>
  BY DEF Expire, Reauthenticate
<1>2. /\ token' \in [Clients -> {"none", "valid", "expired"}]
      /\ renewal' \in {"running", "ended"}
      /\ expiries' \in 0..MaxExpiries
  BY DEF IndInv, PoolTypeOK, Expire, Reauthenticate
<1>3. PoolTypeOK'
  BY <1>1, <1>2 DEF IndInv, PoolTypeOK
<1>4. RightCredentials' /\ Holding' /\ Headers' /\ Reading' /\ NamespaceOfSharers'
  BY <1>1 DEF IndInv, RightCredentials, Holding, Headers, Reading,
              NamespaceOfSharers, Sharers
<1> QED
  BY <1>3, <1>4 DEF IndInv

LEMMA NextIndInv == IndInv /\ [Next]_vars => IndInv'
<1> SUFFICES ASSUME IndInv, [Next]_vars PROVE IndInv'
  OBVIOUS
<1>1. CASE \E j \in Syncers : SyncSecret(j) \/ Fatal(j)
  <2>1. PICK j \in Syncers : SyncSecret(j) \/ Fatal(j)
    BY <1>1
  <2> QED
    BY <2>1, LoginPreserves, SetNamespacePreserves, ReadPreserves,
       OtherStepPreserves DEF SyncSecret
<1>2. CASE (\E k \in Clients : Expire(k)) \/ Reauthenticate
  BY <1>2, TokenStepPreserves
<1>3. CASE UNCHANGED vars
  BY <1>3 DEF IndInv, vars, clientVars, PoolTypeOK, RightCredentials, Holding,
              Headers, Reading, NamespaceOfSharers, Sharers
<1> QED
  BY <1>1, <1>2, <1>3 DEF Next

-----------------------------------------------------------------------------
\* The inductive invariant holds in every reachable state.
THEOREM Invariance == Spec => []IndInv
  BY InitIndInv, NextIndInv, PTL DEF Spec

\* The pool, the clients and the syncers are well typed.
THEOREM TypeCorrect == Spec => []PoolTypeOK
<1>1. IndInv => PoolTypeOK
  BY DEF IndInv
<1> QED
  BY <1>1, Invariance, PTL

\* getOrCreateClient hands out clients of the asked credential set only,
\* however many goroutines race for the pool.
THEOREM NeverWrongCredentials == Spec => []RightCredentials
<1>1. IndInv => RightCredentials
  BY DEF IndInv
<1> QED
  BY <1>1, Invariance, PTL

\* FetchSecret on a shared client never leaves the namespaces of the secrets
\* that share it.
THEOREM NeverForeignNamespace == Spec => []NamespaceOfSharers
<1>1. IndInv => NamespaceOfSharers
  BY DEF IndInv
<1> QED
  BY <1>1, Invariance, PTL

\* The remedy a configuration has: when the secrets that share credentials
\* agree on their namespace, every secret is read from its own.
THEOREM UniformReadsOwnNamespace ==
  ASSUME UniformNamespaces
  PROVE  Spec => []ReadsOwnNamespace
<1>1. IndInv => ReadsOwnNamespace
  BY PoolAssumption DEF IndInv, NamespaceOfSharers, Sharers, ReadsOwnNamespace,
                        UniformNamespaces
<1> QED
  BY <1>1, Invariance, PTL
=============================================================================
