------------------------------ MODULE ClientPool ------------------------------
(***************************************************************************)
(* The Vault clients the job goroutines share: the pool of                 *)
(* internal/syncer/syncer.go, the factory of main.go that fills it,        *)
(* authentication and renewal (internal/vault/auth.go) and the fetch with  *)
(* its retries (fetcher.go, retry.go).                                     *)
(*                                                                         *)
(* A syncer is a goroutine that calls SyncSecret for one secret again and  *)
(* again.  The syncers of all schedulers of a process use one pool, which  *)
(* is a plain Go map: a map operation that begins while another goroutine  *)
(* writes the map either goes through or ends the process ("concurrent map *)
(* writes").  The files of a secret are represented by the namespace their *)
(* content was read from.                                                  *)
(*                                                                         *)
(* A client that is neither pooled nor in use is reclaimed and its slot    *)
(* used again.                                                             *)
(***************************************************************************)
EXTENDS Naturals

CONSTANTS
    Syncers, CredSets,
    CredOf,         \* Secret.ResolveCredentials of each syncer's secret
    NsOf,           \* Secret.ResolveNamespace of it; NoNs is ""
    Namespaces, NoNs,
    Root,           \* the namespace a client is made with
    AppRole,        \* the credential sets whose method is approle
    DefaultSet,     \* the default credentials
    Clients,        \* slots for clients that exist at the same time
    DefaultClient,  \* the client main makes to test the connection
    NoClient, NoFile,
    MaxRetries,     \* RetryConfig.MaxRetries, 3 in the code
    MaxExpiries     \* bound on the tokens that expire

ASSUME PoolAssumption ==
    /\ CredOf \in [Syncers -> CredSets]
    /\ NsOf \in [Syncers -> Namespaces \cup {NoNs}]
    /\ NoNs \notin Namespaces /\ Root \notin Namespaces
    /\ NoFile \notin Namespaces \cup {Root}
    /\ AppRole \subseteq CredSets /\ DefaultSet \in CredSets
    /\ DefaultClient \in Clients /\ NoClient \notin Clients
    /\ MaxRetries \in Nat /\ MaxExpiries \in Nat

VARIABLES
    pool,       \* SecretSyncer.clientPool
    writing,    \* the syncers in the middle of a write of the map
    creds,      \* the credential set a client was authenticated with
    header,     \* the namespace set on a client
    token,      \* the token of a client: "none", "valid" or "expired"
    renewal,    \* the renewal goroutine of the default client: "running",
                \* "ended"
    client,     \* the client a syncer uses in its SyncSecret
    pc,         \* where it is: "idle", "login", "store", "storing", "fetch",
                \* "read"
    attempt,    \* attempt of FetchSecretWithRetry
    file,       \* the namespace the secret's files were last read from
    expiries,   \* tokens that expired
    crashed     \* the Go runtime has ended the process

clientVars == <<creds, header, token, renewal, expiries>>
vars == <<pool, writing, clientVars, client, pc, attempt, file, crashed>>

PoolTypeOK ==
    /\ pool \in [CredSets -> Clients \cup {NoClient}]
    /\ writing \subseteq Syncers
    /\ creds \in [Clients -> CredSets]
    /\ header \in [Clients -> Namespaces \cup {Root}]
    /\ token \in [Clients -> {"none", "valid", "expired"}]
    /\ renewal \in {"running", "ended"}
    /\ client \in [Syncers -> Clients \cup {NoClient}]
    /\ pc \in [Syncers -> {"idle", "login", "store", "storing", "fetch", "read"}]
    /\ attempt \in [Syncers -> 0..MaxRetries]
    /\ file \in [Syncers -> Namespaces \cup {Root, NoFile}]
    /\ expiries \in 0..MaxExpiries
    /\ crashed \in BOOLEAN

\* main has authenticated its default client, or the process would be gone,
\* and renewal runs if there is something to renew.
Init ==
    /\ pool = [c \in CredSets |-> NoClient]
    /\ writing = {}
    /\ creds = [k \in Clients |-> DefaultSet]
    /\ header = [k \in Clients |-> Root]
    /\ token = [k \in Clients |-> IF k = DefaultClient THEN "valid" ELSE "none"]
    /\ renewal = IF DefaultSet \in AppRole THEN "running" ELSE "ended"
    /\ client = [j \in Syncers |-> NoClient]
    /\ pc = [j \in Syncers |-> "idle"]
    /\ attempt = [j \in Syncers |-> 0]
    /\ file = [j \in Syncers |-> NoFile]
    /\ expiries = 0
    /\ crashed = FALSE

-----------------------------------------------------------------------------
Goto(j, l) == pc' = [pc EXCEPT ![j] = l]

\* SyncSecret returns; the client stays in the pool.
Return(j) ==
    /\ Goto(j, "idle")
    /\ client' = [client EXCEPT ![j] = NoClient]
    /\ attempt' = [attempt EXCEPT ![j] = 0]

\* A map operation meets a write of the map that is under way.
Fatal(j) ==
    /\ pc[j] \in {"idle", "store"}
    /\ writing # {}
    /\ crashed' = TRUE
    /\ UNCHANGED <<pool, writing, clientVars, client, pc, attempt, file>>

\* getOrCreateClient looks for the client of the credential set ...
Lookup(j) ==
    /\ pc[j] = "idle"
    /\ LET k == pool[CredOf[j]] IN
         /\ client' = [client EXCEPT ![j] = k]
         /\ Goto(j, IF k = NoClient THEN "login" ELSE "fetch")
    /\ UNCHANGED <<pool, writing, clientVars, attempt, file, crashed>>

FreeClient(k) ==
    /\ k # DefaultClient
    /\ \A c \in CredSets : pool[c] # k
    /\ \A j \in Syncers : client[j] # k

\* Slots have no identity of their own: any free one will do.
FreeSlot == CHOOSE k \in Clients : FreeClient(k)

\* Mutant of LoginOk: the factory uses the default credentials.
LoginDefault(j) ==
    /\ pc[j] = "login"
    /\ \E k \in Clients : FreeClient(k)
    /\ LET k == FreeSlot IN
         /\ creds' = [creds EXCEPT ![k] = DefaultSet]
         /\ header' = [header EXCEPT ![k] = Root]
         /\ token' = [token EXCEPT ![k] = "valid"]
         /\ client' = [client EXCEPT ![j] = k]
    /\ Goto(j, "store")
    /\ UNCHANGED <<pool, writing, renewal, expiries, attempt, file, crashed>>

\* ... and has the factory make and authenticate one when there is none.
LoginOk(j) ==
    /\ pc[j] = "login"
    /\ \E k \in Clients : FreeClient(k)
    /\ LET k == FreeSlot IN
         /\ creds' = [creds EXCEPT ![k] = CredOf[j]]
         /\ header' = [header EXCEPT ![k] = Root]
         /\ token' = [token EXCEPT ![k] = "valid"]
         /\ client' = [client EXCEPT ![j] = k]
    /\ Goto(j, "store")
    /\ UNCHANGED <<pool, writing, renewal, expiries, attempt, file, crashed>>

LoginFails(j) ==
    /\ pc[j] = "login"
    /\ Return(j)
    /\ UNCHANGED <<pool, writing, clientVars, file, crashed>>

\* The client is stored in the map, over the one another syncer may have
\* stored since the lookup.
StoreBegins(j) ==
    /\ pc[j] = "store"
    /\ writing' = writing \cup {j}
    /\ Goto(j, "storing")
    /\ UNCHANGED <<pool, clientVars, client, attempt, file, crashed>>

\* Mutant of StoreEnds: the new client is not cached.
StoreForgets(j) ==
    /\ pc[j] = "storing"
    /\ writing' = writing \ {j}
    /\ Goto(j, "fetch")
    /\ UNCHANGED <<pool, clientVars, client, attempt, file, crashed>>

StoreEnds(j) ==
    /\ pc[j] = "storing"
    /\ pool' = [pool EXCEPT ![CredOf[j]] = client[j]]
    /\ writing' = writing \ {j}
    /\ Goto(j, "fetch")
    /\ UNCHANGED <<clientVars, client, attempt, file, crashed>>

\* Mutant of SetNamespace: an empty namespace resets the client's.
SetNamespaceResets(j) ==
    /\ pc[j] = "fetch"
    /\ header' = [header EXCEPT ![client[j]] =
                    IF NsOf[j] = NoNs THEN Root ELSE NsOf[j]]
    /\ Goto(j, "read")
    /\ UNCHANGED <<pool, writing, creds, token, renewal, expiries, client,
                   attempt, file, crashed>>

\* FetchSecret sets the namespace, unless it is empty, on the shared client ...
SetNamespace(j) ==
    /\ pc[j] = "fetch"
    /\ header' = IF NsOf[j] = NoNs THEN header
                                   ELSE [header EXCEPT ![client[j]] = NsOf[j]]
    /\ Goto(j, "read")
    /\ UNCHANGED <<pool, writing, creds, token, renewal, expiries, client,
                   attempt, file, crashed>>

\* ... and reads with whatever is set by then; the files are written.
ReadOk(j) ==
    /\ pc[j] = "read"
    /\ token[client[j]] = "valid"
    /\ file' = [file EXCEPT ![j] = header[client[j]]]
    /\ Return(j)
    /\ UNCHANGED <<pool, writing, clientVars, crashed>>

\* Mutant of FetchFails: one attempt more than the loop allows.
FetchFailsOffByOne(j) ==
    /\ pc[j] \in {"fetch", "read"}
    /\ IF attempt[j] <= MaxRetries
         THEN /\ attempt' = [attempt EXCEPT ![j] = @ + 1]
              /\ Goto(j, "fetch") /\ UNCHANGED client
         ELSE Return(j)
    /\ UNCHANGED <<pool, writing, clientVars, file, crashed>>

\* The breaker refuses the attempt before anything is set, or the read fails:
\* another attempt after the backoff, or SyncSecret returns the error.
FetchFails(j) ==
    /\ pc[j] \in {"fetch", "read"}
    /\ IF attempt[j] < MaxRetries
         THEN /\ attempt' = [attempt EXCEPT ![j] = @ + 1]
              /\ Goto(j, "fetch") /\ UNCHANGED client
         ELSE Return(j)
    /\ UNCHANGED <<pool, writing, clientVars, file, crashed>>

-----------------------------------------------------------------------------
\* Time: a token reaches its end of life and Vault renews it no more.
Expire(k) ==
    /\ ~FreeClient(k) /\ token[k] = "valid" /\ expiries < MaxExpiries
    /\ token' = [token EXCEPT ![k] = "expired"]
    /\ expiries' = expiries + 1
    /\ UNCHANGED <<pool, writing, creds, header, renewal, client, pc, attempt,
                   file, crashed>>

\* The renewal goroutine of the default client logs in again with AppRole;
\* when that fails the goroutine returns.
Reauthenticate ==
    /\ renewal = "running" /\ token[DefaultClient] = "expired"
    /\ \/ token' = [token EXCEPT ![DefaultClient] = "valid"] /\ UNCHANGED renewal
       \/ renewal' = "ended" /\ UNCHANGED token
    /\ UNCHANGED <<pool, writing, creds, header, expiries, client, pc, attempt,
                   file, crashed>>

-----------------------------------------------------------------------------
SyncSecret(j) ==
    \/ Lookup(j) \/ LoginOk(j) \/ LoginFails(j)
    \/ StoreBegins(j) \/ StoreEnds(j)
    \/ SetNamespace(j) \/ ReadOk(j) \/ FetchFails(j)

Next ==
    /\ ~crashed
    /\ \/ \E j \in Syncers : SyncSecret(j) \/ Fatal(j)
       \/ \E k \in Clients : Expire(k)
       \/ Reauthenticate

Spec == Init /\ [][Next]_vars

\* Requests return and goroutines are scheduled.  Nothing makes a request
\* succeed.
FairSpec ==
    /\ Spec
    /\ \A j \in Syncers : WF_vars(~crashed /\ SyncSecret(j))
    /\ WF_vars(~crashed /\ Reauthenticate)

-----------------------------------------------------------------------------
Sharers(j) == {i \in Syncers : CredOf[i] = CredOf[j]}

\* Whatever the syncers that miss in the pool at the same time store over each
\* other, the pool holds under a credential set, and a syncer uses, only
\* clients authenticated with that set, and never main's default client.
RightCredentials ==
    /\ \A c \in CredSets : pool[c] # NoClient =>
          creds[pool[c]] = c /\ pool[c] # DefaultClient
    /\ \A j \in Syncers : client[j] # NoClient =>
          creds[client[j]] = CredOf[j] /\ client[j] # DefaultClient

\* The files of a secret come from a namespace that some secret with the same
\* credentials names, and from the client's own only when the secret names none.
NamespaceOfSharers ==
    \A j \in Syncers : file[j] # NoFile =>
       \/ file[j] \in {NsOf[i] : i \in Sharers(j)} \ {NoNs}
       \/ file[j] = Root /\ NsOf[j] = NoNs

\* docs/configuration.md:117 "Clients are cached and reused for efficiency":
\* although syncers race for the pool, from some point on nobody logs in.
LoginsCease == <>[][\A j \in Syncers : ~LoginOk(j)]_vars

\* The secrets that share credentials agree on their namespace.
UniformNamespaces ==
    \A i, j \in Syncers : CredOf[i] = CredOf[j] => NsOf[i] = NsOf[j]

(***************************************************************************)
(* What the documentation says and the code does not do.                   *)
(***************************************************************************)
\* docs/configuration.md:158 "Overrides global namespace": the files of a
\* secret that has a namespace come from that one.  (It holds when
\* UniformNamespaces does.)
ReadsOwnNamespace ==
    \A j \in Syncers : file[j] # NoFile =>
       file[j] = IF NsOf[j] = NoNs THEN Root ELSE NsOf[j]

PooledToken(c, t) == \E k \in Clients : pool[c] = k /\ token[k] = t

\* docs/development/ISSUE-TOKEN-RENEWAL.md:9 "automatically renews Vault tokens
\* before they expire and re-authenticates via AppRole when renewal is no
\* longer possible": a client that syncs with AppRole gets a valid token again.
TokensRenewed ==
    \A c \in AppRole :
       PooledToken(c, "expired") ~> (crashed \/ PooledToken(c, "valid"))
=============================================================================
