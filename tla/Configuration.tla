----------------------------- MODULE Configuration -----------------------------
(***************************************************************************)
(* The configuration: Load (loader.go), ExpandEnvVars and Validate         *)
(* (validator.go), and ParseMode of internal/filewriter/writer.go.  When   *)
(* the program calls them is in Converter.                                 *)
(*                                                                         *)
(* A text is a string, "" when the field is missing; Environment gives the *)
(* texts of the form ${NAME} their value.  A path is a record: how it is   *)
(* spelled ("clean", or in another way that filepath.Abs and Clean make    *)
(* clean), its directory and its basename.  A template "renders" or        *)
(* "fails".                                                                *)
(***************************************************************************)
EXTENDS Naturals, Sequences, FiniteSets

CONSTANTS
    Environment,    \* the value of each ${NAME}
    MaxSecrets      \* 100 in the code

ASSUME ConfigurationAssumption == MaxSecrets \in Nat \ {0}

\* expandEnv: only a text that is a placeholder from end to end.
ExpandEnv(text) == IF text \in DOMAIN Environment THEN Environment[text] ELSE text

\* ExpandEnvVars: fields of the store, and the namespaces of the secrets; not
\* the fields of the credential sets.
ExpandEnvVars(cfg) ==
    [cfg EXCEPT
       !.store = [f \in DOMAIN cfg.store |->
                    IF f \in {"address", "namespace", "token", "roleId", "secretId"}
                      THEN ExpandEnv(cfg.store[f])
                    ELSE IF f = "tls"
                      THEN [p \in DOMAIN cfg.store.tls |-> ExpandEnv(cfg.store.tls[p])]
                    ELSE cfg.store[f]],
       !.secrets = [i \in DOMAIN cfg.secrets |->
                    [cfg.secrets[i] EXCEPT !.namespace = ExpandEnv(@)]]]

-----------------------------------------------------------------------------
\* The same rule for the default credentials and for a named set.
CompleteCredentials(c) ==
    \/ c.authMethod = "token" /\ c.token # ""
    \/ c.authMethod = "approle" /\ c.roleId # "" /\ c.secretId # ""

\* The TLS fields name a "file", a "dir", something "missing", or something of
\* which os.Stat says neither ("unknown": a directory above it may not be
\* searched).  Only what is known to be missing is refused.
ValidTLS(tls) ==
    /\ tls.caCert # "missing"
    /\ tls.caPath \in {"", "dir"}
    /\ tls.clientCert = "" <=> tls.clientKey = ""
    /\ tls.clientCert # "missing" /\ tls.clientKey # "missing"

\* validateVaultAddress; an address is "malformed" when it is not an http or
\* https URL with a host.
ValidVaultAddress(address) == address # "malformed"

\* validateSecretStore, up to the TLS fields ...
ValidConnection(store) ==
    /\ store.address # "" /\ ValidVaultAddress(store.address)
    /\ CompleteCredentials(store)
    /\ \A name \in DOMAIN store.credentials :
         name # "" /\ CompleteCredentials(store.credentials[name])

\* ... and with them.
ValidSecretStore(store) == ValidConnection(store) /\ ValidTLS(store.tls)

\* validateSecretStore calls IsDir of what os.Stat returned for tlsCAPath, which
\* is nil after an error that does not say that there is nothing.
ValidationPanics(store) ==
    ValidConnection(store) /\ store.tls.caCert # "missing" /\ store.tls.caPath = "unknown"

Bit(n, weight) == (n \div weight) % 2 = 1

\* validateMode: not writable for others, nor for the group when others read,
\* and as a number at most 0644.
ValidMode(mode) ==
    LET perm == mode % 512 IN
    /\ ~Bit(perm, 2)
    /\ ~(Bit(perm, 16) /\ Bit(perm, 4))
    /\ perm <= 420

\* ParseMode: NoMode is the empty text, -1 what is not an octal number.
NoMode == 512
ParsesMode(mode) == mode = NoMode \/ (mode >= 0 /\ ValidMode(mode))

\* filepath.Abs and Clean.
Clean(path) == [path EXCEPT !.spelling = "clean"]

\* What validateFile makes of a file: a clean path and the default mode 0600.
Normalise(file) ==
    [file EXCEPT !.path = Clean(@), !.mode = IF @ = NoMode THEN 384 ELSE @]

\* ParseOwner; an owner or a group is "", "number" or "name".
ParsesOwner(owner) == owner \in {"", "number"}

\* validateFile.  (validateFilePath has nothing to refuse in a clean path.)
ValidFile(file) ==
    /\ file.path.base # ""
    /\ ParsesMode(file.mode)
    /\ ParsesOwner(file.owner) /\ ParsesOwner(file.group)

\* validateSecret.  It does not ask that the templates have the basenames of
\* the files, nor that they parse.
ValidSecret(store, s) ==
    /\ "" \notin {s.name, s.key, s.mountPath}
    /\ s.credentials = "" \/ s.credentials \in DOMAIN store.credentials
    /\ s.kvVersion \in {"v1", "v2"}
    /\ s.refreshInterval >= 30
    /\ DOMAIN s.templates # {}
    /\ Cardinality(DOMAIN s.templates) = Len(s.files)
    /\ \A i \in DOMAIN s.files : ValidFile(s.files[i])

\* The places of the files of a configuration.
Places(cfg) ==
    UNION {{<<i, k>> : k \in DOMAIN cfg.secrets[i].files} : i \in DOMAIN cfg.secrets}
PathAt(cfg, at) == cfg.secrets[at[1]].files[at[2]].path

\* validateNoDuplicatePaths compares the paths as they are spelled.
NoDuplicatePaths(cfg) ==
    \A a, b \in Places(cfg) : PathAt(cfg, a) = PathAt(cfg, b) => a = b

\* Validate, and what it makes of a configuration it accepts: the files are
\* normalised one by one after the paths were compared.
Validate(cfg) ==
    /\ ValidSecretStore(cfg.store)
    /\ Len(cfg.secrets) \in 1..MaxSecrets
    /\ NoDuplicatePaths(cfg)
    /\ \A i \in DOMAIN cfg.secrets : ValidSecret(cfg.store, cfg.secrets[i])

Validated(cfg) ==
    [cfg EXCEPT !.secrets = [i \in DOMAIN cfg.secrets |->
        [cfg.secrets[i] EXCEPT !.files = [k \in DOMAIN @ |-> Normalise(@[k])]]]]

\* Load.  A file that is not YAML holds no configuration.  Load returns one, or
\* an error, or panics.
Loads(file) == file.parses /\ Validate(ExpandEnvVars(file.cfg))
LoadPanics(file) == file.parses /\ ValidationPanics(ExpandEnvVars(file.cfg).store)
Loaded(file) == Validated(ExpandEnvVars(file.cfg))
=============================================================================
