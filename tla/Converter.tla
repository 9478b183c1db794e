------------------------------- MODULE Converter -------------------------------
(***************************************************************************)
(* The convert command (cmd/secrets-sync/convert.go) and what becomes of   *)
(* the file it prints: an operator completes or edits it, and the service  *)
(* reads it when it starts (Load), at a SIGHUP (Load, then Validate once   *)
(* more) and in the configuration watcher (Load).                          *)
(*                                                                         *)
(* A file of manifests is Unreadable or a sequence of documents; whether   *)
(* they are the items of a List or documents of their own makes no         *)
(* difference.  A document is an ExternalSecret, of another kind, mistyped *)
(* (it is YAML, and does not decode into the struct) or broken (a syntax   *)
(* error, after which the decoder reports the error again for ever).  Only *)
(* an interval of 0 stands for none.                                       *)
(***************************************************************************)
EXTENDS Configuration, SequencesExt

CONSTANTS
    Options,        \* command lines: what the flags and the environment say
    Manifests,      \* documents a file of manifests may have
    Unreadable,     \* a file that cannot be read
    Args,           \* sequences of files of manifests
    Shape,          \* what the texts that are printed for a name are read as
    Joined,         \* the path filepath.Join makes of a secret's name and a name
    NoKey,          \* no key: the line is a comment
    FieldsOf,       \* the fields Vault holds under a key
    HandStore,      \* the store an operator adds
    Handwritten     \* configuration files an operator may put in place

\* What YAML was decoded into has all its fields.
SecretHasFields(s) ==
    /\ {"namespace", "templates", "files"} \subseteq DOMAIN s
    /\ \A k \in DOMAIN s.files :
         {"path", "mode"} \subseteq DOMAIN s.files[k] /\ "base" \in DOMAIN s.files[k].path

HasFields(cfg) ==
    /\ "secrets" \in DOMAIN cfg
    /\ \A i \in DOMAIN cfg.secrets : SecretHasFields(cfg.secrets[i])

\* A text printed between single quotes as a template gives the field when it
\* is rendered, or fails, or breaks the YAML around it.
Texts == {"renders", "fails", "breaks"}

\* convert prints a name as it stands: as the key of a line, which YAML reads as
\* it likes or refuses (yaml, key), and in a template, as {{ .name }} (dot) or
\* with index and quotes (index), if it has a hyphen or a leading dot (indexed).
NameShape ==
    /\ Shape \in [DOMAIN Shape ->
         [indexed : BOOLEAN, dot : Texts, index : {"renders", "breaks"}, yaml : BOOLEAN,
          key : {Shape[n].key : n \in DOMAIN Shape}]]
    /\ NoKey \notin DOMAIN Shape

ASSUME ConverterAssumption ==
    /\ Args \subseteq Seq(Seq(Manifests) \cup {Unreadable})
    /\ NameShape
    /\ \A key \in DOMAIN FieldsOf :
         FieldsOf[key] \subseteq DOMAIN Shape /\ IsFiniteSet(FieldsOf[key])
    /\ \A d \in Manifests :
         /\ d.dataFrom \in Seq(DOMAIN FieldsOf)
         /\ IsFiniteSet(DOMAIN d.template) /\ DOMAIN d.template \subseteq DOMAIN Shape
         /\ d.template \in [DOMAIN d.template -> {"renders", "fails"}]
         /\ \A i \in DOMAIN d.data : /\ d.data[i].secretKey \in DOMAIN Shape
                                     /\ d.data[i].property \in DOMAIN Shape \cup {""}
    /\ \A f \in Handwritten : HasFields(f.cfg)

VARIABLES
    opts, args,     \* the command line
    tool,           \* "prepare", "convert", "done" or "failed"
    vaultToken,     \* cfg.VaultToken
    queue, docs,    \* files to read; documents of the file being read
    out,            \* the entries printed so far ...
    comments,       \* ... and how many more were printed commented out
    file, from,     \* the configuration file and who wrote it last
    conf, via       \* the configuration the service took last, and when:
                    \* "start", "signal", "watcher"; "none": it is down

toolVars == <<opts, args, tool, vaultToken, queue, docs, out, comments>>
fileVars == <<file, from>>
confVars == <<conf, via>>
vars == <<toolVars, fileVars, confVars>>

NoStore == [address |-> "", namespace |-> "", authMethod |-> "", token |-> "",
            roleId |-> "", secretId |-> "", credentials |-> <<>>,
            tls |-> [caCert |-> "", caPath |-> "", clientCert |-> "", clientKey |-> ""]]
NoConf == [store |-> NoStore, secrets |-> <<>>]

Init ==
    /\ opts \in Options /\ args \in Args
    /\ tool = "prepare" /\ vaultToken = opts.token
    /\ queue = args /\ docs = <<>> /\ out = <<>> /\ comments = 0
    /\ file = [parses |-> FALSE, cfg |-> NoConf] /\ from = "none"
    /\ conf = NoConf /\ via = "none"

-----------------------------------------------------------------------------
\* runConvert, before the files: --query-vault needs an address and a token,
\* which a login with the role can give.  No file at all is an error.
NeedsLogin ==
    /\ opts.query /\ opts.token = ""
    /\ opts.roleId # "" /\ opts.secretId # ""

\* getVaultToken: a token, or an error.
LoginTokens == IF opts.addr = "" THEN {""} ELSE {"", "login"}

Prepare ==
    /\ tool = "prepare"
    /\ \E t \in IF NeedsLogin THEN LoginTokens ELSE {opts.token} :
         /\ vaultToken' = t
         /\ tool' = IF \/ args = <<>>
                       \/ opts.query /\ (opts.addr = "" \/ t = "")
                      THEN "failed" ELSE "convert"
    /\ UNCHANGED <<opts, args, queue, docs, out, comments, fileVars, confVars>>

\* convertExternalSecret reads a file; an error is reported and the next file
\* has its turn.
OpenFile ==
    /\ tool = "convert" /\ docs = <<>> /\ queue # <<>>
    /\ queue' = Tail(queue)
    /\ docs' = IF Head(queue) = Unreadable THEN <<>> ELSE Head(queue)
    /\ UNCHANGED <<opts, args, tool, vaultToken, out, comments, fileVars, confVars>>

\* A document with something to convert; any other is skipped, with or without
\* a warning.
Content(d) == d.kind = "ExternalSecret" /\ (d.dataFrom # <<>> \/ d.data # <<>>)

\* Mutant of Skips: the item that did not decode is tried once more.
SkipsButMistyped(d) == d.kind \notin {"broken", "mistyped"} /\ ~Content(d)

Skips(d) == d.kind # "broken" /\ ~Content(d)

Skip ==
    /\ tool = "convert" /\ docs # <<>> /\ Skips(Head(docs))
    /\ docs' = Tail(docs)
    /\ UNCHANGED <<opts, args, tool, vaultToken, queue, out, comments, fileVars, confVars>>

-----------------------------------------------------------------------------
\* convertSingleSecret.
SecretName(d) == IF d.target # "" THEN d.target ELSE d.name
Key(d) == IF d.dataFrom # <<>> THEN Head(d.dataFrom) ELSE Head(d.data).key
MountPath(d) ==
    IF opts.mountPath # "" THEN opts.mountPath
    ELSE IF Key(d) # "" THEN "devops" ELSE "secret"

\* Mutant of QueriedTemplate: the syntax does not depend on the name.
QueriedTemplateDotted(field) == Shape[field].dot

\* The template printed for a field of Vault: by index for a leading dot or a
\* hyphen, and {{ .name }} for every other name.
QueriedTemplate(field) ==
    IF Shape[field].indexed THEN Shape[field].index ELSE Shape[field].dot

\* filepath.Join(cfg.OutputDir, secretName, name), mode 0600.  The path is made
\* clean: its last element need not be the name.
OutputFile(d, name) ==
    LET path == Joined[SecretName(d)][name] IN
    [path |-> [spelling |-> opts.outputDir, dir |-> path.dir, base |-> path.base],
     mode |-> 384, owner |-> "", group |-> ""]

\* The lines printed for names and texts are YAML: no two have the same key.
Accepted(names, texts) ==
    /\ \A i \in DOMAIN names : Shape[names[i]].yaml /\ texts[i] # "breaks"
    /\ \A i, j \in DOMAIN names :
         (Shape[names[i]].key = Shape[names[j]].key /\ Shape[names[i]].key # NoKey) => i = j

\* The templates YAML reads in them.
TemplateData(names, texts) ==
    [k \in {Shape[names[i]].key : i \in DOMAIN names} \ {NoKey} |->
        texts[CHOOSE i \in DOMAIN names : Shape[names[i]].key = k]]

\* An entry, with what it was made of.
Entry(d, names, texts, files) ==
    [doc |-> d, names |-> names, parses |-> Accepted(names, texts),
     secret |->
       [name |-> SecretName(d), key |-> Key(d), mountPath |-> MountPath(d),
        namespace |-> "", credentials |-> "", kvVersion |-> opts.kvVersion,
        refreshInterval |-> IF d.interval = 0 THEN 1800 ELSE d.interval,
        templates |-> TemplateData(names, texts),
        files |-> [i \in DOMAIN files |-> OutputFile(d, files[i])]]]

\* dataFrom: the templates of the manifest, else the fields Vault tells of ...
Extracted(d, fields) ==
    LET given == d.template
        names == SetToSeq(IF DOMAIN given # {} THEN DOMAIN given ELSE fields)
        texts == [i \in DOMAIN names |-> IF DOMAIN given # {} THEN given[names[i]]
                                         ELSE QueriedTemplate(names[i])]
    IN Entry(d, names, texts, names)

\* ... else a placeholder without templates.
Placeholder(d) == Entry(d, <<>>, <<>>, <<"field1">>)

\* data: one template and one file for each item.
Listed(d) ==
    LET names == [i \in DOMAIN d.data |-> d.data[i].secretKey]
        texts == [i \in DOMAIN d.data |->
                    IF d.data[i].property = "" THEN "renders"
                    ELSE Shape[d.data[i].property].dot]
    IN Entry(d, names, texts, names)

\* queryVaultFields finds the fields of the key, or fails.
QueriedFields(key) == IF opts.query THEN {{}, FieldsOf[key]} ELSE {{}}

PrintEntry(e) == out' = Append(out, e) /\ UNCHANGED comments
PrintComment == comments' = comments + 1 /\ UNCHANGED out

\* The placeholder is commented out when Vault was asked and did not answer.
ConvertDataFrom(d, fields) ==
    IF DOMAIN d.template # {} \/ fields # {} THEN PrintEntry(Extracted(d, fields))
    ELSE IF opts.query THEN PrintComment ELSE PrintEntry(Placeholder(d))

ConvertSingleSecret ==
    /\ tool = "convert" /\ docs # <<>> /\ Content(Head(docs))
    /\ LET d == Head(docs) IN
       IF d.dataFrom # <<>>
         THEN \E fields \in QueriedFields(Key(d)) : ConvertDataFrom(d, fields)
         ELSE PrintEntry(Listed(d))
    /\ docs' = Tail(docs)
    /\ UNCHANGED <<opts, args, tool, vaultToken, queue, fileVars, confVars>>

\* The end of runConvert: the exit code is 0 whatever the files gave.  A store
\* was printed when Vault was queried.
PrintedStore ==
    IF ~opts.query THEN NoStore
    ELSE IF opts.roleId # "" /\ opts.secretId # ""
      THEN [NoStore EXCEPT !.address = opts.addr, !.authMethod = "approle",
                           !.roleId = "${VAULT_ROLE_ID}", !.secretId = "${VAULT_SECRET_ID}"]
      ELSE [NoStore EXCEPT !.address = opts.addr, !.authMethod = "token",
                           !.token = "${VAULT_TOKEN}"]

Printed(entries) ==
    [parses |-> \A i \in DOMAIN entries : entries[i].parses,
     cfg |-> [store |-> PrintedStore,
              secrets |-> [i \in DOMAIN entries |-> entries[i].secret]]]

Finish ==
    /\ tool = "convert" /\ docs = <<>> /\ queue = <<>>
    /\ tool' = "done" /\ file' = Printed(out) /\ from' = "convert"
    /\ UNCHANGED <<opts, args, vaultToken, queue, docs, out, comments, confVars>>

-----------------------------------------------------------------------------
\* The operator adds the store, or puts another file in place.
AddStore ==
    /\ from = "convert" /\ file.cfg.store = NoStore
    /\ file' = [file EXCEPT !.cfg.store = HandStore]
    /\ UNCHANGED <<from, toolVars, confVars>>

Edit ==
    /\ file' \in Handwritten /\ from' = "hand"
    /\ UNCHANGED <<toolVars, confVars>>

\* main: Load, or the process ends at once.
Start ==
    /\ via = "none" /\ Loads(file)
    /\ conf' = Loaded(file) /\ via' = "start"
    /\ UNCHANGED <<toolVars, fileVars>>

\* Mutant of Reload: Load is taken to be enough, as it is in the watcher.
ReloadLoadedOnly ==
    /\ via # "none" /\ Loads(file)
    /\ conf' = Loaded(file) /\ via' = "signal"
    /\ UNCHANGED <<toolVars, fileVars>>

\* main at a SIGHUP: Load, and Validate of what Load made.
Reload ==
    /\ via # "none" /\ Loads(file) /\ Validate(Loaded(file))
    /\ conf' = Validated(Loaded(file)) /\ via' = "signal"
    /\ UNCHANGED <<toolVars, fileVars>>

\* The watcher.
WatchLoad ==
    /\ via # "none" /\ Loads(file)
    /\ conf' = Loaded(file) /\ via' = "watcher"
    /\ UNCHANGED <<toolVars, fileVars>>

\* Load panics at a SIGHUP or in the watcher, which ends the process.
LoadEnds ==
    /\ via # "none" /\ LoadPanics(file)
    /\ via' = "none" /\ conf' = NoConf
    /\ UNCHANGED <<toolVars, fileVars>>

Stop ==
    /\ via # "none" /\ via' = "none" /\ conf' = NoConf
    /\ UNCHANGED <<toolVars, fileVars>>

Tool == Prepare \/ OpenFile \/ Skip \/ ConvertSingleSecret \/ Finish
Next == Tool \/ AddStore \/ Edit \/ Start \/ Reload \/ WatchLoad \/ LoadEnds \/ Stop

Spec == Init /\ [][Next]_vars

\* The command runs on until it ends.
FairSpec == Spec /\ WF_vars(Tool)

-----------------------------------------------------------------------------
\* A configuration taken at a SIGHUP has no two files of one path: the
\* comparison (validator.go:30) comes before the paths are made clean, so it
\* is the second Validate (main.go:482) that sees two spellings of one path.
ReloadedDistinct ==
    via = "signal" =>
        \A a, b \in Places(conf) : PathAt(conf, a) = PathAt(conf, b) => a = b

\* The documents with something to convert.
Documents ==
    UNION {IF args[i] = Unreadable THEN {}
           ELSE {<<i, k>> : k \in {k \in DOMAIN args[i] : Content(args[i][k])}} :
             i \in DOMAIN args}

\* What convert cannot print a template for: a name that is not the key YAML
\* reads or not the last element of the path; a property, or a field without a
\* hyphen or leading dot, that does not parse after a dot (2fa, tls.crt, a b);
\* a template of the manifest that fails.
BeyondConvert(d, name) ==
    \/ Shape[name].key # name \/ Joined[SecretName(d)][name].base # name
    \/ /\ d.dataFrom = <<>>
       /\ \E i \in DOMAIN d.data : /\ d.data[i].secretKey = name /\ d.data[i].property # ""
                                  /\ Shape[d.data[i].property].dot # "renders"
    \/ /\ d.dataFrom # <<>> /\ DOMAIN d.template = {}
       /\ ~Shape[name].indexed /\ Shape[name].dot # "renders"
    \/ d.dataFrom # <<>> /\ name \in DOMAIN d.template /\ d.template[name] = "fails"

\* No ExternalSecret with fields is lost, and what the service takes of the
\* printed file can be written: but for names beyond convert, each secret has
\* for each of its files the template of that basename, as the syncer will look
\* for it and Validate does not, and the template renders (convert.go:237).
ConvertedComplete ==
    /\ tool = "done" => Len(out) + comments = Cardinality(Documents)
    /\ (from = "convert" /\ Loads(file)) =>
         \A i \in DOMAIN Loaded(file).secrets :
            LET s == Loaded(file).secrets[i] IN
            \A k \in DOMAIN s.files :
               \/ BeyondConvert(out[i].doc, out[i].names[k])
               \/ /\ s.files[k].path.base \in DOMAIN s.templates
                  /\ s.templates[s.files[k].path.base] = "renders"

Broken == \E i \in DOMAIN args :
             /\ args[i] # Unreadable
             /\ \E k \in DOMAIN args[i] : args[i][k].kind = "broken"

\* The command ends, unless it meets a syntax error: after one the loop at
\* convert.go:180 gets the same error again and again, and continues.
ConvertEnds == ~Broken ~> tool \in {"done", "failed"}
=============================================================================
