--------------------------- MODULE ConverterProofs ---------------------------
(***************************************************************************)
(* Theorems about Converter for any command lines, manifests, fields in    *)
(* Vault and files of an operator.                                         *)
(***************************************************************************)
EXTENDS Converter, FiniteSetTheorems, SequenceTheorems, TLAPS

\* The file being read, and the document of it the command is at.
AtFile == Len(args) - Len(queue)
AtDoc == Len(args[AtFile]) - Len(docs) + 1

\* The files and the documents yet to read are the last ones of what the
\* command line names.
QueueOK ==
    /\ args \in Seq(Seq(Manifests) \cup {Unreadable})
    /\ queue \in Seq(Seq(Manifests) \cup {Unreadable})
    /\ Len(queue) <= Len(args)
    /\ \A j \in 1..Len(queue) : queue[j] = args[AtFile + j]

DocsOK ==
    /\ docs \in Seq(Manifests)
    /\ docs # <<>> =>
         /\ AtFile >= 1
         /\ args[AtFile] # Unreadable
         /\ args[AtFile] \in Seq(Manifests)
         /\ Len(docs) <= Len(args[AtFile])
         /\ \A j \in 1..Len(docs) : docs[j] = args[AtFile][AtDoc - 1 + j]

\* The documents with something to convert that were read already.
Done == {at \in Documents :
           at[1] < AtFile \/ (at[1] = AtFile /\ (docs = <<>> \/ at[2] < AtDoc))}

\* Each of them was printed, live or commented out.
CountOK ==
    /\ comments \in Nat
    /\ IsFiniteSet(Done)
    /\ Len(out) + comments = Cardinality(Done)

DoneAtEnd == tool = "done" => queue = <<>> /\ docs = <<>>

\* An entry that YAML accepts has the templates of its files but for what is
\* beyond convert, and they render; or it has none, and Validate refuses it.
FilesHaveTemplates(e) ==
    e.parses /\ DOMAIN e.secret.templates # {} =>
       \A k \in DOMAIN e.secret.files :
          \/ BeyondConvert(e.doc, e.names[k])
          \/ /\ e.secret.files[k].path.base \in DOMAIN e.secret.templates
             /\ e.secret.templates[e.secret.files[k].path.base] = "renders"

OutOK ==
    /\ out \in Seq({out[i] : i \in DOMAIN out})
    /\ \A i \in DOMAIN out : SecretHasFields(out[i].secret) /\ FilesHaveTemplates(out[i])

\* What was printed stays the file, until an operator puts another in place.
FileOK ==
    /\ HasFields(file.cfg)
    /\ from = "convert" =>
         /\ tool = "done"
         /\ {"cfg", "parses"} \subseteq DOMAIN file
         /\ DOMAIN file.cfg.secrets = DOMAIN out
         /\ \A i \in DOMAIN out : /\ file.cfg.secrets[i] = out[i].secret
                                  /\ file.parses => out[i].parses

ConverterInv ==
    /\ QueueOK
    /\ DocsOK
    /\ CountOK
    /\ DoneAtEnd
    /\ OutOK
    /\ FileOK
    /\ ReloadedDistinct

-----------------------------------------------------------------------------
\* A path made clean is one that Clean leaves alone, and keeps its basename.
LEMMA CleanTwice ==
    ASSUME NEW p
    PROVE  /\ Clean(Clean(p)) = Clean(p)
           /\ "base" \in DOMAIN p =>
                "base" \in DOMAIN Clean(p) /\ Clean(p).base = p.base
<1>1. DOMAIN Clean(p) = DOMAIN p
  BY DEF Clean
<1>2. \A x \in DOMAIN p : Clean(p)[x] = IF x = "spelling" THEN "clean" ELSE p[x]
  BY DEF Clean
<1>3. Clean(Clean(p)) = Clean(p)
  BY DEF Clean
<1> QED
  BY <1>1, <1>2, <1>3

\* Normalise makes the path clean and leaves the fields of the file.
LEMMA NormalisedFields ==
    ASSUME NEW f, {"path", "mode"} \subseteq DOMAIN f, "base" \in DOMAIN f.path
    PROVE  /\ {"path", "mode"} \subseteq DOMAIN Normalise(f)
           /\ Normalise(f).path = Clean(f.path)
           /\ "base" \in DOMAIN Normalise(f).path
           /\ Normalise(f).path.base = f.path.base
<1>1. /\ DOMAIN Normalise(f) = DOMAIN f
      /\ Normalise(f).path = Clean(f.path)
  BY DEF Normalise
<1> QED
  BY <1>1, CleanTwice

\* ExpandEnvVars leaves the files and the templates of the secrets.
LEMMA ExpandedSecrets ==
    ASSUME NEW cfg, HasFields(cfg)
    PROVE  /\ HasFields(ExpandEnvVars(cfg))
           /\ DOMAIN ExpandEnvVars(cfg).secrets = DOMAIN cfg.secrets
           /\ \A i \in DOMAIN cfg.secrets :
                /\ ExpandEnvVars(cfg).secrets[i].files = cfg.secrets[i].files
                /\ ExpandEnvVars(cfg).secrets[i].templates = cfg.secrets[i].templates
<1> DEFINE E == ExpandEnvVars(cfg)
           Step(s) == [s EXCEPT !.namespace = ExpandEnv(@)]
<1>1. /\ "secrets" \in DOMAIN E
      /\ E.secrets = [i \in DOMAIN cfg.secrets |-> Step(cfg.secrets[i])]
  BY DEF HasFields, ExpandEnvVars
<1>2. ASSUME NEW i \in DOMAIN cfg.secrets
      PROVE  /\ E.secrets[i].files = cfg.secrets[i].files
             /\ E.secrets[i].templates = cfg.secrets[i].templates
             /\ SecretHasFields(E.secrets[i])
  <2> DEFINE s == cfg.secrets[i]
  <2>1. SecretHasFields(s)
    BY DEF HasFields
  <2>2. DOMAIN Step(s) = DOMAIN s /\ Step(s).files = s.files /\ Step(s).templates = s.templates
    BY <2>1 DEF SecretHasFields
  <2>3. E.secrets[i] = Step(s)
    BY <1>1
  <2> QED
    BY <2>1, <2>2, <2>3 DEF SecretHasFields
<1> QED
  BY <1>1, <1>2 DEF HasFields

\* A secret whose files are normalised keeps its templates, the number of the
\* files and their basenames, and has clean paths.
LEMMA NormalisedFiles ==
    ASSUME NEW s, SecretHasFields(s),
           NEW t,
           DOMAIN t = DOMAIN s,
           t.templates = s.templates,
           t.files = [k \in DOMAIN s.files |-> Normalise(s.files[k])]
    PROVE  /\ SecretHasFields(t)
           /\ t.templates = s.templates
           /\ DOMAIN t.files = DOMAIN s.files
           /\ \A k \in DOMAIN s.files :
                /\ t.files[k].path = Clean(s.files[k].path)
                /\ t.files[k].path.base = s.files[k].path.base
<1>2. ASSUME NEW k \in DOMAIN s.files
      PROVE  /\ t.files[k].path = Clean(s.files[k].path)
             /\ t.files[k].path.base = s.files[k].path.base
             /\ {"path", "mode"} \subseteq DOMAIN t.files[k]
             /\ "base" \in DOMAIN t.files[k].path
  <2>1. {"path", "mode"} \subseteq DOMAIN s.files[k] /\ "base" \in DOMAIN s.files[k].path
    BY DEF SecretHasFields
  <2>2. t.files[k] = Normalise(s.files[k])
    OBVIOUS
  <2> QED
    BY <2>1, <2>2, NormalisedFields
<1>3. DOMAIN t.files = DOMAIN s.files
  OBVIOUS
<1> QED
  BY <1>2, <1>3 DEF SecretHasFields

\* What Validate makes of a configuration keeps the templates, the places of
\* the files and their basenames, and has clean paths.
LEMMA ValidatedSecrets ==
    ASSUME NEW cfg, HasFields(cfg)
    PROVE  /\ HasFields(Validated(cfg))
           /\ DOMAIN Validated(cfg).secrets = DOMAIN cfg.secrets
           /\ \A i \in DOMAIN cfg.secrets :
                /\ Validated(cfg).secrets[i].templates = cfg.secrets[i].templates
                /\ DOMAIN Validated(cfg).secrets[i].files = DOMAIN cfg.secrets[i].files
                /\ \A k \in DOMAIN cfg.secrets[i].files :
                     /\ Validated(cfg).secrets[i].files[k].path
                          = Clean(cfg.secrets[i].files[k].path)
                     /\ Validated(cfg).secrets[i].files[k].path.base
                          = cfg.secrets[i].files[k].path.base
<1>1. /\ "secrets" \in DOMAIN Validated(cfg)
      /\ DOMAIN Validated(cfg).secrets = DOMAIN cfg.secrets
      /\ \A i \in DOMAIN cfg.secrets :
           Validated(cfg).secrets[i] =
             [cfg.secrets[i] EXCEPT
                !.files = [k \in DOMAIN cfg.secrets[i].files |->
                             Normalise(cfg.secrets[i].files[k])]]
  BY DEF HasFields, Validated
<1>2. ASSUME NEW i \in DOMAIN cfg.secrets
      PROVE  /\ SecretHasFields(Validated(cfg).secrets[i])
             /\ Validated(cfg).secrets[i].templates = cfg.secrets[i].templates
             /\ DOMAIN Validated(cfg).secrets[i].files = DOMAIN cfg.secrets[i].files
             /\ \A k \in DOMAIN cfg.secrets[i].files :
                  /\ Validated(cfg).secrets[i].files[k].path
                       = Clean(cfg.secrets[i].files[k].path)
                  /\ Validated(cfg).secrets[i].files[k].path.base
                       = cfg.secrets[i].files[k].path.base
  <2> DEFINE s == cfg.secrets[i]
             t == Validated(cfg).secrets[i]
  <2>1. SecretHasFields(s)
    BY DEF HasFields
  <2>2. /\ DOMAIN t = DOMAIN s
        /\ t.templates = s.templates
        /\ t.files = [k \in DOMAIN s.files |-> Normalise(s.files[k])]
    BY <1>1, <2>1 DEF SecretHasFields
  <2> HIDE DEF s, t
  <2>3. /\ SecretHasFields(t)
        /\ t.templates = s.templates
        /\ DOMAIN t.files = DOMAIN s.files
        /\ \A k \in DOMAIN s.files :
             /\ t.files[k].path = Clean(s.files[k].path)
             /\ t.files[k].path.base = s.files[k].path.base
    BY <2>1, <2>2, NormalisedFiles
  <2> QED
    BY <2>3 DEF s, t
<1> QED
  BY <1>1, <1>2 DEF HasFields

\* A second Validate sees the paths as it leaves them: what it accepts has no
\* two files of one path.
LEMMA RevalidatedDistinct ==
    ASSUME NEW cfg, HasFields(cfg), NoDuplicatePaths(Validated(cfg))
    PROVE  \A a, b \in Places(Validated(Validated(cfg))) :
              PathAt(Validated(Validated(cfg)), a) = PathAt(Validated(Validated(cfg)), b)
                => a = b
<1> DEFINE V == Validated(cfg)
           W == Validated(V)
<1>1. HasFields(V)
  BY ValidatedSecrets
<1>2. /\ DOMAIN V.secrets = DOMAIN cfg.secrets
      /\ \A i \in DOMAIN cfg.secrets :
           /\ DOMAIN V.secrets[i].files = DOMAIN cfg.secrets[i].files
           /\ \A k \in DOMAIN cfg.secrets[i].files :
                V.secrets[i].files[k].path = Clean(cfg.secrets[i].files[k].path)
  BY ValidatedSecrets
<1>3. /\ DOMAIN W.secrets = DOMAIN V.secrets
      /\ \A i \in DOMAIN V.secrets :
           /\ DOMAIN W.secrets[i].files = DOMAIN V.secrets[i].files
           /\ \A k \in DOMAIN V.secrets[i].files :
                W.secrets[i].files[k].path = Clean(V.secrets[i].files[k].path)
  BY <1>1, ValidatedSecrets
<1> HIDE DEF V, W
<1>4. ASSUME NEW a \in Places(W)
      PROVE  a \in Places(V) /\ PathAt(W, a) = PathAt(V, a)
  <2>0. PICK i \in DOMAIN W.secrets : \E k \in DOMAIN W.secrets[i].files : a = <<i, k>>
    BY DEF Places
  <2>1. PICK k \in DOMAIN W.secrets[i].files : a = <<i, k>>
    BY <2>0
  <2>2. i \in DOMAIN V.secrets /\ k \in DOMAIN V.secrets[i].files
    BY <1>3
  <2>3. W.secrets[i].files[k].path = V.secrets[i].files[k].path
    BY <1>2, <1>3, <2>2, CleanTwice
  <2> QED
    BY <2>1, <2>2, <2>3 DEF Places, PathAt
<1>5. NoDuplicatePaths(V)
  BY DEF V
<1>6. \A a, b \in Places(W) : PathAt(W, a) = PathAt(W, b) => a = b
  BY <1>4, <1>5 DEF NoDuplicatePaths
<1> QED
  BY <1>6 DEF V, W

-----------------------------------------------------------------------------
\* A document with something to convert, and where it is.
LEMMA DocumentsMember ==
    ASSUME NEW at
    PROVE  at \in Documents <=>
             \E i \in DOMAIN args :
                /\ args[i] # Unreadable
                /\ \E k \in DOMAIN args[i] : Content(args[i][k]) /\ at = <<i, k>>
BY DEF Documents

\* SetToSeq lists the members of a finite set.
LEMMA SetToSeqMembers ==
    ASSUME NEW S, IsFiniteSet(S)
    PROVE  SetToSeq(S) \in [1..Cardinality(S) -> S]
<1>1. \E f \in [1..Cardinality(S) -> S] : IsInjective(f)
  BY FS_CardinalityType DEF ExistsBijection, Bijection, Injection, IsInjective
<1> QED
  BY <1>1 DEF SetToSeq

\* An entry has the fields of a secret, and what it was made of.
LEMMA EntryFields ==
    ASSUME NEW d, NEW names, NEW texts, NEW files
    PROVE  LET e == Entry(d, names, texts, files) IN
           /\ e.doc = d /\ e.names = names /\ e.parses = Accepted(names, texts)
           /\ SecretHasFields(e.secret)
           /\ e.secret.templates = TemplateData(names, texts)
           /\ DOMAIN e.secret.files = DOMAIN files
           /\ \A k \in DOMAIN files :
                e.secret.files[k].path.base = Joined[SecretName(d)][files[k]].base
BY DEF Entry, OutputFile, SecretHasFields

\* In lines that YAML accepts, a name that is its key has the text that was
\* printed for it.
LEMMA AcceptedTemplate ==
    ASSUME NEW names, NEW texts, Accepted(names, texts),
           NEW k \in DOMAIN names, Shape[names[k]].key = names[k], names[k] # NoKey
    PROVE  /\ names[k] \in DOMAIN TemplateData(names, texts)
           /\ TemplateData(names, texts)[names[k]] = texts[k]
<1> DEFINE i == CHOOSE i \in DOMAIN names : Shape[names[i]].key = names[k]
<1>1. i \in DOMAIN names /\ Shape[names[i]].key = names[k]
  OBVIOUS
<1>2. names[k] \in DOMAIN TemplateData(names, texts)
  BY DEF TemplateData
<1>3. TemplateData(names, texts)[names[k]] = texts[i]
  BY <1>2 DEF TemplateData
<1> HIDE DEF i
<1>4. i = k
  BY <1>1 DEF Accepted
<1> QED
  BY <1>2, <1>3, <1>4

\* An entry with one file for each name has the templates of its files, when
\* the text of a name that is not beyond convert renders or is no YAML.
LEMMA EntryComplete ==
    ASSUME NEW d, NEW names, NEW texts,
           \A k \in DOMAIN names :
              \/ BeyondConvert(d, names[k])
              \/ names[k] \in DOMAIN Shape /\ texts[k] \in {"renders", "breaks"}
    PROVE  FilesHaveTemplates(Entry(d, names, texts, names))
<1> DEFINE e == Entry(d, names, texts, names)
<1>1. /\ e.doc = d /\ e.names = names /\ e.parses = Accepted(names, texts)
      /\ e.secret.templates = TemplateData(names, texts)
      /\ DOMAIN e.secret.files = DOMAIN names
      /\ \A k \in DOMAIN names :
           e.secret.files[k].path.base = Joined[SecretName(d)][names[k]].base
  BY EntryFields
<1> HIDE DEF e
<1>2. ASSUME Accepted(names, texts), NEW k \in DOMAIN names, ~BeyondConvert(d, names[k])
      PROVE  /\ Joined[SecretName(d)][names[k]].base \in DOMAIN TemplateData(names, texts)
             /\ TemplateData(names, texts)[Joined[SecretName(d)][names[k]].base] = "renders"
  <2>1. Shape[names[k]].key = names[k] /\ Joined[SecretName(d)][names[k]].base = names[k]
    BY <1>2 DEF BeyondConvert
  <2>2. names[k] # NoKey
    BY <1>2, ConverterAssumption DEF ConverterAssumption, NameShape
  <2>3. /\ names[k] \in DOMAIN TemplateData(names, texts)
        /\ TemplateData(names, texts)[names[k]] = texts[k]
    BY <1>2, <2>1, <2>2, AcceptedTemplate
  <2>4. texts[k] = "renders"
    BY <1>2 DEF Accepted
  <2> QED
    BY <2>1, <2>3, <2>4
<1>3. FilesHaveTemplates(e)
  BY <1>1, <1>2 DEF FilesHaveTemplates
<1> QED
  BY <1>3 DEF e

\* What is printed for an item with dataFrom: from its templates or the fields
\* of Vault ...
LEMMA ExtractedComplete ==
    ASSUME NEW d \in Manifests, d.dataFrom # <<>>,
           NEW fields \in QueriedFields(Key(d)), DOMAIN d.template # {} \/ fields # {}
    PROVE  /\ SecretHasFields(Extracted(d, fields).secret)
           /\ FilesHaveTemplates(Extracted(d, fields))
<1> DEFINE given == d.template
           source == IF DOMAIN given # {} THEN DOMAIN given ELSE fields
           names == SetToSeq(source)
           texts == [i \in DOMAIN names |-> IF DOMAIN given # {} THEN given[names[i]]
                                            ELSE QueriedTemplate(names[i])]
<1>1. Extracted(d, fields) = Entry(d, names, texts, names)
  BY DEF Extracted
<1>2. IsFiniteSet(fields) /\ fields \subseteq DOMAIN Shape
  <2>1. d.dataFrom \in Seq(DOMAIN FieldsOf)
    BY ConverterAssumption DEF ConverterAssumption
  <2>2. Key(d) = Head(d.dataFrom)
    BY DEF Key
  <2>3. Key(d) \in DOMAIN FieldsOf
    BY <2>1, <2>2, HeadTailProperties
  <2>4. fields = {} \/ fields = FieldsOf[Key(d)]
    BY DEF QueriedFields
  <2>5. \A key \in DOMAIN FieldsOf :
           FieldsOf[key] \subseteq DOMAIN Shape /\ IsFiniteSet(FieldsOf[key])
    BY ConverterAssumption DEF ConverterAssumption
  <2> QED
    BY <2>3, <2>4, <2>5, FS_EmptySet
<1>3. /\ IsFiniteSet(DOMAIN given) /\ DOMAIN given \subseteq DOMAIN Shape
      /\ \A n \in DOMAIN given : given[n] \in {"renders", "fails"}
  BY ConverterAssumption DEF ConverterAssumption
<1>4. names \in [1..Cardinality(source) -> source]
  <2>1. IsFiniteSet(source)
    BY <1>2, <1>3
  <2> HIDE DEF source
  <2> QED
    BY <2>1, SetToSeqMembers
<1>5. \A k \in DOMAIN names :
         names[k] \in source
         /\ texts[k] = IF DOMAIN given # {} THEN given[names[k]] ELSE QueriedTemplate(names[k])
  <2> HIDE DEF source
  <2>1. \A k \in DOMAIN names : names[k] \in source
    <3> HIDE DEF names
    <3> QED
      BY <1>4
  <2> QED
    BY <2>1
<1> HIDE DEF names, texts
<1>6. ASSUME NEW k \in DOMAIN names
      PROVE  \/ BeyondConvert(d, names[k])
             \/ names[k] \in DOMAIN Shape /\ texts[k] \in {"renders", "breaks"}
  <2>1. CASE DOMAIN given # {}
    <3>1. names[k] \in DOMAIN given /\ texts[k] = given[names[k]]
      BY <1>5, <2>1
    <3>2. names[k] \in DOMAIN Shape /\ given[names[k]] \in {"renders", "fails"}
      BY <1>3, <3>1
    <3>3. given[names[k]] = "fails" => BeyondConvert(d, names[k])
      BY <3>1 DEF BeyondConvert
    <3> QED
      BY <3>1, <3>2, <3>3
  <2>2. CASE DOMAIN given = {}
    <3>1. names[k] \in DOMAIN Shape /\ texts[k] = QueriedTemplate(names[k])
      BY <1>2, <1>5, <2>2
    <3>2. /\ Shape[names[k]].indexed \in BOOLEAN
          /\ Shape[names[k]].dot \in Texts
          /\ Shape[names[k]].index \in {"renders", "breaks"}
      BY <3>1, ConverterAssumption DEF ConverterAssumption, NameShape
    <3>3. CASE Shape[names[k]].indexed
      BY <3>1, <3>2, <3>3 DEF QueriedTemplate
    <3>4. CASE ~Shape[names[k]].indexed
      <4>1. texts[k] = Shape[names[k]].dot
        BY <3>1, <3>4 DEF QueriedTemplate
      <4>2. Shape[names[k]].dot # "renders" => BeyondConvert(d, names[k])
        BY <2>2, <3>4 DEF BeyondConvert
      <4> QED
        BY <3>1, <4>1, <4>2
    <3> QED
      BY <3>3, <3>4
  <2> QED
    BY <2>1, <2>2
<1>7. FilesHaveTemplates(Entry(d, names, texts, names))
  BY <1>6, EntryComplete
<1>8. SecretHasFields(Entry(d, names, texts, names).secret)
  BY EntryFields
<1> QED
  BY <1>1, <1>7, <1>8

\* ... or a placeholder without templates.
LEMMA PlaceholderComplete ==
    ASSUME NEW d
    PROVE  /\ SecretHasFields(Placeholder(d).secret)
           /\ FilesHaveTemplates(Placeholder(d))
<1> DEFINE e == Entry(d, <<>>, <<>>, <<"field1">>)
<1>1. SecretHasFields(e.secret) /\ e.secret.templates = TemplateData(<<>>, <<>>)
  BY EntryFields
<1>2. DOMAIN TemplateData(<<>>, <<>>) = {}
  BY DEF TemplateData
<1> HIDE DEF e
<1>3. FilesHaveTemplates(e)
  BY <1>1, <1>2 DEF FilesHaveTemplates
<1> QED
  BY <1>1, <1>3 DEF e, Placeholder

\* What is printed for an item with a list of data.
LEMMA ListedComplete ==
    ASSUME NEW d \in Manifests, d.dataFrom = <<>>
    PROVE  /\ SecretHasFields(Listed(d).secret)
           /\ FilesHaveTemplates(Listed(d))
<1> DEFINE names == [i \in DOMAIN d.data |-> d.data[i].secretKey]
           texts == [i \in DOMAIN d.data |->
                       IF d.data[i].property = "" THEN "renders"
                       ELSE Shape[d.data[i].property].dot]
<1>1. Listed(d) = Entry(d, names, texts, names)
  BY DEF Listed
<1>2. ASSUME NEW k \in DOMAIN names
      PROVE  \/ BeyondConvert(d, names[k])
             \/ names[k] \in DOMAIN Shape /\ texts[k] \in {"renders", "breaks"}
  <2>1. k \in DOMAIN d.data /\ names[k] = d.data[k].secretKey
    OBVIOUS
  <2>2. d.data[k].secretKey \in DOMAIN Shape
    BY <2>1, ConverterAssumption DEF ConverterAssumption
  <2>3. CASE d.data[k].property = ""
    BY <2>1, <2>2, <2>3
  <2>4. CASE d.data[k].property # ""
    <3>1. texts[k] = Shape[d.data[k].property].dot
      BY <2>1, <2>4
    <3> HIDE DEF names, texts
    <3>2. Shape[d.data[k].property].dot # "renders" => BeyondConvert(d, names[k])
      BY <2>1, <2>4 DEF BeyondConvert
    <3> QED
      BY <2>1, <2>2, <3>1, <3>2
  <2> QED
    BY <2>3, <2>4
<1> HIDE DEF names, texts
<1>3. FilesHaveTemplates(Entry(d, names, texts, names))
  BY <1>2, EntryComplete
<1>4. SecretHasFields(Entry(d, names, texts, names).secret)
  BY EntryFields
<1> QED
  BY <1>1, <1>3, <1>4

-----------------------------------------------------------------------------
\* The document at the head of docs is the one AtFile and AtDoc tell of.
LEMMA HeadPosition ==
    ASSUME QueueOK, DocsOK, docs # <<>>
    PROVE  /\ AtFile \in DOMAIN args
           /\ args[AtFile] # Unreadable
           /\ args[AtFile] \in Seq(Manifests)
           /\ AtDoc \in DOMAIN args[AtFile]
           /\ Head(docs) = args[AtFile][AtDoc]
           /\ Head(docs) \in Manifests
           /\ Content(Head(docs)) <=> <<AtFile, AtDoc>> \in Documents
<1>1. Len(args) \in Nat /\ DOMAIN args = 1..Len(args) /\ Len(queue) \in Nat
  BY LenProperties DEF QueueOK
<1>2. AtFile \in DOMAIN args
  BY <1>1 DEF DocsOK, QueueOK, AtFile
<1>3. /\ docs \in Seq(Manifests)
      /\ args[AtFile] # Unreadable
      /\ args[AtFile] \in Seq(Manifests)
      /\ Len(docs) <= Len(args[AtFile])
      /\ \A j \in 1..Len(docs) : docs[j] = args[AtFile][AtDoc - 1 + j]
  BY DEF DocsOK
<1>4. Len(docs) \in Nat \ {0}
  BY <1>3, EmptySeq
<1>5. /\ Len(args[AtFile]) \in Nat
      /\ DOMAIN args[AtFile] = 1..Len(args[AtFile])
  BY <1>3, LenProperties
<1>6. AtDoc \in DOMAIN args[AtFile] /\ AtDoc - 1 + 1 = AtDoc
  BY <1>3, <1>4, <1>5 DEF AtDoc
<1>7. Head(docs) = docs[1] /\ docs[1] = args[AtFile][AtDoc]
  BY <1>3, <1>4, <1>6
<1>8. Head(docs) \in Manifests
  BY <1>3, HeadTailProperties
<1>9. Content(Head(docs)) <=> <<AtFile, AtDoc>> \in Documents
  <2> DEFINE f == AtFile
             n == AtDoc
  <2>1. f \in DOMAIN args /\ n \in DOMAIN args[f] /\ args[f] # Unreadable
        /\ Head(docs) = args[f][n]
    BY <1>2, <1>3, <1>6, <1>7
  <2> HIDE DEF f, n
  <2>2. Content(Head(docs)) => <<f, n>> \in Documents
    BY <2>1, DocumentsMember
  <2>3. <<f, n>> \in Documents => Content(Head(docs))
    BY <2>1, DocumentsMember
  <2> QED
    BY <2>2, <2>3 DEF f, n
<1> QED
  BY <1>2, <1>3, <1>6, <1>7, <1>8, <1>9

\* What is to convert is a matter of the manifests.
LEMMA SameArgs ==
    ASSUME args' = args
    PROVE  Documents' = Documents
BY DEF Documents

\* Once the head of docs is read, it is done if there was something to convert.
LEMMA ReadOne ==
    ASSUME QueueOK, DocsOK, docs # <<>>, docs' = Tail(docs),
           UNCHANGED <<args, queue>>
    PROVE  /\ QueueOK' /\ DocsOK'
           /\ <<AtFile, AtDoc>> \notin Done
           /\ Done' = Done \cup {at \in {<<AtFile, AtDoc>>} : Content(Head(docs))}
<1>1. /\ AtFile \in DOMAIN args
      /\ args[AtFile] # Unreadable
      /\ args[AtFile] \in Seq(Manifests)
      /\ AtDoc \in DOMAIN args[AtFile]
      /\ Content(Head(docs)) <=> <<AtFile, AtDoc>> \in Documents
  BY HeadPosition
<1>2. AtFile' = AtFile /\ QueueOK'
  BY DEF AtFile, QueueOK
<1>3. /\ Len(docs) \in Nat \ {0}
      /\ docs' \in Seq(Manifests)
      /\ Len(docs') = Len(docs) - 1
      /\ \A j \in 1..Len(docs') : docs'[j] = docs[j + 1]
  BY HeadTailProperties, EmptySeq DEF DocsOK
<1>4. /\ AtFile \in Nat /\ AtDoc \in Nat
      /\ Len(args[AtFile]) \in Nat
      /\ DOMAIN args[AtFile] = 1..Len(args[AtFile])
  <2>1. DOMAIN args = 1..Len(args) /\ Len(args) \in Nat
    BY LenProperties DEF QueueOK
  <2>2. DOMAIN args[AtFile] = 1..Len(args[AtFile]) /\ Len(args[AtFile]) \in Nat
    BY <1>1, LenProperties
  <2> QED
    BY <1>1, <2>1, <2>2
<1>5. AtDoc' = AtDoc + 1
  BY <1>2, <1>3, <1>4 DEF AtDoc
<1>6. DocsOK'
  <2> SUFFICES ASSUME docs' # <<>>
               PROVE  \A j \in 1..Len(docs') : docs'[j] = args[AtFile][AtDoc - 1 + (j + 1)]
    BY <1>2, <1>3, <1>4, <1>5 DEF DocsOK
  <2> TAKE j \in 1..Len(docs')
  <2> QED
    BY <1>3 DEF DocsOK
<1>7. docs' = <<>> <=> AtDoc = Len(args[AtFile])
  <2>1. docs' = <<>> <=> Len(docs') = 0
    BY <1>3, EmptySeq
  <2> QED
    BY <1>3, <1>4, <2>1 DEF AtDoc
<1>8. Documents' = Documents
  BY SameArgs
<1> DEFINE f == AtFile
           n == AtDoc
<1>9. ASSUME NEW at \in Documents, at[1] = f
      PROVE  at[2] \in 1..Len(args[f]) /\ at = <<f, at[2]>>
  <2>1. PICK i \in DOMAIN args : \E k \in DOMAIN args[i] : at = <<i, k>>
    BY DocumentsMember
  <2>2. PICK k \in DOMAIN args[i] : at = <<i, k>>
    BY <2>1
  <2> QED
    BY <1>4, <1>9, <2>2
<1>10. Done = {at \in Documents : at[1] < f \/ (at[1] = f /\ at[2] < n)}
  BY DEF Done
<1>11. Done' = {at \in Documents : at[1] < f \/ (at[1] = f /\ (n = Len(args[f]) \/ at[2] < n + 1))}
  BY <1>2, <1>5, <1>7, <1>8 DEF Done
<1> HIDE DEF f, n
<1>12. Done' = {at \in Documents : at[1] < f \/ (at[1] = f /\ (at = <<f, n>> \/ at[2] < n))}
  <2>1. ASSUME NEW at \in Documents, at[1] = f
        PROVE  (n = Len(args[f]) \/ at[2] < n + 1) <=> (at = <<f, n>> \/ at[2] < n)
    <3>1. at[2] \in 1..Len(args[f]) /\ at = <<f, at[2]>>
      BY <1>9, <2>1
    <3>2. n \in 1..Len(args[f]) /\ Len(args[f]) \in Nat
      BY <1>1, <1>4 DEF f, n
    <3>3. at = <<f, n>> <=> at[2] = n
      BY <3>1
    <3> QED
      BY <3>1, <3>2, <3>3
  <2> QED
    BY <1>11, <2>1
<1>13. f \in Nat /\ n \in Nat /\ (Content(Head(docs)) <=> <<f, n>> \in Documents)
  BY <1>1, <1>4 DEF f, n
<1>14. Done' = Done \cup {at \in {<<f, n>>} : Content(Head(docs))}
  BY <1>10, <1>12, <1>13
<1>15. <<f, n>> \notin Done
  BY <1>10, <1>13
<1> QED
  BY <1>2, <1>6, <1>14, <1>15 DEF f, n

\* No file is read before the next one is opened, and then none of its
\* documents.
LEMMA OpenOne ==
    ASSUME QueueOK, DocsOK, OpenFile
    PROVE  QueueOK' /\ DocsOK' /\ Done' = Done
<1>1. /\ docs = <<>> /\ queue # <<>>
      /\ queue' = Tail(queue) /\ args' = args
      /\ docs' = IF Head(queue) = Unreadable THEN <<>> ELSE Head(queue)
  BY DEF OpenFile
<1>2. /\ args \in Seq(Seq(Manifests) \cup {Unreadable})
      /\ queue \in Seq(Seq(Manifests) \cup {Unreadable})
      /\ Len(queue) <= Len(args)
      /\ \A j \in 1..Len(queue) : queue[j] = args[AtFile + j]
  BY DEF QueueOK
<1>3. /\ Len(args) \in Nat /\ DOMAIN args = 1..Len(args)
      /\ Len(queue) \in Nat \ {0}
      /\ queue' \in Seq(Seq(Manifests) \cup {Unreadable})
      /\ Len(queue') = Len(queue) - 1
      /\ \A j \in 1..Len(queue') : queue'[j] = queue[j + 1]
  BY <1>1, <1>2, LenProperties, EmptySeq, HeadTailProperties
<1>4. /\ AtFile \in Nat
      /\ AtFile' = AtFile + 1
      /\ AtFile' \in DOMAIN args
  BY <1>1, <1>2, <1>3 DEF AtFile
<1>5. Head(queue) = args[AtFile']
  BY <1>2, <1>3, <1>4
<1>6. QueueOK'
  <2>1. \A j \in 1..Len(queue') : queue'[j] = args[AtFile + (j + 1)]
    BY <1>2, <1>3
  <2>2. \A j \in 1..Len(queue') : AtFile + (j + 1) = AtFile' + j
    BY <1>3, <1>4
  <2>3. \A j \in 1..Len(queue') : queue'[j] = args[AtFile' + j]
    BY <2>1, <2>2
  <2>4. Len(queue') <= Len(args)
    BY <1>2, <1>3
  <2> QED
    BY <1>1, <1>2, <1>3, <2>3, <2>4 DEF QueueOK
<1>7. args[AtFile'] \in Seq(Manifests) \cup {Unreadable}
  BY <1>2, <1>3, <1>4, ElementOfSeq
<1>8. docs' \in Seq(Manifests)
  BY <1>1, <1>5, <1>7, EmptySeq
<1>9. DocsOK'
  <2> SUFFICES ASSUME docs' # <<>>
               PROVE  /\ AtFile' >= 1
                      /\ args[AtFile'] # Unreadable
                      /\ args[AtFile'] \in Seq(Manifests)
                      /\ Len(docs') <= Len(args[AtFile'])
                      /\ \A j \in 1..Len(docs') : docs'[j] = args[AtFile'][AtDoc' - 1 + j]
    BY <1>1, <1>8 DEF DocsOK
  <2>1. docs' = args[AtFile'] /\ args[AtFile'] # Unreadable
    BY <1>1, <1>5
  <2>2. Len(docs') \in Nat
    BY <1>8, LenProperties
  <2>3. AtDoc' = 1
    BY <1>1, <2>1, <2>2 DEF AtDoc
  <2> QED
    BY <1>4, <1>8, <2>1, <2>2, <2>3
<1>10. Documents' = Documents
  BY <1>1, SameArgs
<1> DEFINE f == AtFile
<1>11. Done = {at \in Documents : at[1] < f \/ at[1] = f}
  BY <1>1 DEF Done
<1>12. Done' = {at \in Documents : at[1] < f + 1 \/ (at[1] = f + 1 /\ (docs' = <<>> \/ at[2] < AtDoc'))}
  BY <1>4, <1>10 DEF Done
<1>13. ASSUME NEW at \in Documents, at[1] = f + 1
       PROVE  docs' # <<>> /\ ~(at[2] < AtDoc')
  <2>1. PICK i \in DOMAIN args : /\ args[i] # Unreadable
                                 /\ \E k \in DOMAIN args[i] : at = <<i, k>>
    BY DocumentsMember
  <2>2. PICK k \in DOMAIN args[i] : at = <<i, k>>
    BY <2>1
  <2>3. i = AtFile' /\ at[2] = k
    BY <1>4, <1>13, <2>2
  <2>4. docs' = args[AtFile']
    BY <1>1, <1>5, <2>1, <2>3
  <2>5. Len(docs') \in Nat /\ DOMAIN docs' = 1..Len(docs')
    BY <1>8, LenProperties
  <2>6. k \in 1..Len(docs')
    BY <2>2, <2>3, <2>4, <2>5
  <2>7. docs' # <<>>
    BY <1>8, <2>5, <2>6, EmptySeq
  <2>8. AtDoc' = 1
    BY <1>1, <2>4, <2>5 DEF AtDoc
  <2> QED
    BY <2>3, <2>5, <2>6, <2>7, <2>8
<1>14. \A at \in Documents : at[1] \in Nat
  <2> SUFFICES ASSUME NEW at \in Documents PROVE at[1] \in Nat
    OBVIOUS
  <2>1. PICK i \in DOMAIN args : \E k \in DOMAIN args[i] : at = <<i, k>>
    BY DocumentsMember
  <2> QED
    BY <1>3, <2>1
<1>15. f \in Nat
  BY <1>4
<1> HIDE DEF f
<1>16. Done' = Done
  BY <1>11, <1>12, <1>13, <1>14, <1>15
<1> QED
  BY <1>6, <1>9, <1>16

\* When everything was read, all the documents are done.
LEMMA AllDone ==
    ASSUME QueueOK, queue = <<>>, docs = <<>>
    PROVE  Done = Documents
<1>1. Len(args) \in Nat /\ DOMAIN args = 1..Len(args) /\ AtFile = Len(args)
  BY LenProperties, EmptySeq DEF QueueOK, AtFile
<1>2. ASSUME NEW at \in Documents PROVE at \in Done
  <2>1. PICK i \in DOMAIN args : \E k \in DOMAIN args[i] : at = <<i, k>>
    BY DocumentsMember
  <2> QED
    BY <1>1, <2>1 DEF Done
<1> QED
  BY <1>2 DEF Done

\* An entry that was printed is one more ...
LEMMA PrintedEntry ==
    ASSUME OutOK, comments \in Nat, NEW e, PrintEntry(e),
           SecretHasFields(e.secret), FilesHaveTemplates(e)
    PROVE  /\ OutOK' /\ comments' \in Nat
           /\ Len(out') + comments' = Len(out) + comments + 1
<1>1. /\ out \in Seq({out[i] : i \in DOMAIN out})
      /\ Len(out) \in Nat /\ DOMAIN out = 1..Len(out)
      /\ \A i \in DOMAIN out : SecretHasFields(out[i].secret) /\ FilesHaveTemplates(out[i])
  BY LenProperties DEF OutOK
<1>2. out' = Append(out, e) /\ comments' = comments
  BY DEF PrintEntry
<1> DEFINE S == {out[i] : i \in DOMAIN out} \cup {e}
<1>3. out \in Seq(S) /\ e \in S
  BY <1>1, SeqMonotonic
<1> HIDE DEF S
<1>4. /\ out' \in Seq(S) /\ Len(out') = Len(out) + 1
      /\ DOMAIN out' = 1..Len(out')
      /\ \A i \in 1..Len(out) : out'[i] = out[i]
      /\ out'[Len(out) + 1] = e
  BY <1>2, <1>3, AppendProperties, LenProperties
<1>5. out' \in Seq({out'[i] : i \in DOMAIN out'})
  <2> DEFINE T == {out'[i] : i \in DOMAIN out'}
  <2>1. out' = [i \in 1..Len(out') |-> out'[i]] /\ Len(out') \in Nat
    BY <1>4, LenProperties
  <2>2. out' \in [1..Len(out') -> T]
    BY <1>4, <2>1
  <2> QED
    BY <2>1, <2>2
<1>6. ASSUME NEW i \in DOMAIN out'
      PROVE  SecretHasFields(out'[i].secret) /\ FilesHaveTemplates(out'[i])
  <2>1. CASE i \in 1..Len(out)
    <3>1. SecretHasFields(out[i].secret) /\ FilesHaveTemplates(out[i])
      BY <1>1, <2>1
    <3>2. out'[i] = out[i]
      BY <1>4, <2>1
    <3> QED
      BY <3>1, <3>2
  <2>2. CASE i = Len(out) + 1
    BY <1>4, <2>2
  <2> QED
    BY <1>1, <1>4, <2>1, <2>2
<1>7. OutOK'
  BY <1>5, <1>6 DEF OutOK
<1> QED
  BY <1>1, <1>2, <1>4, <1>7

\* ... and one that was commented out is counted.
LEMMA PrintedComment ==
    ASSUME OutOK, comments \in Nat, PrintComment
    PROVE  /\ OutOK' /\ comments' \in Nat
           /\ Len(out') + comments' = Len(out) + comments + 1
<1>1. out' = out /\ comments' = comments + 1
  BY DEF PrintComment
<1>2. Len(out) \in Nat
  BY LenProperties DEF OutOK
<1>3. OutOK'
  BY <1>1 DEF OutOK
<1> QED
  BY <1>1, <1>2, <1>3

\* convertSingleSecret prints one entry or one comment.
LEMMA PrintedOne ==
    ASSUME OutOK, comments \in Nat, NEW d \in Manifests,
           IF d.dataFrom # <<>>
             THEN \E fields \in QueriedFields(Key(d)) : ConvertDataFrom(d, fields)
             ELSE PrintEntry(Listed(d))
    PROVE  /\ OutOK' /\ comments' \in Nat
           /\ Len(out') + comments' = Len(out) + comments + 1
<1>1. CASE d.dataFrom # <<>>
  <2>1. PICK fields \in QueriedFields(Key(d)) : ConvertDataFrom(d, fields)
    BY <1>1
  <2>2. CASE DOMAIN d.template # {} \/ fields # {}
    <3>1. PrintEntry(Extracted(d, fields))
      BY <2>1, <2>2 DEF ConvertDataFrom
    <3> QED
      BY <1>1, <2>2, <3>1, ExtractedComplete, PrintedEntry
  <2>3. CASE ~(DOMAIN d.template # {} \/ fields # {})
    <3>1. PrintComment \/ PrintEntry(Placeholder(d))
      BY <2>1, <2>3 DEF ConvertDataFrom
    <3> QED
      BY <3>1, PlaceholderComplete, PrintedEntry, PrintedComment
  <2> QED
    BY <2>2, <2>3
<1>2. CASE d.dataFrom = <<>>
  <2>1. PrintEntry(Listed(d))
    BY <1>2
  <2> QED
    BY <1>2, <2>1, ListedComplete, PrintedEntry
<1> QED
  BY <1>1, <1>2

\* What a step that reads no file and prints nothing keeps.
LEMMA KeepReading ==
    ASSUME QueueOK, DocsOK, CountOK, OutOK,
           UNCHANGED <<args, queue, docs, out, comments>>
    PROVE  QueueOK' /\ DocsOK' /\ CountOK' /\ OutOK'
<1>1. AtFile' = AtFile /\ args' = args /\ queue' = queue /\ docs' = docs
      /\ out' = out /\ comments' = comments
  BY DEF AtFile
<1>2. AtDoc' = AtDoc
  BY <1>1 DEF AtDoc
<1>3. Documents' = Documents
  BY <1>1, SameArgs
<1>4. Done' = Done
  BY <1>1, <1>2, <1>3 DEF Done
<1>5. QueueOK'
  BY <1>1 DEF QueueOK
<1>6. DocsOK'
  BY <1>1, <1>2 DEF DocsOK
<1>7. CountOK'
  BY <1>1, <1>4 DEF CountOK
<1>8. OutOK'
  BY <1>1 DEF OutOK
<1> QED
  BY <1>5, <1>6, <1>7, <1>8

\* What a step that leaves the file keeps: after convert has printed it there
\* is nothing more to print.
LEMMA KeepFile ==
    ASSUME FileOK, UNCHANGED fileVars, tool # "done" \/ UNCHANGED <<tool, out>>
    PROVE  FileOK'
<1>1. file' = file /\ from' = from
  BY DEF fileVars
<1>2. from = "convert" => tool' = tool /\ out' = out
  BY DEF FileOK
<1> QED
  BY <1>1, <1>2 DEF FileOK

\* What a step that leaves the configuration of the service keeps.
LEMMA KeepConf ==
    ASSUME ReloadedDistinct, UNCHANGED confVars
    PROVE  ReloadedDistinct'
BY DEF ReloadedDistinct, confVars, Places, PathAt

-----------------------------------------------------------------------------
\* Nothing is read and nothing printed at first.
LEMMA InitInv == Init => ConverterInv
<1> SUFFICES ASSUME Init PROVE ConverterInv
  OBVIOUS
<1>1. /\ args \in Args /\ queue = args /\ docs = <<>> /\ out = <<>> /\ comments = 0
      /\ tool = "prepare" /\ from = "none" /\ via = "none"
      /\ file = [parses |-> FALSE, cfg |-> NoConf]
  BY DEF Init
<1>2. args \in Seq(Seq(Manifests) \cup {Unreadable})
  BY <1>1, ConverterAssumption DEF ConverterAssumption
<1>3. Len(args) \in Nat /\ DOMAIN args = 1..Len(args)
  BY <1>2, LenProperties
<1>4. AtFile = 0
  BY <1>1, <1>3 DEF AtFile
<1>5. QueueOK
  BY <1>1, <1>2, <1>3, <1>4 DEF QueueOK
<1>6. DocsOK
  BY <1>1, EmptySeq DEF DocsOK
<1>7. Done = {}
  <2> SUFFICES ASSUME NEW at \in Documents PROVE at \notin Done
    BY DEF Done
  <2>1. PICK i \in DOMAIN args : \E k \in DOMAIN args[i] : at = <<i, k>>
    BY DocumentsMember
  <2> QED
    BY <1>3, <1>4, <2>1 DEF Done
<1>8. CountOK
  BY <1>1, <1>7, FS_EmptySet, EmptySeq DEF CountOK
<1>9. OutOK
  BY <1>1, EmptySeq DEF OutOK
<1>10. FileOK
  BY <1>1 DEF FileOK, HasFields, NoConf
<1> QED
  BY <1>1, <1>5, <1>6, <1>8, <1>9, <1>10 DEF ConverterInv, DoneAtEnd, ReloadedDistinct

\* The command reads, prints and ends without losing count.
LEMMA ToolInv == ConverterInv /\ Tool => ConverterInv'
<1> SUFFICES ASSUME ConverterInv, Tool PROVE ConverterInv'
  OBVIOUS
<1> USE DEF ConverterInv
<1>1. CASE Prepare
  <2>1. UNCHANGED <<args, queue, docs, out, comments>> /\ UNCHANGED fileVars
        /\ UNCHANGED confVars /\ tool # "done" /\ tool' # "done"
    BY <1>1 DEF Prepare
  <2> QED
    BY <2>1, KeepReading, KeepFile, KeepConf DEF DoneAtEnd
<1>2. CASE OpenFile
  <2>1. UNCHANGED fileVars /\ UNCHANGED confVars
        /\ args' = args /\ out' = out /\ comments' = comments
        /\ tool # "done" /\ tool' # "done"
    BY <1>2 DEF OpenFile
  <2>2. QueueOK' /\ DocsOK' /\ Done' = Done
    BY <1>2, OpenOne
  <2>3. CountOK'
    BY <2>1, <2>2 DEF CountOK
  <2>4. OutOK'
    BY <2>1 DEF OutOK
  <2> QED
    BY <2>1, <2>2, <2>3, <2>4, KeepFile, KeepConf DEF DoneAtEnd
<1>3. CASE Skip
  <2>1. UNCHANGED fileVars /\ UNCHANGED confVars /\ UNCHANGED <<args, queue>>
        /\ args' = args /\ out' = out /\ comments' = comments
        /\ tool # "done" /\ tool' # "done"
        /\ docs # <<>> /\ docs' = Tail(docs) /\ ~Content(Head(docs))
    BY <1>3 DEF Skip, Skips
  <2>2. /\ QueueOK' /\ DocsOK'
        /\ Done' = Done \cup {at \in {<<AtFile, AtDoc>>} : Content(Head(docs))}
    BY <2>1, ReadOne
  <2>3. Done' = Done
    BY <2>1, <2>2
  <2>4. CountOK'
    BY <2>1, <2>3 DEF CountOK
  <2>5. OutOK'
    BY <2>1 DEF OutOK
  <2> QED
    BY <2>1, <2>2, <2>4, <2>5, KeepFile, KeepConf DEF DoneAtEnd
<1>4. CASE ConvertSingleSecret
  <2> DEFINE d == Head(docs)
             at == <<AtFile, AtDoc>>
  <2>1. UNCHANGED fileVars /\ UNCHANGED confVars /\ UNCHANGED <<args, queue>>
        /\ args' = args /\ tool # "done" /\ tool' # "done"
        /\ docs # <<>> /\ docs' = Tail(docs) /\ Content(d)
    BY <1>4 DEF ConvertSingleSecret
  <2>2. /\ QueueOK' /\ DocsOK'
        /\ at \notin Done
        /\ Done' = Done \cup {w \in {at} : Content(d)}
    BY <2>1, ReadOne
  <2>3. Done' = Done \cup {at}
    BY <2>1, <2>2
  <2>4. d \in Manifests
    BY <2>1, HeadPosition
  <2>5. IF d.dataFrom # <<>>
          THEN \E fields \in QueriedFields(Key(d)) : ConvertDataFrom(d, fields)
          ELSE PrintEntry(Listed(d))
    BY <1>4 DEF ConvertSingleSecret
  <2> HIDE DEF d
  <2>6. /\ OutOK' /\ comments' \in Nat
        /\ Len(out') + comments' = Len(out) + comments + 1
    BY <2>4, <2>5, PrintedOne DEF CountOK
  <2>7. CountOK'
    <3>1. IsFiniteSet(Done) /\ Len(out) + comments = Cardinality(Done)
      BY DEF CountOK
    <3>2. IsFiniteSet(Done') /\ Cardinality(Done') = Cardinality(Done) + 1
      BY <2>2, <2>3, <3>1, FS_AddElement
    <3> QED
      BY <2>6, <3>1, <3>2 DEF CountOK
  <2> QED
    BY <2>1, <2>2, <2>6, <2>7, KeepFile, KeepConf DEF DoneAtEnd
<1>5. CASE Finish
  <2>1. UNCHANGED <<args, queue, docs, out, comments>> /\ UNCHANGED confVars
        /\ out' = out /\ tool' = "done"
        /\ docs' = <<>> /\ queue' = <<>> /\ file' = Printed(out)
    BY <1>5 DEF Finish
  <2>2. /\ {"cfg", "parses"} \subseteq DOMAIN file'
        /\ "secrets" \in DOMAIN file'.cfg
        /\ file'.cfg.secrets = [i \in DOMAIN out |-> out[i].secret]
        /\ file'.parses => \A i \in DOMAIN out : out[i].parses
    BY <2>1 DEF Printed
  <2>3. \A i \in DOMAIN file'.cfg.secrets : SecretHasFields(file'.cfg.secrets[i])
    BY <2>2 DEF OutOK
  <2>4. HasFields(file'.cfg)
    BY <2>2, <2>3 DEF HasFields
  <2>5. FileOK'
    BY <2>1, <2>2, <2>4 DEF FileOK
  <2> QED
    BY <2>1, <2>5, KeepReading, KeepConf DEF DoneAtEnd
<1> QED
  BY <1>1, <1>2, <1>3, <1>4, <1>5 DEF Tool

\* An operator's file has its fields, and the store is no part of what was
\* printed.
LEMMA OperatorInv == ConverterInv /\ (AddStore \/ Edit) => ConverterInv'
<1> SUFFICES ASSUME ConverterInv, AddStore \/ Edit PROVE ConverterInv'
  OBVIOUS
<1> USE DEF ConverterInv
<1>1. UNCHANGED <<args, queue, docs, out, comments>> /\ UNCHANGED confVars
      /\ out' = out /\ tool' = tool /\ queue' = queue /\ docs' = docs
  BY DEF AddStore, Edit, toolVars
<1>2. CASE AddStore
  <2>1. /\ from = "convert" /\ from' = from
        /\ file' = [file EXCEPT !.cfg = [file.cfg EXCEPT !.store = HandStore]]
    BY <1>2 DEF AddStore
  <2>2. {"cfg", "parses"} \subseteq DOMAIN file /\ HasFields(file.cfg)
    BY <2>1 DEF FileOK
  <2>3. "secrets" \in DOMAIN file.cfg
    BY <2>2 DEF HasFields
  <2>4. /\ {"cfg", "parses"} \subseteq DOMAIN file' /\ file'.parses = file.parses
        /\ DOMAIN file'.cfg = DOMAIN file.cfg
        /\ file'.cfg.secrets = file.cfg.secrets
    BY <2>1, <2>2, <2>3
  <2>6. HasFields(file'.cfg)
    BY <2>2, <2>4 DEF HasFields
  <2>7. FileOK'
    BY <1>1, <2>1, <2>4, <2>6 DEF FileOK
  <2> QED
    BY <1>1, <2>7, KeepReading, KeepConf DEF DoneAtEnd
<1>3. CASE Edit
  <2>1. file' \in Handwritten /\ from' = "hand"
    BY <1>3 DEF Edit
  <2>2. HasFields(file'.cfg)
    BY <2>1, ConverterAssumption DEF ConverterAssumption
  <2>3. FileOK'
    BY <2>1, <2>2 DEF FileOK, HasFields
  <2> QED
    BY <1>1, <2>3, KeepReading, KeepConf DEF DoneAtEnd
<1> QED
  BY <1>2, <1>3

\* The service takes a configuration at a SIGHUP after a second Validate.
LEMMA ServiceInv ==
    ConverterInv /\ (Start \/ Reload \/ WatchLoad \/ LoadEnds \/ Stop) => ConverterInv'
<1> SUFFICES ASSUME ConverterInv, Start \/ Reload \/ WatchLoad \/ LoadEnds \/ Stop
             PROVE  ConverterInv'
  OBVIOUS
<1> USE DEF ConverterInv
<1>1. UNCHANGED <<args, queue, docs, out, comments>> /\ UNCHANGED fileVars
      /\ tool' = tool /\ out' = out /\ queue' = queue /\ docs' = docs
  BY DEF Start, Reload, WatchLoad, LoadEnds, Stop, toolVars
<1>2. ReloadedDistinct'
  <2>1. CASE Start \/ WatchLoad \/ LoadEnds \/ Stop
    BY <2>1 DEF Start, WatchLoad, LoadEnds, Stop, ReloadedDistinct
  <2>2. CASE Reload
    <3> DEFINE E == ExpandEnvVars(file.cfg)
    <3>1. conf' = Validated(Validated(E)) /\ Validate(Validated(E))
      BY <2>2 DEF Reload, Loaded
    <3>2. HasFields(E)
      BY ExpandedSecrets DEF FileOK
    <3> HIDE DEF E
    <3>3. NoDuplicatePaths(Validated(E))
      BY <3>1 DEF Validate
    <3>4. \A a, b \in Places(Validated(Validated(E))) :
             PathAt(Validated(Validated(E)), a) = PathAt(Validated(Validated(E)), b) => a = b
      BY <3>2, <3>3, RevalidatedDistinct
    <3> DEFINE W == Validated(Validated(E))
    <3>5. conf' = W /\ \A a, b \in Places(W) : PathAt(W, a) = PathAt(W, b) => a = b
      BY <3>1, <3>4
    <3> HIDE DEF W
    <3> QED
      BY <3>5 DEF ReloadedDistinct, Places, PathAt
  <2> QED
    BY <2>1, <2>2
<1> QED
  BY <1>1, <1>2, KeepReading, KeepFile DEF DoneAtEnd

\* Every step keeps the inductive invariant.
LEMMA StepInv == ConverterInv /\ [Next]_vars => ConverterInv'
<1> SUFFICES ASSUME ConverterInv, [Next]_vars PROVE ConverterInv'
  OBVIOUS
<1>1. CASE Next
  BY <1>1, ToolInv, OperatorInv, ServiceInv DEF Next
<1>2. CASE UNCHANGED vars
  <2>1. UNCHANGED <<args, queue, docs, out, comments>> /\ UNCHANGED fileVars
        /\ UNCHANGED confVars /\ tool' = tool /\ out' = out /\ queue' = queue /\ docs' = docs
    BY <1>2 DEF vars, toolVars
  <2> QED
    BY <2>1, KeepReading, KeepFile, KeepConf DEF ConverterInv, DoneAtEnd
<1> QED
  BY <1>1, <1>2

\* The printed file is complete: the count at the end is that of all the
\* documents, and Load keeps the templates and the basenames of the files of a
\* secret it accepts.
LEMMA InvComplete == ConverterInv => ConvertedComplete
<1> SUFFICES ASSUME ConverterInv PROVE ConvertedComplete
  OBVIOUS
<1> USE DEF ConverterInv
<1>1. tool = "done" => Len(out) + comments = Cardinality(Documents)
  BY AllDone DEF DoneAtEnd, CountOK
<1>2. ASSUME from = "convert", Loads(file), NEW i \in DOMAIN Loaded(file).secrets
      PROVE  LET s == Loaded(file).secrets[i] IN
             \A k \in DOMAIN s.files :
                \/ BeyondConvert(out[i].doc, out[i].names[k])
                \/ /\ s.files[k].path.base \in DOMAIN s.templates
                   /\ s.templates[s.files[k].path.base] = "renders"
  <2> DEFINE E == ExpandEnvVars(file.cfg)
  <2>1. /\ HasFields(file.cfg) /\ file.parses
        /\ DOMAIN file.cfg.secrets = DOMAIN out
        /\ \A j \in DOMAIN out : file.cfg.secrets[j] = out[j].secret /\ out[j].parses
    BY <1>2 DEF FileOK, Loads
  <2>2. /\ HasFields(E)
        /\ DOMAIN E.secrets = DOMAIN file.cfg.secrets
        /\ \A j \in DOMAIN file.cfg.secrets :
             /\ E.secrets[j].files = file.cfg.secrets[j].files
             /\ E.secrets[j].templates = file.cfg.secrets[j].templates
    BY <2>1, ExpandedSecrets
  <2>3. Validate(E) /\ Loaded(file) = Validated(E)
    BY <1>2 DEF Loads, Loaded
  <2> HIDE DEF E
  <2>4. /\ DOMAIN Validated(E).secrets = DOMAIN E.secrets
        /\ \A j \in DOMAIN E.secrets :
             /\ Validated(E).secrets[j].templates = E.secrets[j].templates
             /\ DOMAIN Validated(E).secrets[j].files = DOMAIN E.secrets[j].files
             /\ \A k \in DOMAIN E.secrets[j].files :
                  Validated(E).secrets[j].files[k].path.base
                    = E.secrets[j].files[k].path.base
    BY <2>2, ValidatedSecrets
  <2>5. i \in DOMAIN E.secrets /\ i \in DOMAIN out
    BY <1>2, <2>1, <2>2, <2>3, <2>4
  <2> DEFINE e == out[i]
             s == Loaded(file).secrets[i]
  <2>6. DOMAIN E.secrets[i].templates # {}
    BY <2>3, <2>5 DEF Validate, ValidSecret
  <2>7. E.secrets[i].files = e.secret.files /\ E.secrets[i].templates = e.secret.templates
    BY <2>1, <2>2, <2>5
  <2>8. FilesHaveTemplates(e) /\ e.parses
    BY <2>1, <2>5 DEF OutOK
  <2>9. /\ s.templates = e.secret.templates
        /\ DOMAIN s.files = DOMAIN e.secret.files
        /\ \A k \in DOMAIN e.secret.files :
             s.files[k].path.base = e.secret.files[k].path.base
    BY <2>3, <2>4, <2>5, <2>7
  <2> HIDE DEF e, s
  <2>10. \A k \in DOMAIN s.files :
            \/ BeyondConvert(e.doc, e.names[k])
            \/ /\ s.files[k].path.base \in DOMAIN s.templates
               /\ s.templates[s.files[k].path.base] = "renders"
    BY <2>6, <2>7, <2>8, <2>9 DEF FilesHaveTemplates
  <2> QED
    BY <2>10 DEF e, s
<1> QED
  BY <1>1, <1>2 DEF ConvertedComplete

-----------------------------------------------------------------------------
\* The inductive invariant: what is left to read is the end of what the
\* command line names, what was printed is what was read, and what was printed
\* has its templates.
THEOREM ConverterInvariance == Spec => []ConverterInv
<1> QED
  BY InitInv, StepInv, PTL DEF Spec

\* A configuration taken at a SIGHUP has no two files of one path (Load and
\* Validate at main.go:471-482), however an operator spells them.
THEOREM ReloadAlwaysDistinct == Spec => []ReloadedDistinct
<1>1. ConverterInv => ReloadedDistinct
  BY DEF ConverterInv
<1> QED
  BY <1>1, ConverterInvariance, PTL

\* convert (convert.go:125-342) loses no ExternalSecret with fields, and what
\* it prints and Load accepts has for each file the template the syncer looks
\* for, and it renders: for all manifests, flags, answers of Vault and names,
\* but for the names and templates that BeyondConvert tells of.
THEOREM ConvertAlwaysComplete == Spec => []ConvertedComplete
<1> QED
  BY InvComplete, ConverterInvariance, PTL

\* What YAML was decoded into, with every field and with lists that are
\* sequences.
WholeConfig(cfg) ==
    /\ HasFields(cfg) /\ "store" \in DOMAIN cfg
    /\ cfg.secrets \in Seq({cfg.secrets[i] : i \in DOMAIN cfg.secrets})
    /\ \A i \in DOMAIN cfg.secrets :
         LET s == cfg.secrets[i] IN
         /\ {"name", "key", "mountPath", "credentials", "kvVersion", "refreshInterval"}
              \subseteq DOMAIN s
         /\ s.files \in Seq({s.files[k] : k \in DOMAIN s.files})
         /\ \A k \in DOMAIN s.files : {"owner", "group"} \subseteq DOMAIN s.files[k]

\* Sequences over the same places have the same length.
LEMMA SameLen ==
    ASSUME NEW S, NEW u \in Seq(S), NEW v, DOMAIN v = DOMAIN u,
           v = [i \in DOMAIN v |-> v[i]]
    PROVE  Len(v) = Len(u)
<1> DEFINE T == {v[i] : i \in DOMAIN v}
<1>1. DOMAIN v = 1..Len(u) /\ Len(u) \in Nat
  BY LenProperties
<1>2. v \in [1..Len(u) -> T]
  BY <1>1
<1>3. v \in Seq(T)
  BY <1>1, <1>2
<1> HIDE DEF T
<1>4. DOMAIN v = 1..Len(v) /\ Len(v) \in Nat
  BY <1>3, LenProperties
<1> QED
  BY <1>1, <1>4

\* A file that validateFile accepts is accepted again as it leaves it: the
\* default mode is a valid one.
LEMMA NormalisedValid ==
    ASSUME NEW f, {"path", "mode", "owner", "group"} \subseteq DOMAIN f,
           "base" \in DOMAIN f.path, ValidFile(f)
    PROVE  ValidFile(Normalise(f))
<1>1. /\ Normalise(f).mode = IF f.mode = NoMode THEN 384 ELSE f.mode
      /\ Normalise(f).owner = f.owner /\ Normalise(f).group = f.group
  BY DEF Normalise
<1>2. Normalise(f).path.base = f.path.base
  BY NormalisedFields
<1>3. ParsesMode(384)
  BY DEF ParsesMode, ValidMode, Bit
<1> HIDE DEF Normalise
<1> QED
  BY <1>1, <1>2, <1>3 DEF ValidFile

\* What a SIGHUP refuses of a file that Load accepts: only two spellings of one
\* path.  The default mode and the clean paths that the first Validate put in
\* place (validator.go:234-249) are accepted by the second (main.go:482).
THEOREM RevalidationRefusesDuplicatesOnly ==
    ASSUME NEW cfg, WholeConfig(cfg), Validate(cfg)
    PROVE  Validate(Validated(cfg)) <=> NoDuplicatePaths(Validated(cfg))
<1> DEFINE V == Validated(cfg)
<1>1. /\ V.store = cfg.store
      /\ DOMAIN V.secrets = DOMAIN cfg.secrets
      /\ V.secrets = [i \in DOMAIN V.secrets |-> V.secrets[i]]
      /\ \A i \in DOMAIN cfg.secrets :
           V.secrets[i] = [cfg.secrets[i] EXCEPT
                             !.files = [k \in DOMAIN cfg.secrets[i].files |->
                                          Normalise(cfg.secrets[i].files[k])]]
  BY DEF WholeConfig, HasFields, Validated
<1> HIDE DEF V
<1>2. Len(V.secrets) = Len(cfg.secrets)
  BY <1>1, SameLen DEF WholeConfig
<1>3. ASSUME NEW i \in DOMAIN cfg.secrets
      PROVE  ValidSecret(V.store, V.secrets[i])
  <2> DEFINE s == cfg.secrets[i]
             t == V.secrets[i]
  <2>1. /\ SecretHasFields(s)
        /\ {"name", "key", "mountPath", "credentials", "kvVersion", "refreshInterval"}
             \subseteq DOMAIN s
        /\ s.files \in Seq({s.files[k] : k \in DOMAIN s.files})
        /\ \A k \in DOMAIN s.files : {"owner", "group"} \subseteq DOMAIN s.files[k]
    BY DEF WholeConfig, HasFields
  <2>2. /\ t.name = s.name /\ t.key = s.key /\ t.mountPath = s.mountPath
        /\ t.credentials = s.credentials /\ t.kvVersion = s.kvVersion
        /\ t.refreshInterval = s.refreshInterval /\ t.templates = s.templates
        /\ t.files = [k \in DOMAIN s.files |-> Normalise(s.files[k])]
    BY <1>1, <2>1 DEF SecretHasFields
  <2>3. ValidSecret(cfg.store, s)
    BY DEF Validate
  <2> HIDE DEF s, t
  <2>4. DOMAIN t.files = DOMAIN s.files /\ t.files = [k \in DOMAIN t.files |-> t.files[k]]
    BY <2>2
  <2>5. Len(t.files) = Len(s.files)
    BY <2>1, <2>4, SameLen
  <2>6. ASSUME NEW k \in DOMAIN t.files
        PROVE  ValidFile(t.files[k])
    <3>1. k \in DOMAIN s.files /\ t.files[k] = Normalise(s.files[k])
      BY <2>2
    <3>2. ValidFile(s.files[k])
      BY <2>3, <3>1 DEF ValidSecret
    <3>3. /\ {"path", "mode", "owner", "group"} \subseteq DOMAIN s.files[k]
          /\ "base" \in DOMAIN s.files[k].path
      BY <2>1, <3>1 DEF SecretHasFields
    <3> QED
      BY <3>1, <3>2, <3>3, NormalisedValid
  <2>7. ValidSecret(V.store, t)
    BY <1>1, <2>2, <2>3, <2>5, <2>6 DEF ValidSecret
  <2> QED
    BY <2>7 DEF t
<1>4. ValidSecretStore(V.store) /\ Len(V.secrets) \in 1..MaxSecrets
  BY <1>1, <1>2 DEF Validate
<1>5. Validate(V) <=> NoDuplicatePaths(V)
  BY <1>1, <1>3, <1>4 DEF Validate
<1> QED
  BY <1>5 DEF V

=============================================================================
