------------------------------ MODULE MCConverter ------------------------------
(* An instance of Converter for TLC. *)
EXTENDS Converter

MCEnvironment == [n \in {"${VAULT_TOKEN}", "${VAULT_ROLE_ID}", "${VAULT_SECRET_ID}", "${UNSET}"} |->
                    IF n = "${UNSET}" THEN "" ELSE "value"]
\* Names that convert prints with index, after a dot, and in neither way as it
\* should: the last ones also as the key of a line or of a path.
Names == {"user", "api-key", ".docker", "tls.crt", "2fa", "a/b", "#c", "it's", "x", "y", "z",
          "conf", "pem", "field1"}
MCShape ==
    [n \in Names |->
       [indexed |-> n \in {"api-key", ".docker"},
        dot |-> CASE n = "it's" -> "breaks"
                  [] n \in {"api-key", ".docker", "tls.crt", "2fa", "a/b", "#c"} -> "fails"
                  [] OTHER -> "renders",
        index |-> IF n = "it's" THEN "breaks" ELSE "renders",
        yaml |-> TRUE,
        key |-> IF n = "#c" THEN NoKey ELSE n]]
MCJoined ==
    [secret \in {"a", "b", "c", "d", "e", "f"} |-> [n \in Names |->
       IF n = "a/b" THEN [dir |-> secret \o "/a", base |-> "b"]
                    ELSE [dir |-> secret, base |-> n]]]
MCFieldsOf == [k \in {"", "app", "comment", "quote", "none"} |->
                 CASE k = "app" -> {"user", "api-key", ".docker", "tls.crt", "2fa", "a/b"}
                   [] k = "comment" -> {"user", "#c"}
                   [] k = "quote" -> {"user", "it's"}
                   [] OTHER -> {}]

\* Without Vault, with a token, and with a role.
Plain == [query |-> FALSE, addr |-> "", token |-> "", roleId |-> "", secretId |-> "",
          mountPath |-> "", kvVersion |-> "v2", outputDir |-> "relative"]
WithToken == [Plain EXCEPT !.query = TRUE, !.addr = "https://vault", !.token = "t"]
WithRole == [WithToken EXCEPT !.token = "", !.roleId = "r", !.secretId = "s",
                              !.mountPath = "kv", !.outputDir = "clean"]
MCOptions == {Plain, WithToken, WithRole, [WithToken EXCEPT !.addr = ""]}

\* A manifest of each kind convertSingleSecret tells apart.
None == [f \in {} |-> ""]
Doc == [kind |-> "ExternalSecret", name |-> "a", target |-> "", interval |-> 0,
        template |-> None, dataFrom |-> <<>>, data |-> <<>>]
Item(k, p) == [secretKey |-> k, property |-> p, key |-> "app"]
Extract == [Doc EXCEPT !.dataFrom = <<"app">>]
Templated == [Extract EXCEPT !.target = "b", !.interval = 60,
                             !.template = [f \in {"conf", "pem"} |-> "renders"]]
Commented == [Extract EXCEPT !.name = "c", !.dataFrom = <<"comment">>]
Quoted == [Extract EXCEPT !.name = "c", !.dataFrom = <<"quote">>]
NotFound == [Extract EXCEPT !.name = "c", !.dataFrom = <<"none">>]
DataList == [Doc EXCEPT !.name = "d", !.data = <<Item("x", "user"), Item("y", ""), Item("z", "api-key")>>]
Twice == [Doc EXCEPT !.name = "e", !.data = <<Item("x", "user"), Item("x", "")>>]
TooOften == [Templated EXCEPT !.name = "f", !.interval = 10]
Other == [Doc EXCEPT !.kind = "other"]
Mistyped == [Doc EXCEPT !.kind = "mistyped"]
BrokenDoc == [Doc EXCEPT !.kind = "broken"]
MCManifests == {Doc, Extract, Templated, NotFound, DataList, Twice, TooOften, Other,
                Mistyped, BrokenDoc, Commented, Quoted}
MCArgs == {<<>>, <<<<Templated, Extract, Mistyped, DataList>>>>,
           <<Unreadable, <<Other, NotFound>>, <<Templated, Doc>>>>,
           <<<<Templated>>, <<Twice>>>>, <<<<Extract, TooOften>>>>,
           <<<<Extract, BrokenDoc, Templated>>>>, <<<<Templated, Quoted>>, <<Commented>>>>}

\* What an operator may write: one path spelled in two ways, and the same put
\* right; a default mode; a mode, an owner, a credential set that will not do;
\* a directory of certificates of which os.Stat tells nothing.
MCHandStore == [NoStore EXCEPT !.address = "https://vault", !.authMethod = "token",
                               !.token = "${VAULT_TOKEN}"]
File(spelling, base) == [path |-> [spelling |-> spelling, dir |-> "s", base |-> base],
                         mode |-> NoMode, owner |-> "", group |-> "number"]
Secret(files) == [name |-> "s", key |-> "app", mountPath |-> "kv", namespace |-> "${UNSET}",
                  credentials |-> "", kvVersion |-> "v1", refreshInterval |-> 30,
                  templates |-> [f \in {"user", "pass"} |-> "renders"], files |-> files]
Hand(store, files) == [parses |-> TRUE, cfg |-> [store |-> store, secrets |-> <<Secret(files)>>]]
TwoSpellings == <<File("clean", "user"), File("relative", "user")>>
TwoFiles == <<File("clean", "user"), File("relative", "pass")>>
Named == [MCHandStore EXCEPT !.credentials =
            [n \in {"team"} |-> [authMethod |-> "approle", token |-> "", roleId |-> "r",
                                 secretId |-> "${UNSET}"]]]
MCHandwritten ==
    {Hand(MCHandStore, TwoSpellings), Hand(MCHandStore, TwoFiles), Hand(Named, TwoFiles),
     Hand([MCHandStore EXCEPT !.token = "${UNSET}"], TwoFiles),
     Hand(MCHandStore, [TwoFiles EXCEPT ![1].mode = 438]),
     Hand([MCHandStore EXCEPT !.tls.caPath = "unknown"], TwoFiles),
     [Hand(MCHandStore, TwoFiles) EXCEPT !.parses = FALSE]}
=============================================================================
