---------------------------- MODULE MCSecretFiles ----------------------------
(* An instance of SecretFiles for TLC. *)
EXTENDS SecretFiles

CONSTANTS p, q, r, user, pass, good, clash

\* p is /a/user, q is /a/pass and r is /b/user.
Base == [f \in Files |-> IF f = q THEN pass ELSE user]
\* The second description passes validation, two files for two templates, but
\* both files have the same basename.
Lists == [c \in Confs |-> IF c = good THEN <<p, q>> ELSE <<p, r>>]
Names == [c \in Confs |-> {user, pass}]

\* Start with the first description; a restart may find either.
InitGood == Init /\ conf = All(good)
FromGood == InitGood /\ [][Next]_vars /\ Fairness
=============================================================================
