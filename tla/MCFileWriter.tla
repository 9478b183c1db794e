----------------------------- MODULE MCFileWriter -----------------------------
(* An instance of FileWriter for TLC. *)
EXTENDS FileWriter

CONSTANTS d1, d2, w1, w2, a, b

Places == [p \in Paths |-> d1]
\* The name of the second directory is *, which matches both.
Patterns == [d \in Dirs |-> IF d = d1 THEN {d1} ELSE Dirs]

\* The bound on the calls: each writer has a content of its own.
Bounded ==
    \A w \in Writers :
       call'[w] # NoCall => call'[w].content = IF w = w1 THEN a ELSE b

BoundedSpec == Init /\ [][Next /\ Bounded]_vars /\ Fairness
=============================================================================
