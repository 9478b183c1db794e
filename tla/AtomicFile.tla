------------------------------ MODULE AtomicFile ------------------------------
(***************************************************************************)
(* What a caller of Writer.WriteFile (internal/filewriter/writer.go) may   *)
(* rely on.  A call names an output file and its new content.  It returns  *)
(* nil exactly when the file got that content, in one step that no reader  *)
(* sees the middle of; when it returns an error, or the process dies       *)
(* during the call, the file is as the other calls left it.  No file that  *)
(* exists ever disappears.                                                 *)
(***************************************************************************)
CONSTANTS
    Writers,    \* goroutines that call WriteFile
    Paths,      \* output files
    Contents,   \* complete contents
    Absent,     \* of a file that does not exist
    NoCall      \* of a goroutine that is not in WriteFile

VARIABLES
    target,     \* the output files as a reader finds them
    call        \* the call each goroutine is in

vars == <<target, call>>

Call == [path : Paths, content : Contents]

Init ==
    /\ target = [p \in Paths |-> Absent]
    /\ call = [w \in Writers |-> NoCall]

Begin(w, c) ==
    /\ call[w] = NoCall
    /\ call' = [call EXCEPT ![w] = c]
    /\ UNCHANGED target

\* The call returns nil.
Publish(w) ==
    /\ call[w] # NoCall
    /\ target' = [target EXCEPT ![call[w].path] = call[w].content]
    /\ call' = [call EXCEPT ![w] = NoCall]

\* The call returns an error.
Fail(w) ==
    /\ call[w] # NoCall
    /\ call' = [call EXCEPT ![w] = NoCall]
    /\ UNCHANGED target

\* The process dies.
Crash ==
    /\ call' = [w \in Writers |-> NoCall]
    /\ UNCHANGED target

Next ==
    \/ \E w \in Writers : \/ \E c \in Call : Begin(w, c)
                          \/ Publish(w) \/ Fail(w)
    \/ Crash

Spec == Init /\ [][Next]_vars
=============================================================================
