---------------------------- MODULE Transcripts ----------------------------
(***************************************************************************)
(* What the pipeline and the edits promise about the outputs of the LLM,   *)
(* as the entries page shows them.  A file has at most one entry.  An      *)
(* output goes into the very entry it was asked for, or nowhere: not into  *)
(* one that was transcribed anew while the LLM was at work.  FilePipeline  *)
(* is shown to implement this, over rows with ids and runs that remember   *)
(* them across an await.                                                   *)
(***************************************************************************)
CONSTANTS
    Files,
    Columns   \* of an entry, each filled by an LLM call

VARIABLES
    held,     \* files that have an entry
    output,   \* its columns, "null" without an entry
    asked     \* the columns that calls in progress are to fill

vars == <<held, output, asked>>

Blank == [c \in Columns |-> "null"]

Init ==
    /\ held = {}
    /\ output = [f \in Files |-> Blank]
    /\ asked = {}

Insert(f) ==
    /\ f \notin held
    /\ held' = held \cup {f}
    /\ UNCHANGED <<output, asked>>

Ask(f, c) ==
    /\ f \in held
    /\ asked' = asked \cup {<<f, c>>}
    /\ UNCHANGED <<held, output>>

\* Overlapping runs may have asked for the same column.
Answer(f, c, v) ==
    /\ <<f, c>> \in asked
    /\ output' = [output EXCEPT ![f][c] = v]
    /\ asked' \in {asked, asked \ {<<f, c>>}}
    /\ UNCHANGED held

GiveUp(f, c) ==
    /\ asked' = asked \ {<<f, c>>}
    /\ UNCHANGED <<held, output>>

\* Calls in progress for an entry that is removed are for nothing.
Remove(F) ==
    /\ held' = held \ F
    /\ output' = [f \in Files |-> IF f \in F THEN Blank ELSE output[f]]
    /\ asked' = {p \in asked : p[1] \notin F}

Clear(f, C) ==
    /\ output' = [output EXCEPT ![f] = [c \in Columns |-> IF c \in C THEN "null" ELSE @[c]]]
    /\ UNCHANGED <<held, asked>>

Restart ==
    /\ asked' = {}
    /\ UNCHANGED <<held, output>>

Next ==
    \/ \E f \in Files, c \in Columns :
          \/ Ask(f, c)
          \/ GiveUp(f, c)
          \/ \E v \in {"text", "empty"} : Answer(f, c, v)
    \/ \E f \in Files : Insert(f)
    \/ \E F \in SUBSET Files : Remove(F)
    \/ \E f \in Files, C \in SUBSET Columns : Clear(f, C)
    \/ Restart

Spec == Init /\ [][Next]_vars
=============================================================================
