----------------------------- MODULE AudioStore -----------------------------
(***************************************************************************)
(* What the upload and deletion endpoints promise about audio: a content   *)
(* enters the store whole and at once, never twice, and leaves it only     *)
(* after somebody has asked to delete it.  UploadStore is shown to         *)
(* implement this, over a table and a directory that change one at a time. *)
(***************************************************************************)
CONSTANT Contents   \* the audio of a file, told apart by its SHA-256

VARIABLES
    held,     \* contents stored: a record of them and their audio, whole
    wanted    \* those nobody has asked to delete

vars == <<held, wanted>>

Init ==
    /\ held = {}
    /\ wanted = {}

Keep(c) ==
    /\ c \notin held
    /\ held' = held \cup {c}
    /\ wanted' = wanted \cup {c}

Ask(C) ==
    /\ wanted' = wanted \ C
    /\ UNCHANGED held

Drop(C) ==
    /\ C \subseteq held \ wanted
    /\ held' = held \ C
    /\ UNCHANGED wanted

Next ==
    \/ \E c \in Contents : Keep(c)
    \/ \E C \in SUBSET Contents : Ask(C) \/ Drop(C)

Spec == Init /\ [][Next]_vars
=============================================================================
