----------------------------- MODULE WakeSignal -----------------------------
(***************************************************************************)
(* What the processing queue promises.  An id handed to `enqueue` waits    *)
(* until a run of the pipeline starts; a run takes everything that waits,  *)
(* in order, and nothing else; one run serves at a time, and none starts   *)
(* for nothing.  As the run reads the table after it has started, no id is *)
(* consumed by a run that took its snapshot before the id was enqueued.    *)
(***************************************************************************)
EXTENDS Naturals, Sequences

CONSTANT Files

VARIABLES
    unserved,  \* ids that no run has started for, in the order they came
    serving    \* ids the current run of the drain has started for

vars == <<unserved, serving>>

Init == unserved = <<>> /\ serving = <<>>

Notify(f) ==
    /\ unserved' = Append(unserved, f)
    /\ UNCHANGED serving

Serve ==
    /\ unserved # <<>> /\ serving = <<>>
    /\ serving' = unserved
    /\ unserved' = <<>>

Done ==
    /\ serving # <<>>
    /\ serving' = <<>>
    /\ UNCHANGED unserved

Next ==
    \/ \E f \in Files : Notify(f)
    \/ Serve
    \/ Done

\* What waits is served, and what is served is done.
Fairness == WF_vars(Serve) /\ WF_vars(Done)

Safe == Init /\ [][Next]_vars
Spec == Safe /\ Fairness
=============================================================================
