----------------------------- MODULE WorkQueue ------------------------------
(***************************************************************************)
(* app/queue.py: the asyncio queue of file ids, the mirror that the queue  *)
(* panel reads, the id of the file being processed, and the drain that     *)
(* coalesces ids into one run of process_pending_files.  POST /api/process *)
(* runs the same function beside the drain.                                *)
(*                                                                         *)
(* From its wake-up to the first await of its run the drain keeps the      *)
(* event loop ("collect", "unmirror"); everything else waits.  All of this *)
(* is memory: a restart begins again from Init.                            *)
(***************************************************************************)
EXTENDS Naturals, Sequences, SequencesExt

CONSTANTS
    Files,       \* file ids
    Drain,       \* the run of process_pending_files that drain_queue makes
    Manuals,     \* those that trigger_process makes
    Debounce,    \* queue_coalesce_debounce_seconds > 0
    MaxPending,  \* bound: ids enqueued and not yet done
    None

ASSUME QueueAssumption ==
    /\ Drain \notin Manuals
    /\ Debounce \in BOOLEAN
    /\ MaxPending \in Nat
    /\ None \notin Files

VARIABLES
    queue,       \* _queue
    waiting,     \* _waiting_ids
    unfinished,  \* the unfinished-task count of _queue
    current,     \* _current_file_id
    pc,          \* where drain_queue is
    batch,       \* its batch_ids
    rest,        \* the part of batch_ids it has not taken off the mirror
    manual,      \* the manual runs under way
    working,     \* the file whose runner each run is awaiting, or None
    crossed      \* history: the runs under way that have met another one

vars == <<queue, waiting, unfinished, current, pc, batch, rest, manual,
          working, crossed>>

Runs == {Drain} \cup Manuals
Phases == {"get", "sleep", "collect", "unmirror", "run"}

LoopFree == pc \notin {"collect", "unmirror"}

Running(r) == IF r = Drain THEN pc = "run" ELSE r \in manual

\* Run r begins: it meets the runs that are under way, and they meet it.
Met(r) ==
    LET others == {o \in Runs \ {r} : Running(o)}
    IN  IF others = {} THEN crossed ELSE crossed \cup others \cup {r}

-----------------------------------------------------------------------------
(* The rest of the server.                                                 *)

\* enqueue, called by upload_file and batch_reset
Enqueue(f) ==
    /\ LoopFree
    /\ Len(queue) + Len(batch) < MaxPending
    /\ queue' = Append(queue, f)
    /\ waiting' = Append(waiting, f)
    /\ unfinished' = unfinished + 1
    /\ UNCHANGED <<current, pc, batch, rest, manual, working, crossed>>

ManualStart(m) ==
    /\ LoopFree /\ m \notin manual
    /\ manual' = manual \cup {m}
    /\ crossed' = Met(m)
    /\ UNCHANGED <<queue, waiting, unfinished, current, pc, batch, rest,
                   working>>

\* _run_stage comes to a file: set_current_file(fid), then awaits its runner
SetCurrent(r, f) ==
    /\ LoopFree /\ Running(r) /\ working[r] = None
    /\ current' = f
    /\ working' = [working EXCEPT ![r] = f]
    /\ UNCHANGED <<queue, waiting, unfinished, pc, batch, rest, manual,
                   crossed>>

\* The runner returns.  Nothing is set, and the next await may be the probe of
\* the LLM server: until the next file the panel shows the one that is over.
FileOver(r) ==
    /\ LoopFree /\ Running(r) /\ working[r] # None
    /\ working' = [working EXCEPT ![r] = None]
    /\ UNCHANGED <<queue, waiting, unfinished, current, pc, batch, rest, manual,
                   crossed>>

\* Mutated: set_current_file(None) is forgotten when a run is over.
ForgetNothing == current

\* set_current_file(None) in the `finally` of process_pending_files
Forget == None

ManualEnd(m) ==
    /\ LoopFree /\ m \in manual
    /\ manual' = manual \ {m}
    /\ current' = Forget
    /\ working' = [working EXCEPT ![m] = None]
    /\ crossed' = crossed \ {m}
    /\ UNCHANGED <<queue, waiting, unfinished, pc, batch, rest>>

-----------------------------------------------------------------------------
(* drain_queue.                                                            *)

Get ==
    /\ pc = "get" /\ queue # <<>>
    /\ batch' = <<Head(queue)>>
    /\ queue' = Tail(queue)
    /\ pc' = IF Debounce THEN "sleep" ELSE "collect"
    /\ UNCHANGED <<waiting, unfinished, current, rest, manual, working,
                   crossed>>

WakeUp ==
    /\ pc = "sleep"
    /\ pc' = "collect"
    /\ UNCHANGED <<queue, waiting, unfinished, current, batch, rest, manual,
                   working, crossed>>

\* batch_ids.append(_queue.get_nowait())
Collect ==
    /\ pc = "collect" /\ queue # <<>>
    /\ batch' = Append(batch, Head(queue))
    /\ queue' = Tail(queue)
    /\ UNCHANGED <<waiting, unfinished, current, pc, rest, manual, working,
                   crossed>>

\* Mutated: only the first id is taken off the mirror.
FirstCollected == <<Head(batch)>>

\* What the loop of _remove_from_waiting goes over.
Collected == batch

\* asyncio.QueueEmpty
CollectDone ==
    /\ pc = "collect" /\ queue = <<>>
    /\ pc' = "unmirror"
    /\ rest' = Collected
    /\ UNCHANGED <<queue, waiting, unfinished, current, batch, manual,
                   working, crossed>>

\* _remove_from_waiting
Unmirrored(f) ==
    IF waiting # <<>> /\ Head(waiting) = f THEN Tail(waiting)
                                           ELSE RemoveFirst(waiting, f)

Unmirror ==
    /\ pc = "unmirror" /\ rest # <<>>
    /\ waiting' = Unmirrored(Head(rest))
    /\ rest' = Tail(rest)
    /\ UNCHANGED <<queue, unfinished, current, pc, batch, manual, working,
                   crossed>>

RunStart ==
    /\ pc = "unmirror" /\ rest = <<>>
    /\ pc' = "run"
    /\ current' = None
    /\ crossed' = Met(Drain)
    /\ UNCHANGED <<queue, waiting, unfinished, batch, rest, manual, working>>

\* Mutated: an exception ends the drain.
AfterRunOnce == "stopped"

\* An exception of the run is logged, and the drain waits for the next id.
AfterRun == "get"

\* Mutated: one task_done for the whole batch.
OneTaskDone == 1

TasksDone == Len(batch)

\* Mutated: what came in during the run is taken for served by it.
LeftBehindNone == <<>>

\* What came in during the run stays for the next one.
LeftBehind == queue

RunEnd ==
    /\ pc = "run"
    /\ pc' = AfterRun
    /\ current' = Forget
    /\ working' = [working EXCEPT ![Drain] = None]
    /\ crossed' = crossed \ {Drain}
    /\ unfinished' = unfinished - TasksDone
    /\ queue' = LeftBehind
    /\ batch' = <<>>
    /\ UNCHANGED <<waiting, rest, manual>>

-----------------------------------------------------------------------------

Init ==
    /\ queue = <<>> /\ waiting = <<>> /\ unfinished = 0
    /\ current = None
    /\ pc = "get" /\ batch = <<>> /\ rest = <<>>
    /\ manual = {}
    /\ working = [r \in Runs |-> None]
    /\ crossed = {}

Drains ==
    \/ Get
    \/ WakeUp
    \/ Collect
    \/ CollectDone
    \/ Unmirror
    \/ RunStart
    \/ RunEnd

Next ==
    \/ \E f \in Files : Enqueue(f)
    \/ \E m \in Manuals : ManualStart(m) \/ ManualEnd(m)
    \/ \E r \in Runs, f \in Files : SetCurrent(r, f)
    \/ \E r \in Runs : FileOver(r)
    \/ Drains

Spec == Init /\ [][Next]_vars

\* The event loop resumes the drain when an id, the end of its sleep or the
\* end of its run lets it go on; a run ends (RunsTerminate of FilePipeline).
FairSpec == Spec /\ WF_vars(Drains)

-----------------------------------------------------------------------------
(* Properties.                                                             *)

TypeOK ==
    /\ queue \in Seq(Files) /\ waiting \in Seq(Files)
    /\ batch \in Seq(Files) /\ rest \in Seq(Files)
    /\ unfinished \in Nat
    /\ current \in Files \cup {None}
    /\ pc \in Phases
    /\ manual \subseteq Manuals
    /\ working \in [Runs -> Files \cup {None}]
    /\ crossed \subseteq Runs

\* The ids that no run has started for yet, in the order they came.
Unserved ==
    CASE pc \in {"sleep", "collect"} -> batch \o queue
      [] pc = "unmirror"             -> batch
      [] OTHER                       -> queue

\* Whenever a request can read the panel, the mirror shows exactly the ids
\* that no run has started for, in FIFO order, duplicates included; the ids a
\* sleeping drain has already taken off the asyncio queue are among them.
MirrorExact == LoopFree => waiting = Unserved

\* Each logical enqueue consumes one task_done, no more and no less, so that
\* _queue.join() returns exactly when nothing is queued or being run.
TaskCountExact == unfinished = Len(queue) + Len(batch)

\* The panel shows no current file once every run is over, and as long as a run
\* has met no other one it shows the file whose runner that run awaits: neither
\* the files before it nor the runs before it leave anything behind.  Between
\* two files and during the probes it may show a file that is over, though
\* set_current_file speaks of the file "actively" processed; and a run that
\* meets another loses its file to that one's, or to that one's end.
CurrentFollows ==
    /\ current # None => \E r \in Runs : Running(r)
    /\ \A r \in Runs \ crossed : working[r] # None => current = working[r]

\* The queue keeps the promise of WakeSignal, liveness included.
Signal == INSTANCE WakeSignal WITH
            unserved <- Unserved,
            serving  <- IF pc = "run" THEN batch ELSE <<>>

SignalSafe == Signal!Safe
SignalKept == Signal!Spec
=============================================================================
