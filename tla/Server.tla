------------------------------- MODULE Server -------------------------------
(***************************************************************************)
(* The server as a whole: the pipeline of FilePipeline, in which one batch *)
(* is the drain's, and the queue, as WakeSignal promises it and WorkQueue  *)
(* keeps it.  In FilePipeline a batch may start at any time; here the      *)
(* drain's starts when there is something in the queue, which upload_file  *)
(* and batch_reset put there and nobody else does.                         *)
(***************************************************************************)
EXTENDS FilePipeline, Sequences

CONSTANTS
    Drain,      \* the batch that drain_queue runs; the others are the users'
    MaxPending  \* bound: ids that no run of the drain has started for

ASSUME DrainAssumption == Drain \in Batches /\ MaxPending \in Nat

VARIABLES
    unserved,  \* ids enqueued that no run of the drain has started for
    serving    \* ids its current run has started for

signal == <<unserved, serving>>
serverVars == <<status, owner, column, run, loop, crashes, unserved, serving>>

Queue == INSTANCE WakeSignal

-----------------------------------------------------------------------------
(* Requests that enqueue, after their commit and in the same slice.        *)

\* Mutated: the ids are not put on the queue.
EnqueuedNone(ids) == unserved

Enqueued(ids) == unserved \o ids

UploadAndEnqueue(f) ==
    /\ Len(unserved) < MaxPending
    /\ Upload(f)
    /\ unserved' = Enqueued(<<f>>)
    /\ UNCHANGED serving

\* The `ids` of a batch_reset: in any order, with repetitions.
Bodies == UNION {[1 .. n -> Files] : n \in 1 .. MaxPending}

ResetAndEnqueue(ids) ==
    /\ Len(unserved) + Len(ids) <= MaxPending
    /\ ResetFiles({ids[k] : k \in DOMAIN ids})
    /\ unserved' = Enqueued(ids)
    /\ UNCHANGED serving

-----------------------------------------------------------------------------
(* Runs.                                                                   *)

\* drain_queue takes what waits and calls process_pending_files.
DrainServes ==
    /\ Queue!Serve
    /\ StartBatch(Drain) \/ StartNothing(Drain)

\* The call has returned or raised: drain_queue waits for the next id.
DrainDone ==
    /\ loop = None /\ At(Drain, "idle")
    /\ Queue!Done
    /\ UNCHANGED vars

\* POST /api/process, POST /api/process/{file_id}
UserStarts ==
    /\ \/ \E t \in Batches \ {Drain} : StartBatch(t) \/ StartNothing(t)
       \/ \E t \in Singles, f \in Files : StartSingle(t, f)
    /\ UNCHANGED signal

Advance(t) == Step(t) /\ UNCHANGED signal

-----------------------------------------------------------------------------
(* What touches the tables and not the queue.                              *)

Edit ==
    /\ \/ \E F \in (SUBSET Files) \ {{}} : DeleteFiles(F)
       \/ \E i \in EntryIds :
             \/ DeleteEntry(i)
             \/ \E s \in LlmStages : ClearColumns(i, s)
    /\ UNCHANGED signal

\* The queue is memory: the lifespan starts with an empty one.
Restart ==
    /\ Crash
    /\ unserved' = <<>>
    /\ serving' = <<>>

-----------------------------------------------------------------------------

ServerInit == Init /\ Queue!Init

ServerNext ==
    \/ \E f \in Files : UploadAndEnqueue(f)
    \/ \E ids \in Bodies : ResetAndEnqueue(ids)
    \/ DrainServes
    \/ DrainDone
    \/ UserStarts
    \/ \E t \in Runs : Advance(t)
    \/ Edit
    \/ Restart

ServerSpec == ServerInit /\ [][ServerNext]_serverVars

\* asyncio resumes ready coroutines in FIFO order, so that the drain and each
\* run get the loop.  Nothing is assumed of the users, nor of the models but
\* that a call returns or raises.
ServerFairness ==
    /\ SF_serverVars(DrainServes)
    /\ SF_serverVars(DrainDone)
    /\ \A t \in Runs : SF_serverVars(Advance(t))

FairServerSpec == ServerSpec /\ ServerFairness

-----------------------------------------------------------------------------
(* Properties.                                                             *)

ServerTypeOK ==
    /\ TypeOK
    /\ unserved \in Seq(Files)
    /\ serving \in Seq(Files)

\* f's id is in the queue, or the run that the drain makes now will come to f
\* in its first stage.
Awaited(f) ==
    \/ \E k \in DOMAIN unserved : unserved[k] = f
    \/ run[Drain].stage = "transcribe" /\ f \in run[Drain].todo

\* No lost wake-up: until the first restart, and as long as no entry is
\* deleted, no file is left "pending" with nothing to make the drain look at
\* it, whatever other runs, resets and deletions do in the meantime.
PendingIsAwaited ==
    crashes = 0 => \A f \in Files : status[f] = "pending" => Awaited(f)

\* Under the same conditions every pending file is taken up, without anybody
\* asking for it.
PendingTakenUp ==
    \A f \in Files :
        status[f] = "pending" ~> status[f] # "pending" \/ crashes > 0
=============================================================================
