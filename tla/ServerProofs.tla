---------------------------- MODULE ServerProofs ----------------------------
(***************************************************************************)
(* The server runs the pipeline, so that what is proved of FilePipeline    *)
(* holds of it, and it loses no wake-up.                                   *)
(***************************************************************************)
EXTENDS Server, FilePipelineProofs, SequenceTheorems

-----------------------------------------------------------------------------
(* The pipeline.                                                           *)

LEMMA ServerStep == [ServerNext]_serverVars => [Next]_vars
<1> SUFFICES ASSUME [ServerNext]_serverVars PROVE [Next]_vars
  OBVIOUS
<1>1. CASE UNCHANGED serverVars
  BY <1>1 DEF serverVars, vars
<1>2. CASE \E f \in Files : UploadAndEnqueue(f)
  BY <1>2 DEF UploadAndEnqueue, Next, Request
<1>3. ASSUME NEW ids \in Bodies, ResetAndEnqueue(ids) PROVE [Next]_vars
  <2>1. ResetFiles({ids[k] : k \in DOMAIN ids})
    BY <1>3 DEF ResetAndEnqueue
  <2>2. PICK n \in 1 .. MaxPending : ids \in [1 .. n -> Files]
    BY DEF Bodies
  <2>3. 1 \in DOMAIN ids /\ ids[1] \in Files
    BY <2>2, DrainAssumption
  <2>4. {ids[k] : k \in DOMAIN ids} \in (SUBSET Files) \ {{}}
    BY <2>2, <2>3
  <2> QED BY <2>1, <2>4 DEF Next, Request
<1>4. CASE DrainServes
  BY <1>4, DrainAssumption DEF DrainServes, Next, Start
<1>5. CASE DrainDone
  BY <1>5 DEF DrainDone
<1>6. CASE UserStarts
  BY <1>6 DEF UserStarts, Next, Start
<1>7. CASE \E t \in Runs : Advance(t)
  BY <1>7 DEF Advance, Next
<1>8. CASE Edit
  BY <1>8 DEF Edit, Next, Request
<1>9. CASE Restart
  BY <1>9 DEF Restart, Next
<1> QED BY <1>1, <1>2, <1>3, <1>4, <1>5, <1>6, <1>7, <1>8, <1>9 DEF ServerNext

\* Every behaviour of the server is one of the pipeline: the queue takes
\* freedom away and adds none, and the invariants of FilePipeline hold here.
THEOREM ServerRunsPipeline == ServerSpec => Spec
<1>1. ServerInit => Init
  BY DEF ServerInit
<1> QED BY <1>1, ServerStep, PTL DEF ServerSpec, Spec

-----------------------------------------------------------------------------
(* Types.                                                                  *)

LEMMA BodiesAreSeqs == \A ids \in Bodies : ids \in Seq(Files)
<1> SUFFICES ASSUME NEW ids \in Bodies PROVE ids \in Seq(Files)
  OBVIOUS
<1>1. PICK n \in 1 .. MaxPending : ids \in [1 .. n -> Files]
  BY DEF Bodies
<1>2. n \in Nat
  BY DrainAssumption
<1> QED BY <1>1, <1>2, SeqDef

LEMMA ServerTypeNext ==
    ASSUME ServerTypeOK, [ServerNext]_serverVars
    PROVE  ServerTypeOK'
<1>1. TypeOK'
  BY ServerStep, TypeNext DEF ServerTypeOK
<1>2. <<>> \in Seq(Files)
  BY EmptySeq
<1>3. /\ unserved' \in Seq(Files)
      /\ serving' \in Seq(Files)
  <2>1. ASSUME NEW ids \in Seq(Files), unserved' = Enqueued(ids), serving' = serving
        PROVE  unserved' \in Seq(Files) /\ serving' \in Seq(Files)
    BY <2>1, ConcatProperties DEF ServerTypeOK, Enqueued
  <2>2. ASSUME NEW f \in Files, UploadAndEnqueue(f)
        PROVE  unserved' \in Seq(Files) /\ serving' \in Seq(Files)
    <3>1. <<f>> \in Seq(Files)
      OBVIOUS
    <3> QED BY <2>1, <2>2, <3>1 DEF UploadAndEnqueue
  <2>3. ASSUME NEW ids \in Bodies, ResetAndEnqueue(ids)
        PROVE  unserved' \in Seq(Files) /\ serving' \in Seq(Files)
    BY <2>1, <2>3, BodiesAreSeqs DEF ResetAndEnqueue
  <2>4. CASE DrainServes \/ DrainDone \/ Restart
    BY <1>2, <2>4 DEF ServerTypeOK, DrainServes, DrainDone, Restart,
       Queue!Serve, Queue!Done
  <2>5. CASE UNCHANGED signal
    BY <2>5 DEF ServerTypeOK, signal
  <2> QED BY <2>2, <2>3, <2>4, <2>5
          DEF ServerNext, UserStarts, Advance, Edit, signal, serverVars
<1> QED BY <1>1, <1>3 DEF ServerTypeOK

LEMMA ServerTypeInit == ServerInit => ServerTypeOK
BY TypeInit, EmptySeq DEF ServerInit, ServerTypeOK, Queue!Init

\* The tables, the runs and the queue stay within their types.
THEOREM ServerTypeCorrect == ServerSpec => []ServerTypeOK
BY ServerTypeInit, ServerTypeNext, PTL DEF ServerSpec

-----------------------------------------------------------------------------
(* No lost wake-up.                                                        *)

\* No run sets a file back to "pending".
LEMMA StepNeverPends ==
    ASSUME TypeOK, NEW t \in Runs, Step(t), NEW f \in Files, status'[f] = "pending"
    PROVE  status[f] = "pending"
<1>1. CASE status' = status
  BY <1>1
<1>2. CASE \E g \in Files : BeginTranscription(t, g) \/ AudioMissing(t, g)
  BY <1>2 DEF TypeOK, BeginTranscription, AudioMissing
<1>3. CASE TranscriptionFailed(t)
  BY <1>3 DEF TypeOK, TranscriptionFailed
<1>4. CASE SaveStatus(t) \/ Embedded(t)
  <2>1. \A s \in Stages : ToStatus(s) # "pending"
    BY DEF ToStatus, Stages, LlmStages
  <2>2. "extract" \in Stages /\ run[t].stage \in Stages
    BY DEF TypeOK, RunStates, Stages, LlmStages
  <2> QED BY <1>4, <2>1, <2>2 DEF TypeOK, SaveStatus, Embedded
<1> QED BY <1>1, <1>2, <1>3, <1>4
        DEF Step, Call, Answer, Error, EndStage, ProbeDone, Finish,
            CallUnusable, CallSkipped, CallFilled, BeginLlm, BeginEmbed,
            Transcribed, LlmReplied, Extracted, Replied, LlmFailed,
            SaveStatusFailed, EmbeddedRaises, database

\* Only a restart is counted.
LEMMA StepKeepsCrashes ==
    ASSUME NEW t \in Runs, Step(t)
    PROVE  crashes' = crashes
BY DEF Step, Call, Answer, Error, EndStage, ProbeDone, Finish, CallUnusable,
   CallSkipped, CallFilled, BeginTranscription, AudioMissing, BeginLlm,
   BeginEmbed, Transcribed, LlmReplied, Extracted, Replied,
   TranscriptionFailed, LlmFailed, SaveStatus, SaveStatusFailed, Embedded,
   EmbeddedRaises

\* f is still before t in its first stage.
Ahead(t, f) == run[t].stage = "transcribe" /\ f \in run[t].todo

\* A batch leaves no pending file of its first stage behind.
LEMMA StepKeepsAhead ==
    ASSUME TypeOK, EmbedsLast, NEW t \in Batches, Step(t), NEW f \in Files,
           status'[f] = "pending", Ahead(t, f)
    PROVE  Ahead(t, f)'
<1> t \in Runs
  BY DEF Runs
<1>1. run[t] \in RunStates /\ run[t].todo \in SUBSET Files
  BY DEF TypeOK, RunStates
<1>2. status[f] = "pending"
  BY <1>1, StepNeverPends
<1>3. run[t].stage = "transcribe" /\ f \in run[t].todo
  BY DEF Ahead
<1>4. ASSUME NEW todo, Proceed(t, todo), f \in todo PROVE Ahead(t, f)'
  BY <1>1, <1>3, <1>4 DEF TypeOK, Proceed, Ahead, RunStates
<1>5. ASSUME NEW g, ReportError(t, g) \/ ReportRaised(t, g), g # f PROVE Ahead(t, f)'
  BY <1>3, <1>4, <1>5 DEF ReportError, ReportRaised
<1>6. ASSUME NEW pc, NEW g, NEW i, Suspend(t, pc, g, i), g # f PROVE Ahead(t, f)'
  BY <1>1, <1>3, <1>6 DEF TypeOK, Suspend, Ahead, RunStates
<1>7. CASE EndStage(t) \/ Finish(t)
  BY <1>3, <1>7 DEF EndStage, Finish
<1>8. CASE ProbeDone(t) \/ SaveStatus(t) \/ Embedded(t)
  BY <1>3, <1>4, <1>8 DEF ProbeDone, SaveStatus, Embedded
<1>9. ASSUME NEW g \in Files, Call(t, g) PROVE Ahead(t, f)'
  <2>1. CASE CallUnusable(t, g)
    <3>1. ~Recorded(g)
      BY <1>3, <2>1 DEF CallUnusable, Unusable
    <3> QED BY <1>2, <1>5, <2>1, <3>1 DEF CallUnusable, Recorded, NoFile
  <2>2. CASE CallSkipped(t, g)
    <3>1. status[g] # "pending"
      BY <1>3, <2>2 DEF CallSkipped, Accepts
    <3> QED BY <1>2, <1>3, <1>4, <2>2, <3>1 DEF CallSkipped
  <2>3. CASE BeginTranscription(t, g)
    <3>1. g # f
      BY <2>3 DEF TypeOK, BeginTranscription
    <3> QED BY <1>6, <2>3, <3>1 DEF BeginTranscription
  <2>4. CASE AudioMissing(t, g)
    <3>1. g # f
      BY <2>4 DEF TypeOK, AudioMissing
    <3> QED BY <1>5, <2>4, <3>1 DEF AudioMissing
  <2>5. CASE CallFilled(t, g) \/ BeginLlm(t, g) \/ BeginEmbed(t, g)
    BY <1>3, <2>5 DEF CallFilled, BeginLlm, BeginEmbed, Callable, LlmStages
  <2> QED BY <1>9, <2>1, <2>2, <2>3, <2>4, <2>5 DEF Call
<1>10. ASSUME NEW i \in EntryIds, Transcribed(t, i) PROVE Ahead(t, f)'
  BY <1>1, <1>3, <1>10 DEF TypeOK, Transcribed, Ahead, RunStates
<1>11. CASE LlmReplied(t) \/ Extracted(t) \/ LlmFailed(t)
  BY <1>3, <1>11 DEF LlmReplied, Extracted, Replied, LlmFailed, LlmStages
<1>12. CASE TranscriptionFailed(t)
  <2>1. run[t].file # f
    BY <1>2, <1>12 DEF TypeOK, TranscriptionFailed, Recorded, NoFile
  <2> QED BY <1>5, <1>12, <2>1 DEF TranscriptionFailed
<1>13. CASE SaveStatusFailed(t)
  BY <1>2, <1>5, <1>13 DEF SaveStatusFailed, Recorded, NoFile
<1>14. CASE EmbeddedRaises(t)
  BY <1>1, <1>3, <1>14 DEF EmbeddedRaises, Resumes, At, EmbedsLast
<1> QED BY <1>7, <1>8, <1>9, <1>10, <1>11, <1>12, <1>13, <1>14
        DEF Step, Answer, Error

-----------------------------------------------------------------------------
(* The invariant.                                                          *)

\* Ids stay in the queue when others are put behind them, and those are in
\* it too.
LEMMA EnqueuedIds ==
    ASSUME unserved \in Seq(Files), NEW ids \in Seq(Files),
           unserved' = Enqueued(ids)
    PROVE  /\ \A k \in DOMAIN unserved :
                 \E l \in DOMAIN unserved' : unserved'[l] = unserved[k]
           /\ \A k \in DOMAIN ids :
                 \E l \in DOMAIN unserved' : unserved'[l] = ids[k]
<1> DEFINE both == unserved \o ids
<1>1. /\ Len(both) = Len(unserved) + Len(ids)
      /\ \A l \in 1 .. Len(unserved) + Len(ids) :
            both[l] = IF l <= Len(unserved) THEN unserved[l]
                                            ELSE ids[l - Len(unserved)]
  BY ConcatProperties
<1>2. unserved' = both /\ both \in Seq(Files)
  BY ConcatProperties DEF Enqueued
<1>3. /\ DOMAIN both = 1 .. Len(both)
      /\ DOMAIN unserved = 1 .. Len(unserved)
      /\ DOMAIN ids = 1 .. Len(ids)
      /\ Len(unserved) \in Nat /\ Len(ids) \in Nat
  BY <1>2, LenProperties
<1> HIDE DEF both
<1>4. ASSUME NEW k \in DOMAIN unserved
      PROVE  k \in DOMAIN both /\ both[k] = unserved[k]
  BY <1>1, <1>3
<1>5. ASSUME NEW k \in DOMAIN ids
      PROVE  Len(unserved) + k \in DOMAIN both /\ both[Len(unserved) + k] = ids[k]
  BY <1>1, <1>3
<1> QED BY <1>2, <1>4, <1>5

\* A request that enqueues: what was pending is still awaited, what has
\* become pending is in the queue.
LEMMA EnqueueAwaits ==
    ASSUME ServerTypeOK, PendingIsAwaited, NEW ids \in Seq(Files),
           unserved' = Enqueued(ids), UNCHANGED <<run, crashes>>,
           \A f \in Files : status'[f] = "pending" =>
               status[f] = "pending" \/ \E k \in DOMAIN ids : ids[k] = f
    PROVE  PendingIsAwaited'
<1> SUFFICES ASSUME crashes = 0, NEW f \in Files, status'[f] = "pending"
             PROVE  Awaited(f)'
  BY DEF PendingIsAwaited
<1>1. CASE status[f] = "pending"
  <2>1. Awaited(f)
    BY <1>1 DEF PendingIsAwaited
  <2> QED BY <2>1, EnqueuedIds DEF Awaited, ServerTypeOK
<1>2. CASE \E k \in DOMAIN ids : ids[k] = f
  BY <1>2, EnqueuedIds DEF Awaited, ServerTypeOK
<1> QED BY <1>1, <1>2

AwaitInv == ServerTypeOK /\ EmbedsLast /\ PendingIsAwaited

LEMMA AwaitNext ==
    ASSUME "delete_entry" \notin Requests, AwaitInv, [ServerNext]_serverVars
    PROVE  PendingIsAwaited'
<1> USE DEF AwaitInv
<1> TypeOK /\ Drain \in Runs
  BY DrainAssumption DEF ServerTypeOK, Runs
<1>1. ASSUME NEW f \in Files, UploadAndEnqueue(f) PROVE PendingIsAwaited'
  <2>1. <<f>> \in Seq(Files) /\ 1 \in DOMAIN <<f>> /\ <<f>>[1] = f
    OBVIOUS
  <2>2. \A g \in Files : status'[g] = "pending" => status[g] = "pending" \/ g = f
    BY <1>1 DEF UploadAndEnqueue, Upload, TypeOK
  <2> QED BY <1>1, <2>1, <2>2, EnqueueAwaits DEF UploadAndEnqueue, Upload
<1>2. ASSUME NEW ids \in Bodies, ResetAndEnqueue(ids) PROVE PendingIsAwaited'
  <2>1. \A g \in Files : status'[g] = "pending" =>
           status[g] = "pending" \/ \E k \in DOMAIN ids : ids[k] = g
    BY <1>2 DEF ResetAndEnqueue, ResetFiles
  <2> QED BY <1>2, <2>1, BodiesAreSeqs, EnqueueAwaits DEF ResetAndEnqueue, ResetFiles
<1>3. CASE DrainServes
  <2>1. CASE StartBatch(Drain)
    <3>1. /\ run'[Drain].stage = "transcribe"
          /\ run'[Drain].todo = Due(Drain, "transcribe", None)
      BY <2>1 DEF StartBatch, Idle, TypeOK
    <3>2. \A f \in Files : status'[f] = "pending" => f \in run'[Drain].todo
      BY <2>1, <3>1, DrainAssumption DEF StartBatch, database, Due, FromStatus
    <3> QED BY <3>1, <3>2 DEF PendingIsAwaited, Awaited
  <2>2. CASE StartNothing(Drain)
    <3>1. \A f \in Files : status[f] # "pending"
      BY <2>2 DEF StartNothing, Eligible, Stages, FromStatus
    <3> QED BY <2>2, <3>1 DEF StartNothing, vars, PendingIsAwaited
  <2> QED BY <1>3, <2>1, <2>2 DEF DrainServes
<1>4. ASSUME UNCHANGED unserved, UNCHANGED crashes,
             ASSUME NEW f \in Files, status'[f] = "pending"
             PROVE  status[f] = "pending" /\ (Ahead(Drain, f) => Ahead(Drain, f)')
      PROVE  PendingIsAwaited'
  BY <1>4 DEF PendingIsAwaited, Awaited, Ahead
<1>5. CASE DrainDone \/ UNCHANGED serverVars
  BY <1>4, <1>5 DEF DrainDone, Queue!Done, vars, serverVars, Ahead
<1>6. CASE UserStarts
  <2>1. ASSUME UNCHANGED <<status, crashes>>, run'[Drain] = run[Drain]
        PROVE  PendingIsAwaited'
    BY <1>4, <1>6, <2>1 DEF UserStarts, signal, Ahead
  <2>2. ASSUME NEW t \in Batches \ {Drain}, StartBatch(t) PROVE PendingIsAwaited'
    BY <2>1, <2>2 DEF StartBatch, database, TypeOK
  <2>3. ASSUME NEW t \in Singles, NEW f \in Files, StartSingle(t, f)
        PROVE  PendingIsAwaited'
    <3>1. t # Drain
      BY RunsDistinct, DrainAssumption
    <3> QED BY <2>1, <2>3, <3>1 DEF StartSingle, database, TypeOK
  <2>4. CASE UNCHANGED vars
    BY <1>4, <1>6, <2>4 DEF UserStarts, signal, vars, Ahead
  <2> QED BY <1>6, <2>2, <2>3, <2>4 DEF UserStarts, StartNothing
<1>7. ASSUME NEW t \in Runs, Advance(t) PROVE PendingIsAwaited'
  <2>1. Step(t) /\ unserved' = unserved /\ crashes' = crashes
    BY <1>7, StepKeepsCrashes DEF Advance, signal
  <2>2. ASSUME NEW f \in Files, status'[f] = "pending", Ahead(Drain, f)
        PROVE  Ahead(Drain, f)'
    <3>1. CASE t = Drain
      BY <2>1, <2>2, <3>1, StepKeepsAhead, DrainAssumption
    <3>2. CASE t # Drain
      BY <2>1, <2>2, <3>2, StepFrame DEF Ahead
    <3> QED BY <3>1, <3>2
  <2> QED BY <1>4, <2>1, <2>2, StepNeverPends
<1>8. CASE Edit
  <2>1. unserved' = unserved /\ crashes' = crashes /\ run' = run
    BY <1>8 DEF Edit, signal, DeleteFiles, DeleteEntry, ClearColumns
  <2>2. ASSUME NEW f \in Files, status'[f] = "pending" PROVE status[f] = "pending"
    <3>1. ASSUME NEW F, DeleteFiles(F) PROVE status[f] = "pending"
      BY <2>2, <3>1 DEF DeleteFiles
    <3>2. ASSUME NEW i \in EntryIds, NEW s \in LlmStages, ClearColumns(i, s)
          PROVE  status[f] = "pending"
      <4>1. FromStatus(s) # "pending"
        BY DEF LlmStages, FromStatus
      <4> QED BY <2>2, <3>2, <4>1 DEF ClearColumns, Reverted, TypeOK
    <3> QED BY <1>8, <3>1, <3>2 DEF Edit, DeleteEntry, Arrives
  <2> QED BY <1>4, <2>1, <2>2 DEF Ahead
<1>9. CASE Restart
  <2>1. crashes' # 0
    BY <1>9, InputsAssumption DEF Restart, Crash, TypeOK
  <2> QED BY <2>1 DEF PendingIsAwaited
<1> QED BY <1>1, <1>2, <1>3, <1>5, <1>6, <1>7, <1>8, <1>9 DEF ServerNext

\* No wake-up is lost: whatever users' runs, resets and deletions do in
\* between, until the first restart a pending file has its id in the queue or
\* is before the drain in the run it makes now.  Deleting an entry makes a
\* file pending without enqueuing it (routes/entries.py), hence the assumption.
THEOREM PendingHolds ==
    ASSUME "delete_entry" \notin Requests
    PROVE  ServerSpec => []PendingIsAwaited
<1>1. ServerInit => EmbedsLast /\ PendingIsAwaited
  BY DEF ServerInit, Init, EmbedsLast, PendingIsAwaited, Idle
<1>2. AwaitInv /\ [ServerNext]_serverVars => AwaitInv'
  <2> SUFFICES ASSUME AwaitInv, [ServerNext]_serverVars PROVE AwaitInv'
    OBVIOUS
  <2>1. ServerTypeOK' /\ TypeOK
    BY ServerTypeNext DEF AwaitInv, ServerTypeOK
  <2>2. EmbedsLast'
    BY <2>1, ServerStep, EmbedsLastNext DEF AwaitInv
  <2> QED BY <2>1, <2>2, AwaitNext DEF AwaitInv
<1>3. AwaitInv => PendingIsAwaited
  BY DEF AwaitInv
<1>4. ServerInit => AwaitInv
  BY <1>1, ServerTypeInit DEF AwaitInv
<1> QED BY <1>2, <1>3, <1>4, PTL DEF ServerSpec
=============================================================================
