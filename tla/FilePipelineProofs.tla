------------------------- MODULE FilePipelineProofs -------------------------
(***************************************************************************)
(* Invariants of FilePipeline for any files, entries, runs and requests,   *)
(* and any number of restarts.                                             *)
(***************************************************************************)
EXTENDS FilePipeline, TLAPS

USE DEF Runs

-----------------------------------------------------------------------------
(* What the helpers return.                                                *)

\* The tables of stages stay within the statuses, the stages and the columns.
LEMMA StageTables ==
    /\ \A s \in Stages : FromStatus(s) \in Statuses /\ ToStatus(s) \in Statuses
    /\ \A s \in Stages \ {"extract"} : NextStage(s) \in Stages
    /\ \A s \in LlmStages : ColumnOf(s) \in Columns
BY DEF Stages, LlmStages, FromStatus, ToStatus, NextStage, ColumnOf, Statuses,
       NoFile, Columns

\* The first entry of a file that has one is an entry of the file.
LEMMA FirstEntryOwned ==
    ASSUME NEW f, EntriesOf(f) # {}
    PROVE  FirstEntry(f) \in EntryIds /\ owner[FirstEntry(f)] = f
BY DEF FirstEntry, EntriesOf

\* A run that goes on holding the loop.
LEMMA ProceedEffect ==
    ASSUME TypeOK, NEW t \in Runs, NEW todo \in SUBSET Files, Proceed(t, todo)
    PROVE  /\ run' \in [Runs -> RunStates] /\ loop' = t
           /\ run'[t].pc = "next" /\ run'[t].row = None
           /\ run'[t].stage = run[t].stage
           /\ \A u \in Runs \ {t} : run'[u] = run[u]
BY DEF TypeOK, Proceed, RunStates, Phases

\* A run that awaits.
LEMMA SuspendEffect ==
    ASSUME TypeOK, NEW t \in Runs, NEW pc \in Phases, NEW f \in Files,
           NEW i \in EntryIds \cup {None}, Suspend(t, pc, f, i)
    PROVE  /\ run' \in [Runs -> RunStates] /\ loop' = None
           /\ run'[t].pc = pc /\ run'[t].row = i /\ run'[t].file = f
           /\ run'[t].stage = run[t].stage
           /\ \A u \in Runs \ {t} : run'[u] = run[u]
BY DEF TypeOK, Suspend, RunStates, Phases

\* A run that ends.
LEMMA EndEffect ==
    ASSUME TypeOK, NEW t \in Runs, End(t)
    PROVE  /\ run' \in [Runs -> RunStates] /\ loop' = None
           /\ run'[t] = Idle
           /\ \A u \in Runs \ {t} : run'[u] = run[u]
BY DEF TypeOK, End, Idle, RunStates, Phases, Stages

\* A run whose runner returned an error.
LEMMA ReportErrorEffect ==
    ASSUME TypeOK, NEW t \in Runs, NEW f, ReportError(t, f)
    PROVE  /\ run' \in [Runs -> RunStates]
           /\ \/ loop' = t /\ run'[t].pc = "next"
              \/ loop' = None /\ run'[t].pc = "idle"
           /\ run'[t].row = None
           /\ \A u \in Runs \ {t} : run'[u] = run[u]
<1>1. run[t].todo \ {f} \in SUBSET Files
  BY DEF TypeOK, RunStates
<1>2. CASE t \in Batches
  <2>1. Proceed(t, run[t].todo \ {f})
    BY <1>2 DEF ReportError
  <2> QED BY <1>1, <2>1, ProceedEffect
<1>3. CASE t \notin Batches
  <2>1. End(t)
    BY <1>3 DEF ReportError
  <2> QED BY <2>1, EndEffect DEF Idle
<1> QED BY <1>2, <1>3

\* So does a run whose runner returned the text of an exception, which may be
\* empty.
LEMMA ReportRaisedEffect ==
    ASSUME TypeOK, NEW t \in Runs, NEW f, ReportRaised(t, f)
    PROVE  /\ run' \in [Runs -> RunStates]
           /\ \/ loop' = t /\ run'[t].pc = "next"
              \/ loop' = None /\ run'[t].pc = "idle"
           /\ run'[t].row = None
           /\ \A u \in Runs \ {t} : run'[u] = run[u]
<1>1. run[t].todo \ {f} \in SUBSET Files
  BY DEF TypeOK, RunStates
<1> QED BY <1>1, ProceedEffect, ReportErrorEffect DEF ReportRaised

-----------------------------------------------------------------------------
(* Types.                                                                  *)

LEMMA TypeInit == Init => TypeOK
BY InputsAssumption DEF Init, TypeOK, Idle, RunStates, Phases, Stages, Blank,
   Values, Statuses, NoFile

\* A start leaves the tables alone and gives the loop to a typed run.
LEMMA TypeStart == TypeOK /\ Start => TypeOK'
<1> SUFFICES ASSUME TypeOK, Start PROVE TypeOK'
  OBVIOUS
<1>1. ASSUME NEW t \in Batches, StartBatch(t) PROVE TypeOK'
  BY <1>1, StageTables DEF TypeOK, StartBatch, database, Due, Idle, RunStates,
     Phases, Stages
<1>2. ASSUME NEW t \in Batches, StartNothing(t) PROVE TypeOK'
  BY <1>2 DEF TypeOK, StartNothing, vars
<1>3. ASSUME NEW t \in Singles, NEW f \in Files, StartSingle(t, f) PROVE TypeOK'
  <2>1. Due(t, "transcribe", f) \in SUBSET Files
    BY DEF Due
  <2> QED BY <1>3, <2>1 DEF TypeOK, StartSingle, database, Idle, RunStates,
             Phases, Stages
<1> QED BY <1>1, <1>2, <1>3 DEF Start

\* So does the part of a runner before its await.
LEMMA TypeCall ==
    ASSUME TypeOK, NEW t \in Runs, NEW f \in Files, Call(t, f)
    PROVE  TypeOK'
<1>1. run[t].todo \ {f} \in SUBSET Files
  BY DEF TypeOK, RunStates
<1>2. CASE CallUnusable(t, f)
  BY <1>2, ReportErrorEffect DEF TypeOK, CallUnusable, database
<1>3. CASE CallSkipped(t, f)
  BY <1>1, <1>3, ProceedEffect DEF TypeOK, CallSkipped, database
<1>4. CASE BeginTranscription(t, f)
  BY <1>4, SuspendEffect DEF TypeOK, BeginTranscription, Statuses, Phases
<1>5. CASE AudioMissing(t, f)
  BY <1>5, ReportErrorEffect DEF TypeOK, AudioMissing, Statuses
<1>6. CASE CallFilled(t, f)
  BY <1>1, <1>6, ProceedEffect DEF TypeOK, CallFilled, database
<1>7. CASE BeginLlm(t, f)
  <2>1. FirstEntry(f) \in EntryIds
    BY <1>7, FirstEntryOwned DEF BeginLlm, Callable
  <2> QED BY <1>7, <2>1, SuspendEffect DEF TypeOK, BeginLlm, database, Phases
<1>8. CASE BeginEmbed(t, f)
  <2>1. FirstEntry(f) \in EntryIds
    BY <1>8, FirstEntryOwned DEF BeginEmbed, Callable
  <2> QED BY <1>8, <2>1, SuspendEffect DEF TypeOK, BeginEmbed, database, Phases
<1> QED BY <1>2, <1>3, <1>4, <1>5, <1>6, <1>7, <1>8 DEF Call

\* And every other step of a run.
LEMMA TypeStep ==
    ASSUME TypeOK, NEW t \in Runs, Step(t)
    PROVE  TypeOK'
<1>1. run[t] \in RunStates /\ run[t].todo \in SUBSET Files
  BY DEF TypeOK, RunStates
<1>2. CASE EndStage(t)
  <2> DEFINE s == NextStage(run[t].stage)
  <2>1. s \in Stages
    BY <1>1, <1>2, StageTables DEF EndStage, RunStates
  <2>2. run' \in [Runs -> RunStates]
    <3>1. Due(t, s, run[t].file) \in SUBSET Files
      BY <1>1 DEF Due, RunStates
    <3> HIDE DEF s
    <3> QED BY <1>1, <1>2, <2>1, <3>1 DEF EndStage, TypeOK, RunStates, Phases, s
  <2> QED BY <1>2, <2>2 DEF EndStage, TypeOK, database
<1>3. CASE ProbeDone(t)
  BY <1>1, <1>3, ProceedEffect DEF TypeOK, ProbeDone, database
<1>4. CASE Finish(t)
  BY <1>4, EndEffect DEF TypeOK, Finish, database
<1>5. CASE \E f \in Files : Call(t, f)
  BY <1>5, TypeCall
<1>6. CASE \E i \in EntryIds : Transcribed(t, i)
  <2>1. PICK i \in EntryIds : Transcribed(t, i)
    BY <1>6
  <2>2. run' \in [Runs -> RunStates]
    BY <1>1, <2>1 DEF TypeOK, Transcribed, RunStates, Phases
  <2>3. owner' \in [EntryIds -> Files \cup {None}]
    BY <1>1, <2>1 DEF TypeOK, Transcribed, RunStates
  <2> QED BY <2>1, <2>2, <2>3 DEF TypeOK, Transcribed
<1>7. CASE LlmReplied(t)
  <2>1. PICK text \in Texts : Replied(t, text)
    BY <1>7 DEF LlmReplied
  <2>2. column' \in [EntryIds -> [Columns -> Values]]
    BY <2>1, StageTables, InputsAssumption DEF TypeOK, Replied, Values
  <2>3. run' \in [Runs -> RunStates]
    BY <1>1, <1>7 DEF LlmReplied, TypeOK, RunStates, Phases
  <2> QED BY <1>7, <2>1, <2>2, <2>3 DEF TypeOK, LlmReplied, Replied
<1>8. CASE Extracted(t)
  <2>1. column' \in [EntryIds -> [Columns -> Values]]
    BY <1>8, StageTables DEF TypeOK, Extracted, Replied, Values
  <2>2. run' \in [Runs -> RunStates] /\ loop' = None
    BY <1>1, <1>8 DEF TypeOK, Extracted, Suspend, RunStates, Phases
  <2> QED BY <1>8, <2>1, <2>2 DEF TypeOK, Extracted, Replied
<1>9. CASE TranscriptionFailed(t)
  BY <1>9, ReportRaisedEffect DEF TypeOK, TranscriptionFailed, Statuses
<1>10. CASE LlmFailed(t)
  BY <1>10, ReportRaisedEffect DEF TypeOK, LlmFailed, database
<1>11. CASE SaveStatus(t)
  BY <1>1, <1>11, ProceedEffect, StageTables DEF TypeOK, SaveStatus, RunStates
<1>12. CASE SaveStatusFailed(t)
  BY <1>12, ReportErrorEffect DEF TypeOK, SaveStatusFailed, database
<1>13. CASE Embedded(t)
  <2>1. ToStatus("extract") \in Statuses
    BY StageTables DEF Stages, LlmStages
  <2>2. run' \in [Runs -> RunStates] /\ loop' = t
    BY <1>1, <1>13, ProceedEffect DEF Embedded
  <2> QED BY <1>13, <2>1, <2>2 DEF TypeOK, Embedded
<1>14. CASE EmbeddedRaises(t)
  BY <1>14, EndEffect DEF TypeOK, EmbeddedRaises, database
<1> QED BY <1>2, <1>3, <1>4, <1>5, <1>6, <1>7, <1>8, <1>9, <1>10, <1>11,
           <1>12, <1>13, <1>14 DEF Step, Answer, Error

\* A request writes reverted statuses and deletes or blanks rows.
LEMMA TypeRequest == TypeOK /\ Request => TypeOK'
<1> SUFFICES ASSUME TypeOK, Request PROVE TypeOK'
  OBVIOUS
<1>1. ASSUME NEW I, WithoutRows(I)
      PROVE  /\ owner' \in [EntryIds -> Files \cup {None}]
             /\ column' \in [EntryIds -> [Columns -> Values]]
  BY <1>1 DEF TypeOK, WithoutRows, Blank, Values
<1>2. \A f, s : s \in Stages => Reverted(f, s) \in [Files -> Statuses]
  BY StageTables DEF TypeOK, Reverted
<1>3. ASSUME NEW f \in Files, Upload(f) PROVE TypeOK'
  BY <1>3 DEF TypeOK, Upload, Statuses
<1>4. ASSUME NEW F \in SUBSET Files, DeleteFiles(F) PROVE TypeOK'
  BY <1>1, <1>4 DEF TypeOK, DeleteFiles, Statuses, NoFile
<1>5. ASSUME NEW F \in SUBSET Files, ResetFiles(F) PROVE TypeOK'
  BY <1>1, <1>5 DEF TypeOK, ResetFiles, Statuses
<1>6. ASSUME NEW i \in EntryIds, DeleteEntry(i) PROVE TypeOK'
  BY <1>1, <1>2, <1>6 DEF TypeOK, DeleteEntry, Stages
<1>7. ASSUME NEW i \in EntryIds, NEW s \in LlmStages, ClearColumns(i, s)
      PROVE  TypeOK'
  <2>1. column' \in [EntryIds -> [Columns -> Values]]
    BY <1>7 DEF TypeOK, ClearColumns, Values
  <2> QED BY <1>2, <1>7, <2>1 DEF TypeOK, ClearColumns, Stages
<1> QED BY <1>3, <1>4, <1>5, <1>6, <1>7 DEF Request

\* A restart forgets the runs and leaves no file in "processing".
LEMMA TypeCrash == TypeOK /\ Crash => TypeOK'
BY InputsAssumption DEF TypeOK, Crash, Recovered, Idle, RunStates, Phases,
   Stages, Statuses

LEMMA TypeNext == TypeOK /\ [Next]_vars => TypeOK'
<1> SUFFICES ASSUME TypeOK, [Next]_vars PROVE TypeOK'
  OBVIOUS
<1>1. CASE UNCHANGED vars
  BY <1>1 DEF TypeOK, vars
<1> QED BY <1>1, TypeStart, TypeStep, TypeRequest, TypeCrash DEF Next

\* The tables and the local states of the runs stay within their types.
THEOREM TypeCorrect == Spec => []TypeOK
BY TypeInit, TypeNext, PTL DEF Spec

-----------------------------------------------------------------------------
(* A file never has two entries.                                           *)

\* A transcription goes to the entry the file has, or to a new row when it
\* has none; no row another run remembers changes hands.
LEMMA TranscribedEffect ==
    ASSUME TypeOK, NEW t \in Runs, NEW i \in EntryIds, Transcribed(t, i)
    PROVE  /\ owner' = [owner EXCEPT ![i] = run[t].file]
           /\ \/ owner[i] = run[t].file
              \/ /\ owner[i] = None /\ EntriesOf(run[t].file) = {}
                 /\ \A u \in Runs : run[u].row # i
<1>1. i \in TargetRows(run[t].file) /\ owner' = [owner EXCEPT ![i] = run[t].file]
  BY DEF Transcribed
<1>2. CASE EntriesOf(run[t].file) # {}
  BY <1>1, <1>2, FirstEntryOwned DEF TargetRows
<1>3. CASE EntriesOf(run[t].file) = {}
  BY <1>1, <1>3 DEF TargetRows, FreshIds
<1> QED BY <1>1, <1>2, <1>3

\* Deleting rows leaves no file with more of them.
LEMMA WithoutRowsOwner ==
    ASSUME NEW I, WithoutRows(I)
    PROVE  \A i \in EntryIds : owner'[i] = IF i \in I THEN None ELSE owner[i]
BY DEF WithoutRows

\* The only steps that touch the ownership of entries.
LEMMA OwnerChange ==
    ASSUME TypeOK, [Next]_vars
    PROVE  \/ owner' = owner
           \/ \E t \in Runs, i \in EntryIds : Transcribed(t, i)
           \/ Request /\ \E I : WithoutRows(I)
<1>1. CASE Start \/ Crash \/ UNCHANGED vars
  BY <1>1 DEF Start, StartBatch, StartNothing, StartSingle, Crash, database, vars
<1>2. ASSUME NEW t \in Runs, Step(t)
      PROVE  owner' = owner \/ \E i \in EntryIds : Transcribed(t, i)
  BY <1>2 DEF Step, Call, Answer, Error, EndStage, ProbeDone, Finish,
     CallUnusable, CallSkipped, BeginTranscription, AudioMissing, CallFilled,
     BeginLlm, BeginEmbed, LlmReplied, Extracted, Replied, TranscriptionFailed,
     LlmFailed, SaveStatus, SaveStatusFailed, Embedded, EmbeddedRaises, database
<1>3. CASE Request
  BY <1>3 DEF Request, Upload, DeleteFiles, ResetFiles, DeleteEntry, ClearColumns
<1> QED BY <1>1, <1>2, <1>3 DEF Next

LEMMA OneEntryNext ==
    ASSUME TypeOK, OneEntryPerFile, [Next]_vars
    PROVE  OneEntryPerFile'
<1>1. CASE owner' = owner
  BY <1>1 DEF OneEntryPerFile
<1>2. ASSUME NEW t \in Runs, NEW i \in EntryIds, Transcribed(t, i)
      PROVE  OneEntryPerFile'
  BY <1>2, TranscribedEffect DEF TypeOK, OneEntryPerFile, EntriesOf
<1>3. ASSUME NEW I, WithoutRows(I) PROVE OneEntryPerFile'
  BY <1>3, WithoutRowsOwner DEF OneEntryPerFile
<1> QED BY <1>1, <1>2, <1>3, OwnerChange

\* No interleaving of runs, edits and restarts gives a file two entries.
THEOREM OneEntryHolds == Spec => []OneEntryPerFile
<1>1. Init => OneEntryPerFile
  BY DEF Init, OneEntryPerFile
<1>2. TypeOK /\ OneEntryPerFile /\ [Next]_vars => OneEntryPerFile'
  BY OneEntryNext
<1> QED BY <1>1, <1>2, TypeCorrect, PTL DEF Spec

-----------------------------------------------------------------------------
(* The event loop.                                                         *)

\* A run between two commits, or at the head of its loop, holds the event
\* loop; one that is suspended or idle does not.
LoopHeld ==
    \A t \in Runs : run[t].pc \in {"next", "saved"} <=> loop = t

\* A step of a run moves only that run, which has the loop or takes it while
\* it is free, and keeps it exactly while it is not suspended.
LEMMA StepFrame ==
    ASSUME TypeOK, NEW t \in Runs, Step(t)
    PROVE  /\ \A u \in Runs \ {t} : run'[u] = run[u]
           /\ loop \in {t, None} /\ loop' \in {t, None}
           /\ run'[t].pc \in {"next", "saved"} <=> loop' = t
<1>1. t # None /\ run[t] \in RunStates /\ run[t].todo \in SUBSET Files
  BY NoneIsNoId DEF TypeOK, RunStates
<1>2. CASE EndStage(t)
  BY <1>1, <1>2 DEF EndStage, TypeOK, RunStates
<1>3. CASE ProbeDone(t)
  BY <1>1, <1>3, ProceedEffect DEF ProbeDone
<1>4. CASE Finish(t)
  BY <1>1, <1>4, EndEffect DEF Finish, Idle
<1>5. ASSUME NEW f \in Files, Call(t, f)
      PROVE  /\ \A u \in Runs \ {t} : run'[u] = run[u]
             /\ loop = t /\ loop' \in {t, None}
             /\ run'[t].pc \in {"next", "saved"} <=> loop' = t
  <2>1. run[t].todo \ {f} \in SUBSET Files
    BY <1>1
  <2>2. CASE CallUnusable(t, f)
    BY <1>1, <2>2, ReportErrorEffect DEF CallUnusable, Calls
  <2>3. CASE CallSkipped(t, f)
    BY <2>1, <2>3, ProceedEffect DEF CallSkipped, Calls
  <2>4. CASE BeginTranscription(t, f)
    BY <1>1, <2>4, SuspendEffect DEF BeginTranscription, Calls, Phases
  <2>5. CASE AudioMissing(t, f)
    BY <1>1, <2>5, ReportErrorEffect DEF AudioMissing, Calls
  <2>6. CASE CallFilled(t, f)
    BY <2>1, <2>6, ProceedEffect DEF CallFilled, Callable, Calls
  <2>7. CASE BeginLlm(t, f)
    <3>1. FirstEntry(f) \in EntryIds
      BY <2>7, FirstEntryOwned DEF BeginLlm, Callable
    <3> QED BY <1>1, <2>7, <3>1, SuspendEffect DEF BeginLlm, Callable, Calls, Phases
  <2>8. CASE BeginEmbed(t, f)
    <3>1. FirstEntry(f) \in EntryIds
      BY <2>8, FirstEntryOwned DEF BeginEmbed, Callable
    <3> QED BY <1>1, <2>8, <3>1, SuspendEffect DEF BeginEmbed, Callable, Calls, Phases
  <2> QED BY <1>5, <2>2, <2>3, <2>4, <2>5, <2>6, <2>7, <2>8 DEF Call
<1>6. ASSUME NEW i \in EntryIds, Transcribed(t, i)
      PROVE  /\ \A u \in Runs \ {t} : run'[u] = run[u]
             /\ loop = None /\ loop' = t /\ run'[t].pc = "saved"
  BY <1>1, <1>6 DEF TypeOK, Transcribed, Resumes, RunStates
<1>7. CASE LlmReplied(t)
  BY <1>1, <1>7 DEF TypeOK, LlmReplied, Replied, Resumes, RunStates
<1>8. CASE Extracted(t)
  BY <1>1, <1>8 DEF TypeOK, Extracted, Replied, Resumes, Suspend, RunStates
<1>9. CASE TranscriptionFailed(t)
  BY <1>1, <1>9, ReportRaisedEffect DEF TranscriptionFailed, Resumes
<1>10. CASE LlmFailed(t)
  BY <1>1, <1>10, ReportRaisedEffect DEF LlmFailed, Resumes
<1>11. CASE SaveStatus(t)
  BY <1>1, <1>11, ProceedEffect DEF SaveStatus
<1>12. CASE SaveStatusFailed(t)
  BY <1>1, <1>12, ReportErrorEffect DEF SaveStatusFailed
<1>13. CASE Embedded(t)
  BY <1>1, <1>13, ProceedEffect DEF Embedded, Resumes
<1>14. CASE EmbeddedRaises(t)
  BY <1>1, <1>14, EndEffect DEF EmbeddedRaises, Resumes, Idle
<1> QED BY <1>2, <1>3, <1>4, <1>5, <1>6, <1>7, <1>8, <1>9, <1>10, <1>11,
           <1>12, <1>13, <1>14 DEF Step, Answer, Error

\* A start moves one idle run, and only while the loop is free.
LEMMA StartFrame ==
    ASSUME TypeOK, Start
    PROVE  \/ UNCHANGED vars
           \/ \E t \in Runs :
                 /\ \A u \in Runs \ {t} : run'[u] = run[u]
                 /\ run[t].pc = "idle" /\ loop = None
                 /\ run'[t].pc = "next" /\ loop' = t
                 /\ run'[t].stage = "transcribe" /\ run'[t].row = None
                 /\ UNCHANGED database
<1>1. ASSUME NEW t \in Batches, StartBatch(t)
      PROVE  /\ \A u \in Runs \ {t} : run'[u] = run[u]
             /\ run[t].pc = "idle" /\ loop = None
             /\ run'[t].pc = "next" /\ loop' = t
             /\ run'[t].stage = "transcribe" /\ run'[t].row = None
             /\ UNCHANGED database
  BY <1>1 DEF TypeOK, StartBatch, At, Idle
<1>2. ASSUME NEW t \in Singles, NEW f \in Files, StartSingle(t, f)
      PROVE  /\ \A u \in Runs \ {t} : run'[u] = run[u]
             /\ run[t].pc = "idle" /\ loop = None
             /\ run'[t].pc = "next" /\ loop' = t
             /\ run'[t].stage = "transcribe" /\ run'[t].row = None
             /\ UNCHANGED database
  BY <1>2 DEF TypeOK, StartSingle, At, Idle
<1> QED BY <1>1, <1>2 DEF Start, StartNothing

\* A request finds the loop free, leaves it so, and moves no run.
LEMMA RequestFrame ==
    ASSUME Request
    PROVE  loop = None /\ UNCHANGED <<run, loop>>
BY DEF Request, Upload, DeleteFiles, ResetFiles, DeleteEntry, ClearColumns, Arrives

LEMMA LoopHeldNext ==
    ASSUME TypeOK, LoopHeld, [Next]_vars
    PROVE  LoopHeld'
<1>1. CASE UNCHANGED vars
  BY <1>1 DEF LoopHeld, vars
<1>2. CASE Start
  BY <1>1, <1>2, StartFrame, NoneIsNoId DEF LoopHeld
<1>3. ASSUME NEW t \in Runs, Step(t) PROVE LoopHeld'
  BY <1>3, StepFrame, NoneIsNoId DEF LoopHeld
<1>4. CASE Request
  BY <1>4, RequestFrame DEF LoopHeld
<1>5. CASE Crash
  BY <1>5, NoneIsNoId DEF LoopHeld, Crash, Idle
<1> QED BY <1>1, <1>2, <1>3, <1>4, <1>5 DEF Next

-----------------------------------------------------------------------------
(* "processing" is never stranded.                                         *)

LEMMA NoStrandedStep ==
    ASSUME TypeOK, NoStrandedProcessing, NEW t \in Runs, Step(t)
    PROVE  NoStrandedProcessing'
<1> SUFFICES ASSUME NEW f \in Files, status'[f] = "processing"
             PROVE  \E u \in Runs : Transcribing(u, f)'
  BY DEF NoStrandedProcessing
<1>1. \A u \in Runs \ {t} : run'[u] = run[u]
  BY StepFrame
\* Every action of t either has t transcribe f afterwards, or leaves f alone
\* while t was not transcribing it.
<1>2. \/ Transcribing(t, f)'
      \/ status[f] = "processing" /\ ~Transcribing(t, f)
  <2>1. CASE EndStage(t)
    BY <2>1 DEF EndStage, At, Transcribing, database
  <2>2. CASE ProbeDone(t)
    BY <2>2 DEF ProbeDone, At, Transcribing, database
  <2>3. CASE Finish(t)
    BY <2>3 DEF Finish, At, Transcribing, database
  <2>4. ASSUME NEW g \in Files, Call(t, g)
        PROVE  \/ Transcribing(t, f)'
               \/ status[f] = "processing" /\ ~Transcribing(t, f)
    <3>1. ~Transcribing(t, f)
      BY <2>4 DEF Call, CallUnusable, CallSkipped, BeginTranscription,
         AudioMissing, CallFilled, BeginLlm, BeginEmbed, Callable, Calls, At,
         Transcribing
    <3>2. CASE BeginTranscription(t, g) /\ f = g
      BY <3>2, SuspendEffect DEF BeginTranscription, Transcribing, Phases
    <3>3. CASE BeginTranscription(t, g) /\ f # g
      BY <3>1, <3>3 DEF TypeOK, BeginTranscription
    <3>4. CASE AudioMissing(t, g)
      BY <3>1, <3>4 DEF TypeOK, AudioMissing
    <3>5. CASE status' = status
      BY <3>1, <3>5
    <3> QED BY <2>4, <3>2, <3>3, <3>4, <3>5 DEF Call, CallUnusable, CallSkipped,
               CallFilled, BeginLlm, BeginEmbed, database
  <2>5. ASSUME NEW i \in EntryIds, Transcribed(t, i)
        PROVE  \/ Transcribing(t, f)'
               \/ status[f] = "processing" /\ ~Transcribing(t, f)
    BY <2>5 DEF TypeOK, Transcribed, Resumes, At, Transcribing, RunStates
  <2>6. CASE LlmReplied(t)
    BY <2>6 DEF LlmReplied, Replied, Transcribing, LlmStages
  <2>7. CASE Extracted(t)
    BY <2>7 DEF Extracted, Replied, Transcribing, LlmStages
  <2>8. CASE TranscriptionFailed(t)
    <3>1. status'[f] = IF f # run[t].file THEN status[f]
                       ELSE IF Recorded(f) THEN "failed" ELSE status[f]
      BY <2>8 DEF TypeOK, TranscriptionFailed
    <3>2. Recorded(f) \/ status[f] # "processing"
      BY DEF Recorded, NoFile
    <3> QED BY <3>1, <3>2 DEF Transcribing
  <2>9. CASE LlmFailed(t)
    BY <2>9 DEF LlmFailed, Transcribing, LlmStages, database
  <2>10. CASE SaveStatus(t)
    <3>1. ToStatus(run[t].stage) # "processing"
      BY DEF TypeOK, RunStates, ToStatus, Stages, LlmStages
    <3>2. status'[f] = IF f = run[t].file THEN ToStatus(run[t].stage) ELSE status[f]
      BY <2>10 DEF TypeOK, SaveStatus
    <3> QED BY <3>1, <3>2 DEF Transcribing
  <2>11. CASE SaveStatusFailed(t)
    BY <2>11 DEF SaveStatusFailed, Recorded, Transcribing, NoFile, database
  <2>12. CASE Embedded(t)
    BY <2>12 DEF TypeOK, Embedded, ToStatus, Resumes, At, Transcribing
  <2>13. CASE EmbeddedRaises(t)
    BY <2>13 DEF EmbeddedRaises, Resumes, At, Transcribing, database
  <2> QED BY <2>1, <2>2, <2>3, <2>4, <2>5, <2>6, <2>7, <2>8, <2>9, <2>10,
             <2>11, <2>12, <2>13 DEF Step, Answer, Error
<1> QED BY <1>1, <1>2 DEF NoStrandedProcessing, Transcribing

LEMMA NoStrandedNext ==
    ASSUME TypeOK, NoStrandedProcessing, [Next]_vars
    PROVE  NoStrandedProcessing'
<1>1. CASE UNCHANGED vars
  BY <1>1 DEF NoStrandedProcessing, Transcribing, vars
<1>2. CASE Start
  BY <1>1, <1>2, StartFrame DEF NoStrandedProcessing, Transcribing, database
<1>3. CASE \E t \in Runs : Step(t)
  BY <1>3, NoStrandedStep
<1>4. CASE Request
  <2>1. \A f \in Files : status'[f] = "processing" => status[f] = "processing"
    <3>1. \A f, s : s \in Stages => FromStatus(s) # "processing"
      BY DEF FromStatus, Stages, LlmStages
    <3>2. ASSUME NEW g, NEW s \in Stages
          PROVE  \A f \in Files : Reverted(g, s)[f] = "processing"
                                   => status[f] = "processing"
      BY <3>1 DEF TypeOK, Reverted
    <3>3. ASSUME NEW i \in EntryIds,
                 DeleteEntry(i) \/ \E s \in LlmStages : ClearColumns(i, s)
          PROVE  \E s \in Stages : status' = Reverted(owner[i], s)
      BY <3>3 DEF DeleteEntry, ClearColumns, Stages
    <3>4. ASSUME NEW f \in Files, Upload(f)
          PROVE  \A g \in Files : status'[g] = "processing" => status[g] = "processing"
      BY <3>4 DEF TypeOK, Upload
    <3>5. ASSUME NEW F, DeleteFiles(F) \/ ResetFiles(F)
          PROVE  \A g \in Files : status'[g] = "processing" => status[g] = "processing"
      BY <3>5 DEF DeleteFiles, ResetFiles
    <3> QED BY <1>4, <3>2, <3>3, <3>4, <3>5 DEF Request
  <2> QED BY <1>4, <2>1, RequestFrame DEF NoStrandedProcessing, Transcribing
<1>5. CASE Crash
  BY <1>5 DEF NoStrandedProcessing, Crash, Recovered
<1> QED BY <1>1, <1>2, <1>3, <1>4, <1>5 DEF Next

\* A file in "processing" always has a run that is transcribing it, whatever
\* the runs, the edits and the restarts.
THEOREM NoStrandedHolds == Spec => []NoStrandedProcessing
<1>1. Init => NoStrandedProcessing
  BY DEF Init, NoStrandedProcessing
<1>2. TypeOK /\ NoStrandedProcessing /\ [Next]_vars => NoStrandedProcessing'
  BY NoStrandedNext
<1> QED BY <1>1, <1>2, TypeCorrect, PTL DEF Spec

-----------------------------------------------------------------------------
(* A file between two LLM stages has its entry.                            *)

\* The row a run remembers is its file's, or is gone; a run that has just
\* saved an output has an entry to show for it.
RunsOwnRows ==
    \A t \in Runs :
        /\ run[t].pc \in {"await", "saved", "embed"} => run[t].file \in Files
        /\ run[t].pc = "await" /\ run[t].stage \in LlmStages
              => run[t].row \in EntryIds
        /\ run[t].row # None
              => run[t].file \in Files /\ owner[run[t].row] \in {run[t].file, None}
        /\ run[t].pc = "saved" => \E i \in EntryIds : owner[i] = run[t].file

Midway == {"transcribed", "translated", "summarized"}

IInv == TypeOK /\ LoopHeld /\ RunsOwnRows /\ EntryBacksStatus

\* A step of a run takes no entry from any file.
LEMMA StepKeepsEntries ==
    ASSUME TypeOK, NEW t \in Runs, Step(t)
    PROVE  /\ \A i \in EntryIds : owner[i] # None => owner'[i] = owner[i]
           /\ \A u \in Runs \ {t} : run[u].row # None
                 => owner'[run[u].row] = owner[run[u].row]
<1>1. CASE owner' = owner
  BY <1>1
<1>2. ASSUME NEW i \in EntryIds, Transcribed(t, i)
      PROVE  /\ \A j \in EntryIds : owner[j] # None => owner'[j] = owner[j]
             /\ \A u \in Runs \ {t} : run[u].row # None
                   => owner'[run[u].row] = owner[run[u].row]
  <2>1. \A u \in Runs : run[u].row # None => run[u].row \in EntryIds
    BY DEF TypeOK, RunStates
  <2> QED BY <1>2, <2>1, TranscribedEffect DEF TypeOK
<1>3. owner' = owner \/ \E i \in EntryIds : Transcribed(t, i)
  BY DEF Step, Call, Answer, Error, EndStage, ProbeDone, Finish, CallUnusable,
     CallSkipped, BeginTranscription, AudioMissing, CallFilled, BeginLlm,
     BeginEmbed, LlmReplied, Extracted, Replied, TranscriptionFailed,
     LlmFailed, SaveStatus, SaveStatusFailed, Embedded, EmbeddedRaises, database
<1> QED BY <1>1, <1>2, <1>3

\* What the run itself remembers after its step.
LEMMA StepOwnsRow ==
    ASSUME IInv, NEW t \in Runs, Step(t)
    PROVE  /\ run'[t].pc \in {"await", "saved", "embed"} => run'[t].file \in Files
           /\ run'[t].pc = "await" /\ run'[t].stage \in LlmStages
                 => run'[t].row \in EntryIds
           /\ run'[t].row # None
                 => run'[t].file \in Files /\ owner'[run'[t].row] \in {run'[t].file, None}
           /\ run'[t].pc = "saved" => \E i \in EntryIds : owner'[i] = run'[t].file
<1> DEFINE G ==
      /\ run'[t].pc \in {"await", "saved", "embed"} => run'[t].file \in Files
      /\ run'[t].pc = "await" /\ run'[t].stage \in LlmStages
            => run'[t].row \in EntryIds
      /\ run'[t].row # None
            => run'[t].file \in Files /\ owner'[run'[t].row] \in {run'[t].file, None}
      /\ run'[t].pc = "saved" => \E i \in EntryIds : owner'[i] = run'[t].file
<1> SUFFICES G
  OBVIOUS
<1>1. TypeOK /\ run[t] \in RunStates /\ run[t].todo \in SUBSET Files
  BY DEF IInv, TypeOK, RunStates
<1>2. ASSUME run'[t].pc \in {"next", "idle"}, run'[t].row = None PROVE G
  BY <1>2
<1>3. CASE EndStage(t)
  BY <1>1, <1>3 DEF IInv, EndStage, TypeOK, RunStates, RunsOwnRows, At, database
<1>4. CASE ProbeDone(t)
  BY <1>1, <1>2, <1>4, ProceedEffect DEF ProbeDone
<1>5. CASE Finish(t)
  BY <1>1, <1>2, <1>5, EndEffect DEF Finish, Idle
<1>6. ASSUME NEW f \in Files, Call(t, f) PROVE G
  <2>1. run[t].todo \ {f} \in SUBSET Files
    BY <1>1
  <2>2. CASE CallUnusable(t, f) \/ AudioMissing(t, f)
    BY <1>1, <1>2, <2>2, ReportErrorEffect DEF CallUnusable, AudioMissing
  <2>3. CASE CallSkipped(t, f) \/ CallFilled(t, f)
    BY <1>1, <1>2, <2>1, <2>3, ProceedEffect DEF CallSkipped, CallFilled
  <2>4. CASE BeginTranscription(t, f)
    BY <1>1, <2>4, SuspendEffect DEF BeginTranscription, Phases, LlmStages
  <2>5. CASE BeginLlm(t, f) \/ BeginEmbed(t, f)
    <3>1. FirstEntry(f) \in EntryIds /\ owner[FirstEntry(f)] = f
      BY <2>5, FirstEntryOwned DEF BeginLlm, BeginEmbed, Callable
    <3>2. \E pc \in {"await", "embed"} : Suspend(t, pc, f, FirstEntry(f))
      BY <2>5 DEF BeginLlm, BeginEmbed
    <3> QED BY <1>1, <2>5, <3>1, <3>2, SuspendEffect
            DEF BeginLlm, BeginEmbed, Phases, database
  <2> QED BY <1>6, <2>2, <2>3, <2>4, <2>5 DEF Call
<1>7. ASSUME NEW i \in EntryIds, Transcribed(t, i) PROVE G
  <2>1. run[t].file \in Files
    BY <1>7 DEF IInv, RunsOwnRows, Transcribed, Resumes, At
  <2>2. run'[t].pc = "saved" /\ run'[t].row = i /\ run'[t].file = run[t].file
    BY <1>1, <1>7 DEF TypeOK, Transcribed, RunStates
  <2>3. owner'[i] = run[t].file
    BY <1>1, <1>7 DEF TypeOK, Transcribed
  <2> QED BY <2>1, <2>2, <2>3
<1>8. ASSUME NEW text, Replied(t, text)
      PROVE  /\ run[t].file \in Files /\ run[t].row \in EntryIds
             /\ owner'[run[t].row] = run[t].file
  BY <1>8, NoneIsNoId DEF IInv, RunsOwnRows, Replied, Resumes, At
<1>9. CASE LlmReplied(t)
  <2>1. run'[t].pc = "saved" /\ run'[t].row = run[t].row /\ run'[t].file = run[t].file
    BY <1>1, <1>9 DEF TypeOK, LlmReplied, RunStates
  <2> QED BY <1>8, <1>9, <2>1 DEF LlmReplied
<1>10. CASE Extracted(t)
  <2>1. run'[t].pc = "embed" /\ run'[t].row = run[t].row /\ run'[t].file = run[t].file
    BY <1>1, <1>10 DEF TypeOK, Extracted, Suspend, RunStates
  <2> QED BY <1>8, <1>10, <2>1 DEF Extracted
<1>11. CASE TranscriptionFailed(t) \/ LlmFailed(t) \/ SaveStatusFailed(t)
  BY <1>1, <1>2, <1>11, ReportErrorEffect, ReportRaisedEffect
     DEF TranscriptionFailed, LlmFailed, SaveStatusFailed
<1>12. CASE SaveStatus(t) \/ Embedded(t)
  BY <1>1, <1>2, <1>12, ProceedEffect DEF SaveStatus, Embedded
<1>13. CASE EmbeddedRaises(t)
  BY <1>1, <1>2, <1>13, EndEffect DEF EmbeddedRaises, Idle
<1> HIDE DEF G
<1> QED BY <1>3, <1>4, <1>5, <1>6, <1>7, <1>9, <1>10, <1>11, <1>12, <1>13
        DEF Step, Answer, Error

LEMMA RunsOwnRowsNext ==
    ASSUME IInv, [Next]_vars
    PROVE  RunsOwnRows'
<1>1. TypeOK /\ LoopHeld /\ RunsOwnRows
  BY DEF IInv
<1>2. CASE UNCHANGED vars
  BY <1>1, <1>2 DEF RunsOwnRows, vars
<1>3. CASE Start
  <2>1. PICK t \in Runs :
          /\ \A u \in Runs \ {t} : run'[u] = run[u]
          /\ run'[t].pc = "next" /\ run'[t].row = None /\ owner' = owner
        \/ UNCHANGED vars
    BY <1>1, <1>3, StartFrame DEF Start, database
  <2> QED BY <1>1, <1>2, <2>1 DEF RunsOwnRows
<1>4. ASSUME NEW t \in Runs, Step(t) PROVE RunsOwnRows'
  <2>1. ASSUME NEW u \in Runs \ {t}
        PROVE  /\ run'[u] = run[u] /\ run[u].pc # "saved"
               /\ run[u].row # None => owner'[run[u].row] = owner[run[u].row]
    BY <1>1, <1>4, StepFrame, StepKeepsEntries, NoneIsNoId DEF LoopHeld
  <2> QED BY <1>1, <1>4, <2>1, StepOwnsRow DEF RunsOwnRows
<1>5. CASE Request
  <2>1. loop = None /\ run' = run
    BY <1>5, RequestFrame
  <2>2. \A t \in Runs : run[t].pc # "saved"
    BY <1>1, <2>1, NoneIsNoId DEF LoopHeld
  <2>3. \A i \in EntryIds : owner'[i] \in {owner[i], None}
    BY <1>5, WithoutRowsOwner
       DEF Request, Upload, DeleteFiles, ResetFiles, DeleteEntry, ClearColumns
  <2>4. \A t \in Runs : run[t].row \in EntryIds \cup {None}
    BY <1>1 DEF TypeOK, RunStates
  <2> QED BY <1>1, <2>1, <2>2, <2>3, <2>4 DEF RunsOwnRows
<1>6. CASE Crash
  BY <1>6 DEF RunsOwnRows, Crash, Idle
<1> QED BY <1>2, <1>3, <1>4, <1>5, <1>6 DEF Next

\* A run takes a file between two stages only once it has saved its output.
LEMMA StepMidway ==
    ASSUME TypeOK, NEW t \in Runs, Step(t), NEW f \in Files, status'[f] \in Midway
    PROVE  \/ status[f] \in Midway
           \/ run[t].pc = "saved" /\ f = run[t].file
<1>1. CASE status' = status
  BY <1>1
<1>2. CASE \E g \in Files : BeginTranscription(t, g) \/ AudioMissing(t, g)
  BY <1>2 DEF TypeOK, BeginTranscription, AudioMissing, Midway
<1>3. CASE TranscriptionFailed(t)
  BY <1>3 DEF TypeOK, TranscriptionFailed, Midway
<1>4. CASE SaveStatus(t)
  BY <1>4 DEF TypeOK, SaveStatus, At
<1>5. CASE Embedded(t)
  <2>1. status'[f] = IF f = run[t].file THEN "done" ELSE status[f]
    BY <1>5 DEF TypeOK, Embedded, ToStatus
  <2> QED BY <2>1 DEF Midway
<1> QED BY <1>1, <1>2, <1>3, <1>4, <1>5
        DEF Step, Call, Answer, Error, EndStage, ProbeDone, Finish,
            CallUnusable, CallSkipped, CallFilled, BeginLlm, BeginEmbed,
            Transcribed, LlmReplied, Extracted, Replied, LlmFailed,
            SaveStatusFailed, EmbeddedRaises, database

LEMMA EntryBacksNext ==
    ASSUME IInv, [Next]_vars
    PROVE  EntryBacksStatus'
<1> SUFFICES ASSUME NEW f \in Files, status'[f] \in Midway
             PROVE  \E i \in EntryIds : owner'[i] = f
  BY DEF EntryBacksStatus, EntriesOf, Midway
<1>1. TypeOK /\ LoopHeld /\ RunsOwnRows /\ EntryBacksStatus
  BY DEF IInv
<1>2. ASSUME status[f] \in Midway PROVE \E i \in EntryIds : owner[i] = f
  BY <1>1, <1>2 DEF EntryBacksStatus, EntriesOf, Midway
<1>3. CASE Start \/ UNCHANGED vars
  BY <1>2, <1>3 DEF Start, StartBatch, StartNothing, StartSingle, database, vars
<1>4. ASSUME NEW t \in Runs, Step(t) PROVE \E i \in EntryIds : owner'[i] = f
  <2>1. \E i \in EntryIds : owner[i] = f
    BY <1>1, <1>2, <1>4, StepMidway DEF RunsOwnRows
  <2> QED BY <1>1, <1>4, <2>1, StepKeepsEntries, NoneIsNoId
<1>5. CASE Request
  <2>1. ASSUME NEW g \in Files, Upload(g) PROVE \E i \in EntryIds : owner'[i] = f
    BY <1>1, <1>2, <2>1 DEF TypeOK, Upload, Midway
  <2>2. ASSUME NEW F \in SUBSET Files, DeleteFiles(F) \/ ResetFiles(F)
        PROVE  \E i \in EntryIds : owner'[i] = f
    <3>1. f \notin F /\ status[f] \in Midway
      BY <2>2 DEF DeleteFiles, ResetFiles, Midway
    <3>2. \A i \in FirstEntries(F) : owner[i] \in F
      BY FirstEntryOwned DEF FirstEntries
    <3> QED BY <1>2, <2>2, <3>1, <3>2, WithoutRowsOwner DEF DeleteFiles, ResetFiles
  <2>3. ASSUME NEW i \in EntryIds, DeleteEntry(i)
        PROVE  \E j \in EntryIds : owner'[j] = f
    <3>1. f # owner[i] /\ status'[f] = status[f]
      <4>1. status'[f] = IF f = owner[i] /\ Recorded(f) THEN "pending" ELSE status[f]
        BY <1>1, <2>3 DEF TypeOK, DeleteEntry, Reverted, FromStatus
      <4>2. Recorded(f) \/ status[f] \notin Midway
        BY DEF Recorded, NoFile, Midway
      <4> QED BY <4>1, <4>2 DEF Midway
    <3> QED BY <1>2, <2>3, <3>1, WithoutRowsOwner DEF DeleteEntry
  <2>4. ASSUME NEW i \in EntryIds, NEW s \in LlmStages, ClearColumns(i, s)
        PROVE  \E j \in EntryIds : owner'[j] = f
    <3>1. owner' = owner /\ (f = owner[i] \/ status'[f] = status[f])
      BY <1>1, <2>4 DEF TypeOK, ClearColumns, Reverted
    <3> QED BY <1>2, <3>1
  <2> QED BY <1>5, <2>1, <2>2, <2>3, <2>4 DEF Request
<1>6. CASE Crash
  BY <1>1, <1>2, <1>6 DEF TypeOK, Crash, Recovered, Midway
<1> QED BY <1>3, <1>4, <1>5, <1>6 DEF Next

LEMMA IInvInit == Init => IInv
BY TypeInit, NoneIsNoId
   DEF Init, IInv, LoopHeld, RunsOwnRows, EntryBacksStatus, Idle

\* The entry is there whenever the status says that a stage after the
\* transcription is due: "Entry not found" is never the answer of a runner.
THEOREM EntryBacksHolds == Spec => []EntryBacksStatus
<1>1. Init => IInv
  BY IInvInit
<1>2. IInv /\ [Next]_vars => IInv'
  BY TypeNext, LoopHeldNext, RunsOwnRowsNext, EntryBacksNext DEF IInv
<1>3. IInv => EntryBacksStatus
  BY DEF IInv
<1> QED BY <1>1, <1>2, <1>3, PTL DEF Spec

-----------------------------------------------------------------------------
(* A run does not go round in circles.                                     *)

LEMMA StepDescends ==
    ASSUME TypeOK, NEW t \in Runs, Step(t)
    PROVE  Descends(t)
<1>1. run[t] \in RunStates /\ run[t].todo \in SUBSET Files
  BY DEF TypeOK, RunStates
<1>2. /\ Nearness("await") = 2 /\ Nearness("probe") = 2 /\ Nearness("saved") = 1
      /\ Nearness("embed") = 1 /\ Nearness("next") = 0
  BY DEF Nearness
\* To the head of the loop, with a file less or from an await or a commit.
<1>3. ASSUME NEW todo \in SUBSET run[t].todo, Proceed(t, todo),
             todo # run[t].todo \/ run[t].pc \in {"await", "probe", "saved", "embed"}
      PROVE  Descends(t)
  <2>1. /\ run'[t].pc = "next" /\ run'[t].todo = todo
        /\ run'[t].stage = run[t].stage
    BY <1>1, <1>3 DEF Proceed, TypeOK, RunStates
  <2>2. todo # run[t].todo \/ Nearness("next") < Nearness(run[t].pc)
    BY <1>2, <1>3
  <2> QED BY <1>3, <2>1, <2>2 DEF Descends
<1>4. ASSUME End(t) PROVE Descends(t)
  BY <1>4, EndEffect DEF Descends
<1>5. ASSUME NEW f \in Files, ReportError(t, f),
             f \in run[t].todo \/ run[t].pc \in {"await", "probe", "saved", "embed"}
      PROVE  Descends(t)
  BY <1>3, <1>4, <1>5 DEF ReportError
\* Into an await, with a file less.
<1>6. ASSUME NEW pc \in Phases, NEW f \in run[t].todo, NEW i, Suspend(t, pc, f, i)
      PROVE  Descends(t)
  <2>1. run'[t].todo = run[t].todo \ {f} /\ run'[t].stage = run[t].stage
    BY <1>1, <1>6 DEF Suspend, TypeOK, RunStates
  <2> QED BY <1>6, <2>1 DEF Descends
<1>7. CASE EndStage(t)
  BY <1>1, <1>7 DEF Descends, EndStage, TypeOK, RunStates
<1>8. CASE ProbeDone(t) \/ SaveStatus(t) \/ Embedded(t)
  BY <1>3, <1>8 DEF ProbeDone, SaveStatus, Embedded, Resumes, At
<1>9. CASE Finish(t) \/ EmbeddedRaises(t)
  BY <1>4, <1>9 DEF Finish, EmbeddedRaises
<1>10. ASSUME NEW f \in Files, Call(t, f) PROVE Descends(t)
  <2>1. f \in run[t].todo
    BY <1>10 DEF Call, CallUnusable, CallSkipped, BeginTranscription, AudioMissing,
                CallFilled, BeginLlm, BeginEmbed, Callable, Calls
  <2>2. CASE CallUnusable(t, f) \/ AudioMissing(t, f)
    BY <1>5, <2>1, <2>2 DEF CallUnusable, AudioMissing
  <2>3. CASE CallSkipped(t, f) \/ CallFilled(t, f)
    BY <1>3, <2>1, <2>3 DEF CallSkipped, CallFilled
  <2>4. CASE BeginTranscription(t, f) \/ BeginLlm(t, f) \/ BeginEmbed(t, f)
    BY <1>6, <2>1, <2>4 DEF BeginTranscription, BeginLlm, BeginEmbed, Phases
  <2> QED BY <1>10, <2>2, <2>3, <2>4 DEF Call
<1>11. ASSUME \/ \E i \in EntryIds : Transcribed(t, i)
              \/ LlmReplied(t) \/ Extracted(t)
       PROVE  Descends(t)
  <2>1. ASSUME run'[t].pc \in {"saved", "embed"}, run'[t].stage = run[t].stage,
               run'[t].todo \subseteq run[t].todo
        PROVE  Descends(t)
    <3>1. run[t].pc = "await"
      BY <1>11 DEF Transcribed, LlmReplied, Extracted, Replied, Resumes, At
    <3>2. Nearness(run'[t].pc) < Nearness(run[t].pc)
      BY <1>2, <2>1, <3>1
    <3> QED BY <2>1, <3>2 DEF Descends
  <2>2. CASE \E i \in EntryIds : Transcribed(t, i)
    BY <1>1, <2>1, <2>2 DEF Transcribed, TypeOK, RunStates
  <2>3. CASE LlmReplied(t)
    BY <1>1, <2>1, <2>3 DEF LlmReplied, TypeOK, RunStates
  <2>4. CASE Extracted(t)
    BY <1>1, <2>1, <2>4 DEF Extracted, Suspend, TypeOK, RunStates
  <2> QED BY <1>11, <2>2, <2>3, <2>4
<1>12. CASE TranscriptionFailed(t) \/ LlmFailed(t) \/ SaveStatusFailed(t)
  <2>1. run[t].pc \in {"await", "saved"} /\ ReportRaised(t, run[t].file)
    BY <1>12 DEF TranscriptionFailed, LlmFailed, SaveStatusFailed, ReportRaised,
                 Resumes, At
  <2> QED BY <1>3, <1>4, <2>1 DEF ReportRaised, ReportError
<1> QED BY <1>7, <1>8, <1>9, <1>10, <1>11, <1>12 DEF Step, Answer, Error

\* A run takes at most so many steps as its stages, files and awaits allow:
\* with the loop given back to it, it ends.
THEOREM StepsDescendHolds == Spec => StepsDescend
<1>1. TypeOK /\ [Next]_vars => [\A t \in Runs : Step(t) => Descends(t)]_vars
  BY StepDescends
<1> QED BY <1>1, TypeCorrect, PTL DEF Spec, StepsDescend

-----------------------------------------------------------------------------
(* Runs at work on a file.                                                 *)

Working == {"await", "saved", "embed"}

\* The steps after which a run is at work on a file, and what it remembers.
LEMMA StepSuspends ==
    ASSUME TypeOK, NEW t \in Runs, Step(t), run'[t].pc \in Working
    PROVE  /\ run'[t].stage = run[t].stage
           /\ \/ \E f \in Files :
                    /\ run'[t].file = f
                    /\ \/ /\ BeginTranscription(t, f)
                          /\ run'[t].pc = "await" /\ run'[t].row = None
                       \/ /\ BeginLlm(t, f)
                          /\ run'[t].pc = "await" /\ run'[t].row = FirstEntry(f)
                       \/ /\ BeginEmbed(t, f)
                          /\ run'[t].pc = "embed" /\ run'[t].row = FirstEntry(f)
              \/ /\ run'[t].file = run[t].file
                 /\ \/ \E i \in EntryIds :
                          /\ Transcribed(t, i)
                          /\ run'[t].pc = "saved" /\ run'[t].row = i
                    \/ /\ LlmReplied(t)
                       /\ run'[t].pc = "saved" /\ run'[t].row = run[t].row
                    \/ /\ Extracted(t)
                       /\ run'[t].pc = "embed" /\ run'[t].row = run[t].row
<1>1. run[t] \in RunStates /\ run[t].todo \in SUBSET Files
  BY DEF TypeOK, RunStates
<1>2. ASSUME run'[t].pc \in {"next", "idle", "probe"} PROVE FALSE
  BY <1>2 DEF Working
<1>3. CASE EndStage(t)
  BY <1>1, <1>2, <1>3 DEF EndStage, TypeOK, RunStates
<1>4. CASE ProbeDone(t) \/ SaveStatus(t) \/ Embedded(t)
  BY <1>1, <1>2, <1>4, ProceedEffect DEF ProbeDone, SaveStatus, Embedded
<1>5. CASE Finish(t) \/ EmbeddedRaises(t)
  BY <1>1, <1>2, <1>5, EndEffect DEF Finish, EmbeddedRaises, Idle
<1>6. CASE TranscriptionFailed(t) \/ LlmFailed(t) \/ SaveStatusFailed(t)
  BY <1>1, <1>2, <1>6, ReportErrorEffect, ReportRaisedEffect
     DEF TranscriptionFailed, LlmFailed, SaveStatusFailed
<1>7. ASSUME NEW f \in Files, Call(t, f)
      PROVE  /\ run'[t].stage = run[t].stage /\ run'[t].file = f
             /\ \/ /\ BeginTranscription(t, f)
                   /\ run'[t].pc = "await" /\ run'[t].row = None
                \/ /\ BeginLlm(t, f)
                   /\ run'[t].pc = "await" /\ run'[t].row = FirstEntry(f)
                \/ /\ BeginEmbed(t, f)
                   /\ run'[t].pc = "embed" /\ run'[t].row = FirstEntry(f)
  <2>1. run[t].todo \ {f} \in SUBSET Files
    BY <1>1
  <2>2. CASE CallUnusable(t, f) \/ AudioMissing(t, f)
    BY <1>1, <1>2, <2>2, ReportErrorEffect DEF CallUnusable, AudioMissing
  <2>3. CASE CallSkipped(t, f) \/ CallFilled(t, f)
    BY <1>2, <2>1, <2>3, ProceedEffect DEF CallSkipped, CallFilled
  <2>4. CASE BeginTranscription(t, f)
    BY <1>1, <2>4, SuspendEffect DEF BeginTranscription, Phases
  <2>5. CASE BeginLlm(t, f) \/ BeginEmbed(t, f)
    <3>1. FirstEntry(f) \in EntryIds
      BY <2>5, FirstEntryOwned DEF BeginLlm, BeginEmbed, Callable
    <3> QED BY <1>1, <2>5, <3>1, SuspendEffect DEF BeginLlm, BeginEmbed, Phases
  <2> QED BY <1>7, <2>2, <2>3, <2>4, <2>5 DEF Call
<1>8. ASSUME NEW i \in EntryIds, Transcribed(t, i)
      PROVE  /\ run'[t].stage = run[t].stage /\ run'[t].file = run[t].file
             /\ run'[t].pc = "saved" /\ run'[t].row = i
  BY <1>1, <1>8 DEF TypeOK, Transcribed, RunStates
<1>9. CASE LlmReplied(t)
  BY <1>1, <1>9 DEF TypeOK, LlmReplied, RunStates
<1>10. CASE Extracted(t)
  BY <1>1, <1>10 DEF TypeOK, Extracted, Suspend, RunStates
<1> QED BY <1>3, <1>4, <1>5, <1>6, <1>7, <1>8, <1>9, <1>10
        DEF Step, Answer, Error

\* Only the last stage embeds.
EmbedsLast == \A t \in Runs : run[t].pc = "embed" => run[t].stage = "extract"

LEMMA EmbedsLastNext ==
    ASSUME TypeOK, EmbedsLast, [Next]_vars
    PROVE  EmbedsLast'
<1>1. CASE UNCHANGED vars
  BY <1>1 DEF EmbedsLast, vars
<1>2. CASE Start
  BY <1>1, <1>2, StartFrame DEF EmbedsLast
<1>3. ASSUME NEW t \in Runs, Step(t) PROVE EmbedsLast'
  <2>1. \A u \in Runs \ {t} : run'[u] = run[u]
    BY <1>3, StepFrame
  <2>2. run'[t].pc = "embed" => run'[t].stage = "extract"
    BY <1>3, StepSuspends DEF Working, BeginEmbed, Extracted
  <2> QED BY <2>1, <2>2 DEF EmbedsLast
<1>4. CASE Request
  BY <1>4, RequestFrame DEF EmbedsLast
<1>5. CASE Crash
  BY <1>5 DEF EmbedsLast, Crash, Idle
<1> QED BY <1>1, <1>2, <1>3, <1>4, <1>5 DEF Next
=============================================================================
