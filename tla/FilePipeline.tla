---------------------------- MODULE FilePipeline ----------------------------
(***************************************************************************)
(* The processing pipeline of app/services/pipeline.py over the tables     *)
(* `files` and `entries`, driven by the queue drain, by POST /api/process  *)
(* and by POST /api/process/{file_id}, and disturbed by the requests of    *)
(* routes/status.py, routes/entries.py and routes/upload.py that edit the  *)
(* same rows.                                                              *)
(*                                                                         *)
(* Everything runs on one asyncio event loop.  A coroutine keeps the loop  *)
(* from one await to the next, so `loop` names the run that holds it; the  *)
(* other runs and the requests move only while nobody does.  The process   *)
(* itself may die between any two commits.                                 *)
(***************************************************************************)
EXTENDS Naturals, FiniteSets

CONSTANTS
    Files,       \* ids of rows of `files` (FileRecord.id)
    EntryIds,    \* ids of rows of `entries` (Entry.id), fresh ones included
    Batches,     \* concurrent calls of process_pending_files
    Singles,     \* concurrent calls of trigger_process_single
    Texts,       \* what the LLM may answer: "text", or "empty" for ""
    Requests,    \* the user requests the environment makes
    MaxCrashes,  \* bound: restarts of the server process
    None

RequestKinds == {"upload", "delete", "reset", "delete_entry", "clear"}

ASSUME NoneIsNoId == None \notin Files \cup EntryIds \cup Batches \cup Singles

ASSUME RunsDistinct == Batches \cap Singles = {}

ASSUME InputsAssumption ==
    /\ Texts \subseteq {"text", "empty"}
    /\ Requests \subseteq RequestKinds
    /\ MaxCrashes \in Nat

VARIABLES
    status,   \* files.status; "absent" before the upload, "deleted" after
    owner,    \* entries.file_id; None when the table has no such row
    column,   \* entries.translation, .summary and .extracted_json
    run,      \* the local state of each coroutine of the pipeline
    loop,     \* the run that holds the event loop, None when it is free
    crashes   \* restarts so far

database == <<status, owner, column>>
vars == <<status, owner, column, run, loop, crashes>>

Runs == Batches \cup Singles

-----------------------------------------------------------------------------
(* Stages, the status each starts from and leaves, the column it fills.    *)

LlmStages == {"translate", "summarize", "extract"}
Stages == {"transcribe"} \cup LlmStages

FromStatus(s) ==
    CASE s = "transcribe" -> "pending"
      [] s = "translate"  -> "transcribed"
      [] s = "summarize"  -> "translated"
      [] s = "extract"    -> "summarized"

\* Mutated: a status outside the life cycle.
ToStatusUnknown(s) ==
    CASE s = "transcribe" -> "transcribed"
      [] s = "translate"  -> "translated"
      [] s = "summarize"  -> "summarized"
      [] s = "extract"    -> "finished"

\* Mutated: run_summarization saves the status it started from one stage ago.
ToStatusBehind(s) ==
    CASE s = "translate" -> "translated"
      [] s = "extract"   -> "done"
      [] OTHER           -> "transcribed"

ToStatus(s) ==
    CASE s = "transcribe" -> "transcribed"
      [] s = "translate"  -> "translated"
      [] s = "summarize"  -> "summarized"
      [] s = "extract"    -> "done"

Columns == {"translation", "summary", "extracted_json"}

ColumnOf(s) ==
    CASE s = "translate" -> "translation"
      [] s = "summarize" -> "summary"
      [] s = "extract"   -> "extracted_json"

NextStage(s) ==
    CASE s = "transcribe" -> "translate"
      [] s = "translate"  -> "summarize"
      [] s = "summarize"  -> "extract"

\* The statuses the runner of a stage works on; it returns None at once for
\* any other one.
Accepts(s) ==
    IF s = "transcribe" THEN {"pending", "processing"} ELSE {FromStatus(s)}

NoFile == {"absent", "deleted"}
Statuses == NoFile \cup {"pending", "processing", "transcribed", "translated",
                         "summarized", "done", "failed"}

\* "" and NULL are both falsy in Python, so only "text" counts as filled.
Values == {"null", "empty", "text"}
Blank == [c \in Columns |-> "null"]

-----------------------------------------------------------------------------
(* Rows.                                                                   *)

Recorded(f) == status[f] \notin NoFile

EntriesOf(f) == {i \in EntryIds : owner[i] = f}

\* select(Entry).where(Entry.file_id == f).first()
FirstEntry(f) == CHOOSE i \in EntriesOf(f) : TRUE

\* A new row's uuid4 is that of no row, and of none a coroutine remembers.
FreshIds == {i \in EntryIds : owner[i] = None /\ \A t \in Runs : run[t].row # i}

\* Mutated: run_transcription always inserts.
TargetRowsInserted(f) == FreshIds

\* The rows the runner of a stage writes its transcription to: the file's
\* entry when there is one, else a new row.
TargetRows(f) == IF EntriesOf(f) # {} THEN {FirstEntry(f)} ELSE FreshIds

-----------------------------------------------------------------------------
(* A run: "next" at the head of the `for fid in ids` loop of its stage,    *)
(* "await" suspended in Whisper or in the LLM call of a stage, "saved"     *)
(* after the commit of that stage's output, "embed" suspended in           *)
(* upsert_entry, "probe" suspended in check_llm_server_ready.              *)

Idle == [pc |-> "idle", stage |-> "transcribe", todo |-> {},
         file |-> None, row |-> None]

Phases == {"idle", "next", "await", "saved", "embed", "probe"}

RunStates == [pc : Phases, stage : Stages, todo : SUBSET Files,
              file : Files \cup {None}, row : EntryIds \cup {None}]

\* A batch selects by status; the single-file route reads the status of its
\* own file, and takes "processing" for the trace of an interrupted run.
Due(t, s, f) ==
    {g \in Files : IF t \in Batches THEN status[g] = FromStatus(s)
                                    ELSE g = f /\ status[g] \in Accepts(s)}

At(t, pc) == run[t].pc = pc

\* t goes on holding the loop, at the head of its stage's loop.
Proceed(t, todo) ==
    /\ run' = [run EXCEPT ![t] = [run[t] EXCEPT !.pc = "next", !.todo = todo,
                 !.row = None, !.file = IF t \in Batches THEN None ELSE run[t].file]]
    /\ loop' = t

\* t awaits, and gives up the loop.
Suspend(t, pc, f, i) ==
    /\ run' = [run EXCEPT ![t] = [run[t] EXCEPT !.pc = pc, !.todo = run[t].todo \ {f},
                 !.file = f, !.row = i]]
    /\ loop' = None

\* t returns or raises to its caller.
End(t) ==
    /\ run' = [run EXCEPT ![t] = Idle]
    /\ loop' = None

\* Mutated: an error raises out of the batch.
ReportErrorRaises(t, f) == End(t)

\* Mutated: a batch takes the file that failed again.
ReportErrorRetries(t, f) ==
    IF t \in Batches THEN Proceed(t, run[t].todo \cup {f}) ELSE End(t)

\* The runner returned an error: a batch records it and takes the next file,
\* the single-file route answers 500.
ReportError(t, f) ==
    IF t \in Batches THEN Proceed(t, run[t].todo \ {f}) ELSE End(t)

\* The error is the text of an exception, and an empty one is taken for
\* success: a batch counts the file among the succeeded, and the single-file
\* route goes on to the next stage.
ReportRaised(t, f) ==
    \/ ReportError(t, f)
    \/ Proceed(t, run[t].todo \ {f})

-----------------------------------------------------------------------------
(* process_pending_files and trigger_process_single.                       *)

\* Mutated: files between two stages are not looked for.
EligiblePending == {f \in Files : status[f] = "pending"}

Eligible == {f \in Files : \E s \in Stages : status[f] = FromStatus(s)}

StartBatch(t) ==
    /\ loop = None /\ At(t, "idle")
    /\ Eligible # {}
    /\ run' = [run EXCEPT ![t] =
                 [Idle EXCEPT !.pc = "next", !.todo = Due(t, "transcribe", None)]]
    /\ loop' = t
    /\ UNCHANGED <<database, crashes>>

\* "No pending files to process."
StartNothing(t) ==
    /\ loop = None /\ At(t, "idle")
    /\ Eligible = {}
    /\ UNCHANGED vars

StartSingle(t, f) ==
    /\ loop = None /\ At(t, "idle")
    /\ Recorded(f)
    /\ run' = [run EXCEPT ![t] =
                 [Idle EXCEPT !.pc = "next", !.file = f,
                              !.todo = Due(t, "transcribe", f)]]
    /\ loop' = t
    /\ UNCHANGED <<database, crashes>>

\* A stage is over: a batch queries the ids of the next stage and then
\* probes its LLM server; the single-file route re-reads the status.
EndStage(t) ==
    /\ loop = t /\ At(t, "next") /\ run[t].todo = {}
    /\ run[t].stage # "extract"
    /\ LET s == NextStage(run[t].stage)
       IN  run' = [run EXCEPT ![t] =
                     [run[t] EXCEPT !.stage = s, !.todo = Due(t, s, run[t].file),
                               !.pc = IF t \in Batches THEN "probe" ELSE "next"]]
    /\ loop' = IF t \in Batches THEN None ELSE t
    /\ UNCHANGED <<database, crashes>>

ProbeDone(t) ==
    /\ loop = None /\ At(t, "probe")
    /\ Proceed(t, run[t].todo)
    /\ UNCHANGED <<database, crashes>>

Finish(t) ==
    /\ loop = t /\ At(t, "next") /\ run[t].todo = {}
    /\ run[t].stage = "extract"
    /\ End(t)
    /\ UNCHANGED <<database, crashes>>

-----------------------------------------------------------------------------
(* The part of a runner before its await.                                  *)

Calls(t, f) == loop = t /\ At(t, "next") /\ f \in run[t].todo

\* The runner returns "File not found", or "Entry not found" once the status
\* is its own.
Unusable(s) ==
    {f \in Files : \/ ~Recorded(f)
                   \/ /\ s # "transcribe"
                      /\ status[f] = FromStatus(s)
                      /\ EntriesOf(f) = {}}

CallUnusable(t, f) ==
    /\ Calls(t, f)
    /\ f \in Unusable(run[t].stage)
    /\ ReportError(t, f)
    /\ UNCHANGED <<database, crashes>>

\* The status has moved since the query: the runner returns None.
CallSkipped(t, f) ==
    /\ Calls(t, f)
    /\ Recorded(f) /\ status[f] \notin Accepts(run[t].stage)
    /\ Proceed(t, run[t].todo \ {f})
    /\ UNCHANGED <<database, crashes>>

BeginTranscription(t, f) ==
    /\ Calls(t, f) /\ run[t].stage = "transcribe"
    /\ status[f] \in Accepts("transcribe")
    /\ status' = [status EXCEPT ![f] = "processing"]
    /\ Suspend(t, "await", f, None)
    /\ UNCHANGED <<owner, column, crashes>>

\* The audio is not on disk any more: "processing", then "failed".
AudioMissing(t, f) ==
    /\ Calls(t, f) /\ run[t].stage = "transcribe"
    /\ status[f] \in Accepts("transcribe")
    /\ status' = [status EXCEPT ![f] = "failed"]
    /\ ReportError(t, f)
    /\ UNCHANGED <<owner, column, crashes>>

Callable(t, f) ==
    /\ Calls(t, f) /\ run[t].stage \in LlmStages
    /\ status[f] = FromStatus(run[t].stage)
    /\ EntriesOf(f) # {}

\* Mutated: existing output is not looked at.
FilledNever(t, i) == FALSE

Filled(t, i) == column[i][ColumnOf(run[t].stage)] = "text"

\* `if translation: return None`, `if summary: return None`.
CallFilled(t, f) ==
    /\ Callable(t, f) /\ run[t].stage # "extract"
    /\ Filled(t, FirstEntry(f))
    /\ Proceed(t, run[t].todo \ {f})
    /\ UNCHANGED <<database, crashes>>

BeginLlm(t, f) ==
    /\ Callable(t, f)
    /\ ~Filled(t, FirstEntry(f))
    /\ Suspend(t, "await", f, FirstEntry(f))
    /\ UNCHANGED <<database, crashes>>

\* The JSON is already there: straight on to the embedding.
BeginEmbed(t, f) ==
    /\ Callable(t, f) /\ run[t].stage = "extract"
    /\ Filled(t, FirstEntry(f))
    /\ Suspend(t, "embed", f, FirstEntry(f))
    /\ UNCHANGED <<database, crashes>>

-----------------------------------------------------------------------------
(* The part of a runner after its await.  `await` hands the loop back to   *)
(* the coroutine only while nobody holds it.                               *)

Resumes(t, pc) == loop = None /\ At(t, pc)

\* Whisper answered: the transcription is committed to the file's entry, or
\* to a new row.
Transcribed(t, i) ==
    /\ Resumes(t, "await") /\ run[t].stage = "transcribe"
    /\ i \in TargetRows(run[t].file)
    /\ owner' = [owner EXCEPT ![i] = run[t].file]
    /\ run' = [run EXCEPT ![t] = [run[t] EXCEPT !.pc = "saved", !.row = i]]
    /\ loop' = t
    /\ UNCHANGED <<status, column, crashes>>

\* The `except` of run_transcription.
TranscriptionFailed(t) ==
    /\ Resumes(t, "await") /\ run[t].stage = "transcribe"
    /\ status' = [status EXCEPT ![run[t].file] =
                    IF Recorded(run[t].file) THEN "failed" ELSE @]
    /\ ReportRaised(t, run[t].file)
    /\ UNCHANGED <<owner, column, crashes>>

\* Mutated: the answer goes to the entry the file has by now.
RepliedToFile(t, text) ==
    /\ Resumes(t, "await") /\ run[t].stage \in LlmStages
    /\ EntriesOf(run[t].file) # {}
    /\ column' = [column EXCEPT ![FirstEntry(run[t].file)][ColumnOf(run[t].stage)] = text]
    /\ UNCHANGED <<status, owner, crashes>>

\* The LLM answered and the entry is still there: its column is committed.
Replied(t, text) ==
    /\ Resumes(t, "await") /\ run[t].stage \in LlmStages
    /\ owner[run[t].row] # None
    /\ column' = [column EXCEPT ![run[t].row][ColumnOf(run[t].stage)] = text]
    /\ UNCHANGED <<status, owner, crashes>>

LlmReplied(t) ==
    /\ run[t].stage # "extract"
    /\ \E text \in Texts : Replied(t, text)
    /\ run' = [run EXCEPT ![t].pc = "saved"]
    /\ loop' = t

\* json.dumps of a dict is never falsy.
Extracted(t) ==
    /\ run[t].stage = "extract"
    /\ Replied(t, "text")
    /\ Suspend(t, "embed", run[t].file, run[t].row)

\* Mutated: the status moves on without the output.
LlmFailedAdvances(t) ==
    /\ Resumes(t, "await") /\ run[t].stage \in LlmStages
    /\ Recorded(run[t].file)
    /\ status' = [status EXCEPT ![run[t].file] = ToStatus(run[t].stage)]
    /\ ReportRaised(t, run[t].file)
    /\ UNCHANGED <<owner, column, crashes>>

\* The call raised, or the entry is gone: "Will retry next run."
LlmFailed(t) ==
    /\ Resumes(t, "await") /\ run[t].stage \in LlmStages
    /\ ReportRaised(t, run[t].file)
    /\ UNCHANGED <<database, crashes>>

\* The second commit of a runner, in the same slice of the loop.
SaveStatus(t) ==
    /\ loop = t /\ At(t, "saved")
    /\ Recorded(run[t].file)
    /\ status' = [status EXCEPT ![run[t].file] = ToStatus(run[t].stage)]
    /\ Proceed(t, run[t].todo)
    /\ UNCHANGED <<owner, column, crashes>>

\* session.get(FileRecord) gives None, caught by the runner's `except`.
SaveStatusFailed(t) ==
    /\ loop = t /\ At(t, "saved")
    /\ ~Recorded(run[t].file)
    /\ ReportError(t, run[t].file)
    /\ UNCHANGED <<database, crashes>>

\* Whatever became of the embedding and of the entry, the file is done.
Embedded(t) ==
    /\ Resumes(t, "embed")
    /\ Recorded(run[t].file)
    /\ status' = [status EXCEPT ![run[t].file] = ToStatus("extract")]
    /\ Proceed(t, run[t].todo)
    /\ UNCHANGED <<owner, column, crashes>>

\* The record is gone: an AttributeError that no `except` of the runner, nor
\* of process_pending_files, catches.
EmbeddedRaises(t) ==
    /\ Resumes(t, "embed")
    /\ ~Recorded(run[t].file)
    /\ End(t)
    /\ UNCHANGED <<database, crashes>>

-----------------------------------------------------------------------------
(* Requests that edit the same rows.  No handler awaits between its first  *)
(* read and its commit.                                                    *)

Arrives(kind) == loop = None /\ kind \in Requests

WithoutRows(I) ==
    /\ owner'  = [i \in EntryIds |-> IF i \in I THEN None ELSE owner[i]]
    /\ column' = [i \in EntryIds |-> IF i \in I THEN Blank ELSE column[i]]

FirstEntries(F) == {FirstEntry(f) : f \in {g \in F : EntriesOf(g) # {}}}

Upload(f) ==
    /\ Arrives("upload")
    /\ status[f] = "absent"
    /\ status' = [status EXCEPT ![f] = "pending"]
    /\ UNCHANGED <<owner, column, run, loop, crashes>>

\* delete_file, batch_delete
DeleteFiles(F) ==
    /\ Arrives("delete")
    /\ \A f \in F : Recorded(f)
    /\ status' = [f \in Files |-> IF f \in F THEN "deleted" ELSE status[f]]
    /\ WithoutRows(FirstEntries(F))
    /\ UNCHANGED <<run, loop, crashes>>

\* batch_reset
ResetFiles(F) ==
    /\ Arrives("reset")
    /\ \A f \in F : Recorded(f)
    /\ status' = [f \in Files |-> IF f \in F THEN "pending" ELSE status[f]]
    /\ WithoutRows(FirstEntries(F))
    /\ UNCHANGED <<run, loop, crashes>>

\* Mutated: the entry goes, the status stays.
RevertedNever(f, s) == status

\* `if record: record.status = ...`
Reverted(f, s) ==
    [status EXCEPT ![f] = IF Recorded(f) THEN FromStatus(s) ELSE @]

\* delete_entry, delete_entry_transcription
DeleteEntry(i) ==
    /\ Arrives("delete_entry")
    /\ owner[i] # None
    /\ status' = Reverted(owner[i], "transcribe")
    /\ WithoutRows({i})
    /\ UNCHANGED <<run, loop, crashes>>

\* The column of a stage and those computed from it.
Downstream(s) ==
    CASE s = "translate" -> Columns
      [] s = "summarize" -> {"summary", "extracted_json"}
      [] s = "extract"   -> {"extracted_json"}

\* delete_entry_translation, delete_entry_summary, delete_entry_extracted_json
ClearColumns(i, s) ==
    /\ Arrives("clear")
    /\ owner[i] # None
    /\ column' = [column EXCEPT ![i] =
                    [c \in Columns |-> IF c \in Downstream(s) THEN "null" ELSE @[c]]]
    /\ status' = Reverted(owner[i], s)
    /\ UNCHANGED <<owner, run, loop, crashes>>

\* Mutated: the lifespan does not call reset_stuck_processing.
RecoveredNothing == status

\* The process dies and restarts: the lifespan calls reset_stuck_processing.
Recovered ==
    [f \in Files |-> IF status[f] = "processing" THEN "pending" ELSE status[f]]

Crash ==
    /\ crashes < MaxCrashes
    /\ crashes' = crashes + 1
    /\ run' = [t \in Runs |-> Idle]
    /\ loop' = None
    /\ status' = Recovered
    /\ UNCHANGED <<owner, column>>

-----------------------------------------------------------------------------

Init ==
    /\ status = [f \in Files |-> "absent"]
    /\ owner = [i \in EntryIds |-> None]
    /\ column = [i \in EntryIds |-> Blank]
    /\ run = [t \in Runs |-> Idle]
    /\ loop = None
    /\ crashes = 0

Call(t, f) ==
    \/ CallUnusable(t, f)
    \/ CallSkipped(t, f)
    \/ BeginTranscription(t, f)
    \/ AudioMissing(t, f)
    \/ CallFilled(t, f)
    \/ BeginLlm(t, f)
    \/ BeginEmbed(t, f)

Answer(t) ==
    \/ \E i \in EntryIds : Transcribed(t, i)
    \/ LlmReplied(t)
    \/ Extracted(t)

Error(t) ==
    \/ TranscriptionFailed(t)
    \/ LlmFailed(t)

\* Every step of a run once it has started.
Step(t) ==
    \/ EndStage(t)
    \/ ProbeDone(t)
    \/ Finish(t)
    \/ \E f \in Files : Call(t, f)
    \/ Answer(t)
    \/ Error(t)
    \/ SaveStatus(t)
    \/ SaveStatusFailed(t)
    \/ Embedded(t)
    \/ EmbeddedRaises(t)

Start ==
    \/ \E t \in Batches : StartBatch(t) \/ StartNothing(t)
    \/ \E t \in Singles, f \in Files : StartSingle(t, f)

Request ==
    \/ \E f \in Files : Upload(f)
    \/ \E F \in (SUBSET Files) \ {{}} : DeleteFiles(F) \/ ResetFiles(F)
    \/ \E i \in EntryIds :
          \/ DeleteEntry(i)
          \/ \E s \in LlmStages : ClearColumns(i, s)

Next ==
    \/ Start
    \/ \E t \in Runs : Step(t)
    \/ Request
    \/ Crash

Spec == Init /\ [][Next]_vars

\* Whisper and the LLM client return or raise (the client has a timeout), and
\* asyncio resumes ready coroutines in FIFO order.
FairSpec == Spec /\ \A t \in Runs : SF_vars(Step(t))

\* The user, or the next upload, starts batches again and again, and the
\* models answer for each file from time to time.
LiveSpec ==
    /\ FairSpec
    /\ \A t \in Batches :
          /\ SF_vars(StartBatch(t))
          /\ \A f \in Files : SF_vars(run[t].file = f /\ Answer(t))

-----------------------------------------------------------------------------
(* Properties.                                                             *)

TypeOK ==
    /\ status \in [Files -> Statuses]
    /\ owner \in [EntryIds -> Files \cup {None}]
    /\ column \in [EntryIds -> [Columns -> Values]]
    /\ run \in [Runs -> RunStates]
    /\ loop \in Runs \cup {None}
    /\ crashes \in 0 .. MaxCrashes

\* A file never has two entries, however the runs and the edits interleave:
\* the reuse of pipeline.py:79-88 reads the table after the await.
OneEntryPerFile ==
    \A i, j \in EntryIds : owner[i] # None /\ owner[i] = owner[j] => i = j

\* "processing" rows are never picked up by a batch; each has a coroutine
\* that is transcribing it, and that will move it on.
Transcribing(t, f) ==
    /\ run[t].pc \in {"await", "saved"}
    /\ run[t].stage = "transcribe"
    /\ run[t].file = f

NoStrandedProcessing ==
    \A f \in Files :
        status[f] = "processing" => \E t \in Runs : Transcribing(t, f)

\* A file between two LLM stages has its entry: without one run_translation,
\* run_summarization and run_extraction_and_finalize return "Entry not found"
\* for ever, and no stage would transcribe the file again.
EntryBacksStatus ==
    \A f \in Files :
        status[f] \in {"transcribed", "translated", "summarized"}
            => EntriesOf(f) # {}

\* The columns the stages before a status have filled.
ColumnsBefore(st) ==
    CASE st = "translated" -> {"translation"}
      [] st = "summarized" -> {"translation", "summary"}
      [] st = "done"       -> Columns
      [] OTHER             -> {}

\* A status is never ahead of the columns it promises (the entry itself for
\* "done"), across restarts and overlapping runs, as long as nobody edits
\* entries: the output is committed before the status.
ColumnsBackStatus ==
    \A f \in Files :
        /\ status[f] = "done" => EntriesOf(f) # {}
        /\ \A i \in EntriesOf(f), c \in ColumnsBefore(status[f]) :
              column[i][c] # "null"

\* What a reader of the tables sees of the LLM outputs, and those that the runs
\* are waiting for.
Held == {f \in Files : EntriesOf(f) # {}}

Output == [f \in Files |-> IF f \in Held THEN column[FirstEntry(f)] ELSE Blank]

Asked(t) ==
    {p \in Files \X Columns :
        /\ run[t].pc = "await" /\ run[t].stage \in LlmStages
        /\ run[t].row # None
        /\ p = <<owner[run[t].row], ColumnOf(run[t].stage)>>}

AskedNow == UNION {Asked(t) : t \in Runs}

\* An LLM output goes into the entry it was computed from: when that was removed
\* during the call, and the file transcribed anew, the late answer finds no row
\* of its id and is dropped.
Transcript == INSTANCE Transcripts
    WITH held <- Held, output <- Output, asked <- AskedNow

ImplementsTranscripts == Transcript!Spec

Rank(st) ==
    CASE st = "absent"      -> 0
      [] st = "pending"     -> 1
      [] st = "processing"  -> 2
      [] st = "transcribed" -> 3
      [] st = "translated"  -> 4
      [] st = "summarized"  -> 5
      [] st = "done"        -> 6
      [] st = "failed"      -> 7
      [] st = "deleted"     -> 8

\* With one batch at a time no step of it takes a file back to an earlier
\* stage, whatever the requests did to the file while it was suspended.
RunNeverRegresses ==
    [][ \A t \in Runs, f \in Files :
          Step(t) => Rank(status'[f]) >= Rank(status[f]) ]_vars

\* With one batch at a time no step of it replaces an LLM output that an
\* earlier run, or the same run before a restart, has already paid for.
FilledColumnsKept ==
    [][ \A i \in EntryIds, c \in Columns :
          owner'[i] # None /\ owner[i] # None /\ column[i][c] = "text"
             => column'[i][c] = "text" \/ Request ]_vars

\* A batch ends only when every stage has gone through all of its files, or
\* with the process: an error of one file does not cost the others their turn
\* (async-queue-design.md:117).
BatchVisitsAll ==
    [][ \A t \in Batches :
          run[t].pc # "idle" /\ run'[t].pc = "idle"
             => \/ run[t].stage = "extract" /\ run[t].todo = {}
                \/ crashes' # crashes ]_vars

\* Every run ends, although other runs and requests keep moving its files.
RunsTerminate == \A t \in Runs : run[t].pc # "idle" ~> run[t].pc = "idle"

Nearness(pc) ==
    CASE pc \in {"await", "probe"} -> 2
      [] pc \in {"saved", "embed"} -> 1
      [] OTHER                     -> 0

Descends(t) ==
    \/ run'[t] = Idle
    \/ /\ run[t].stage # "extract"
       /\ run'[t].stage = NextStage(run[t].stage)
    \/ /\ run'[t].stage = run[t].stage
       /\ run'[t].todo \subseteq run[t].todo
       /\ \/ run'[t].todo # run[t].todo
          \/ Nearness(run'[t].pc) < Nearness(run[t].pc)

\* Why it ends: a step of a run ends it, enters the next of four stages, takes
\* a file off the list of its stage, or is one of at most two answers on the
\* way back to the head of the loop.  A file that fails, is skipped or is edited
\* meanwhile never comes back on the list of the same stage.
StepsDescend == [][ \A t \in Runs : Step(t) => Descends(t) ]_vars

Finished(f) == status[f] \in {"done", "failed", "deleted"}

\* Once the users leave the files alone, and until a restart, each file that
\* waits gets to an end, whatever the edits before have made of its row:
\* a call that fails or an answer that is empty does not stop it
\* (pipeline.py:166 "Will retry next run").
EventuallyFinished ==
    [](crashes = 0) /\ <>[][~Request]_vars
        => \A f \in Files : status[f] = "pending" ~> Finished(f)

\* What survives a restart in one of these states is picked up and finished
\* (async-queue-design.md:109).
SurvivorsFinish ==
    \A f \in Files :
        (\E s \in Stages : status[f] = FromStatus(s)) ~> Finished(f)

\* A file reported "done" has its entry in SQLite.
DoneHasEntry == \A f \in Files : status[f] = "done" => EntriesOf(f) # {}
=============================================================================
