# Saraswati: a TLA+ development

Saraswati is a self-hosted knowledge base: audio files are uploaded, transcribed
by Whisper, translated, summarised and mined for facts by an LLM, embedded into
Qdrant, and kept in SQLite. This directory models the part of it that decides
what becomes of a file: the pipeline, the queue that wakes it, the requests that
edit the same rows while it runs, and the stores that must agree with those
rows: the audio on disk, the vectors, the prompts and the recent cache.

## Inventory

Everything but the model code runs in one process on one asyncio event loop.
A coroutine keeps the loop from one `await` to the next. SQLite is written
through short sessions, each ending in one commit.

| component | state | operations | talks to |
|---|---|---|---|
| pipeline (`services/pipeline.py`) | `files.status`, `entries`, the locals of each run | four stage runners, `process_pending_files`, `reset_stuck_processing` | whisper, llm, embedder (awaits); queue (`set_current_file`); SSE |
| process routes (`routes/process.py`) | none | a manual batch, a single-file run | pipeline, recent cache |
| queue (`queue.py`) | `_queue`, `_waiting_ids`, `_current_file_id` | `enqueue`, `drain_queue`, snapshot | woken by upload and reset; calls the pipeline |
| status routes (`routes/status.py`) | none | delete, batch delete, batch reset, panel | tables, disk, queue |
| entries routes (`routes/entries.py`) | none | delete an entry, clear its columns | tables |
| upload (`routes/upload.py`) | disk | deduplicate, record, write, roll back | tables, queue |
| lifespan (`main.py`) | none | startup, recovery, start of the drain | all |
| whisper service | `_model`, `_current_model_name`, `_whisper_gpu_broken` | transcribe in executor threads, GPU fallback | model configuration |
| embedder | `_model`, the Qdrant collection | embed, upsert | Qdrant |
| SSE (`sse.py`) | `_subscribers` | emit, subscribe, unsubscribe | browsers |
| prompt store | `prompts.json` | load, update | llm |
| recent cache, scheduler | `recent.json` | snapshot, atomic replace | tables |
| model configuration | `model_configs` | seed, read, upsert | whisper, llm |
| llm client, audio metadata, pages | none | pure or I/O | |

What is hard here:

- *Stale reads across awaits.* Each runner reads a file's status and entry,
  awaits a model for seconds or minutes, and then writes. Uploads, deletions,
  resets, edits of the entry and other runs act in between. The ids of a stage
  are a snapshot too, taken before the probe of the LLM server and before the
  files in front of them.
- *Overlapping runs.* The drain, `POST /api/process` and
  `POST /api/process/{file_id}` run the same functions with no lock.
- *Two commits per stage.* Output first, status second; the process may die
  between them.
- *Retries.* A failed LLM call leaves the status; only the next run retries it.
- *Lost wake-ups.* A file becomes `pending` in one place and its id is enqueued
  in another; the drain looks at the table, not at the ids.
- *Threads.* Transcriptions run in executor threads and share one speech model,
  which is renamed by an administrator and moved from GPU to CPU on a failure.
- *Several stores, no common transaction.* The audio is on disk and its record
  in SQLite; the vector is in Qdrant and its id in SQLite. Each handler writes
  to one and then to the other, and either write may fail or be the last one of
  the process.
- *Files rewritten.* `prompts.json` is written in place, `recent.json` beside and
  then renamed; a write may be cut short.
- *Two copies of the queue.* The mirror the panel reads is kept apart from the
  asyncio queue; ids arrive while the drain sleeps, collects or runs.

The correctness properties that follow from this: a file has at most one entry;
no file is stranded in `processing`; a status never promises an entry or a
column that is not there; a batch never takes a file back or pays twice for an
output; an error of one file does not cost the others their turn; every run
ends; every uploaded file gets to done, failed or deleted; the panel shows
exactly what waits; every enqueue is followed by a run that starts after it, so
that no pending file is forgotten; the cached speech model and its name stay in
step, and no call is given a model of a GPU that was found unusable; every
transcription returns; an upload that was answered is kept, record and whole
audio, until somebody deletes it, and no failure leaves more behind than it
must; a finalized entry is found by its present text; a prompt reads as it was
left; the cache is a whole snapshot.

## Modules

| module | models | |
|---|---|---|
| `Transcripts` | what the pipeline and the edits promise about the outputs of the LLM | abstract specification |
| `FilePipeline` | `pipeline.py`, both process routes, the effect of upload, status and entries routes on the tables, restarts | specification, refinement of `Transcripts` |
| `MCFilePipeline` | | symmetry for TLC |
| `FilePipelineProofs` | | theorems |
| `TableProofs` | | theorems on columns, batches and outputs, over those of `FilePipelineProofs`; the refinement |
| `WakeSignal` | what the queue promises | abstract specification |
| `WorkQueue` | `queue.py`, and what the runs do to `_current_file_id` | specification, refinement of `WakeSignal` |
| `WorkQueueProofs` | | theorems |
| `Server` | `FilePipeline` driven by the queue: who enqueues, and when the drain starts a batch | composition |
| `ServerProofs` | | theorems |
| `WhisperModel` | `whisper_service.py` | specification and properties |
| `WhisperProofs` | | theorems |
| `AudioStore` | what upload and deletion promise about audio | abstract specification |
| `UploadStore` | `upload.py`, the deletions of `status.py`: the table and the directory | specification, refinement of `AudioStore` |
| `UploadStoreProofs` | | theorems |
| `SearchIndex` | `embedder.py`, the last stage of the pipeline, the edits of an entry | specification and properties |
| `SearchIndexProofs` | | theorems |
| `DataFiles` | `prompts.py`, `cache.py` and what calls them | specification and properties |
| `DataFilesProofs` | | theorems |

Only `pipeline_race` uses symmetry, which is not sound for liveness. The modules
without an MC module are checked as they are.

A definition marked *Mutated* is a form the code might have had by mistake. The
specification does not use it; it is there to see that a property notices it.

### FilePipeline

`status`, `owner` and `column` are the two tables: `files.status`,
`entries.file_id` (None for a row that does not exist) and the three columns the
LLM fills. `run` has the locals of each coroutine: the stage, the ids left in
`for fid in ids`, the file and the entry id it took into the await. `loop` names
the run that holds the event loop. A run takes the loop when it starts or
resumes and gives it up at an await, so the slices of the code between two
awaits are atomic towards other coroutines, as asyncio makes them, but not
towards `Crash`, which may fall between the two commits of a stage
(`Transcribed`/`LlmReplied`, then `SaveStatus`).

The error of a runner's `except` is `str(exc)`, and an exception may have an
empty text. `if error:` then takes the failure for a success: a batch counts the
file among the succeeded, the single-file route goes on to the next stage.
`ReportRaised` has both outcomes; the errors with a text of their own go through
`ReportError`.

| action | code |
|---|---|
| `StartBatch`, `StartNothing`, `EndStage`, `ProbeDone`, `Finish` | `process_pending_files`: the queries, the probes, the ends |
| `StartSingle` | `trigger_process_single`; it re-reads the status where a batch queries ids |
| `CallUnusable`, `CallSkipped`, `CallFilled` | the early returns of the runners |
| `BeginTranscription`, `BeginLlm`, `BeginEmbed` | a runner up to its await |
| `AudioMissing` | `FileNotFoundError` before the await |
| `Transcribed`, `LlmReplied`, `Extracted`, `SaveStatus` | the commits after it |
| `TranscriptionFailed`, `LlmFailed`, `SaveStatusFailed` | the `except` of each runner |
| `Embedded`, `EmbeddedRaises` | the end of `run_extraction_and_finalize` |
| `Upload`, `DeleteFiles`, `ResetFiles`, `DeleteEntry`, `ClearColumns` | the request handlers, none of which awaits between its read and its commit |
| `Crash` | the process dies; the lifespan calls `reset_stuck_processing` |

`Transcripts` forgets rows, ids and runs: `held` are the files with an entry,
`output` its columns, `asked` the columns that calls in progress are to fill.
An output comes only from a call that was asked of this very entry; what removes
an entry makes the calls for it worthless, even when the file has a new entry by
the time they return. In `FilePipeline` that is the doing of the entry id which
a runner takes into its await (`entry_id`): `Held`, `Output` and `Asked` are the
refinement mapping, and a call is asked for whatever file now owns the row it
remembers. `RepliedToFile`, the mutant that looks the entry up again by its
file, writes the text of the old transcription into the new entry.

Abstractions:

- A column is NULL, `""` or text. The model may answer any of `Texts`; `""` is
  among them since it is falsy in `if translation:` and yet moves the status on.
- A batch may start whenever the loop is free. That covers the drain, the manual
  route and any number of users; what wakes the drain is the matter of
  `Server`.
- A batch takes the files of a stage in any order (the query has no ORDER BY).
- An await always gives up the loop. `llm.translate` of an English text returns
  without doing so: one of the interleavings of the model.
- A deleted id is not used again (uuid4), and a new entry's id is that of no row
  and of none a run remembers. When a file is uploaded again it is another file.
- `.first()` is an arbitrary entry of the file; there is at most one
  (`OneEntryPerFile`), so nothing is lost.
- Left out: `transcription` and `language` (an entry that exists has them),
  `processed_at`, the counts in the result, log lines, SSE events. `qdrant_id` is
  in `SearchIndex`, the file on disk in `UploadStore`: here `AudioMissing` may
  happen to any file, and the embedding may end in any way.

### WorkQueue

`queue`, `waiting`, `unfinished` and `current` are the module's globals and
the task count of the asyncio queue; `pc`, `batch` and `rest` are where
`drain_queue` is. From the end of its sleep to the first await of its run the
drain keeps the loop (`collect`, `unmirror`), so no enqueue and no reader comes
in between. `manual` are the runs of `POST /api/process`. `working` is the file
whose runner a run is awaiting: `SetCurrent` names a file and starts its runner,
`FileOver` is the runner's return, after which nothing is set until the next
file. `crossed` is history: the runs under way that have met another one.

`queue.py:34` speaks of the file "actively" processed. That is more than the code
gives: between two files and while a stage probes its LLM server
(`pipeline.py:377`, `392`, `407`) the panel shows a file that is over, and of
two overlapping runs each shows its file over the other's, the first to end
clearing it for both. What does hold, for a run that has met no other, is
`CurrentFollows`: while a runner is at work the panel shows its file, and once
every run is over it shows none.

`Unserved` is what no run has started for: the queue, and before them the ids
that a sleeping drain holds. It is the refinement mapping to `WakeSignal`, where
a run takes all that waits, in order, in one step, and nothing is served by a
run that started before it came. Since a run queries the table after it
started, no wake-up is lost.

### Server

In `FilePipeline` a batch may start at any time. `Server` says which does: one
of `Batches`, `Drain`, is that of `drain_queue` and starts in `DrainServes`
only, which takes what the queue holds; the others, and the single-file runs,
are users' (`UserStarts`). `UploadAndEnqueue` and `ResetAndEnqueue` are the
requests with their `enqueue`, in one slice of the loop; the requests of `Edit`
put nothing on the queue, as in the code; `Restart` loses it. The queue is the
abstract one, an instance of `WakeSignal`: `WorkQueue` is shown to implement it,
so the debounce, the mirror and the ids in flight need not be looked at again.

### WhisperModel

`model`, `current` and `broken` are the globals `_model`, `_current_model_name`
and `_whisper_gpu_broken`; `lock` is the thread that holds `_model_lock`. A
thread holds it over more than one step only while it builds a model
(`StartLoad`, then `EndLoad` or `LoadError`), the other blocks under the lock
being short. The reads outside it are steps of their own: the configured name
(`ReadConfig`), `return _model` (`Return`) and the test before the fallback
(`Test`). In "use" a call has been given its model and is about to call
`transcribe` on it or is in it: what `NoGpuOnceRetired` rules out is that a
call is given a GPU model after the retirement, not that one given before
starts on it late. The model a call is given may be of another name than it
asked for, when the name changes between the lock and the return; no property
says otherwise. Left out: the search of the Hugging Face cache, the temporary file of
the preprocessing, and whether the exception that ends a call is one or another.

### UploadStore

`record` is `files.sha256` by id, `disk` the file at the id's `local_path`
(none, partial or whole). No handler awaits after it has read the body, so one
`handler` is at work at a time; its steps are its commits and its writes, since
between those an I/O error or the death of the process may come.

| action | code |
|---|---|
| `UploadDuplicate`, `UploadCommit` | `upload_file`: 409, or the commit of the record |
| `Refreshed`, `RefreshFailed` | `session.refresh(record)`, outside the `try`: when it raises the record stays and its file is never written |
| `Written`, `WriteFailed`, `RollBack` | `write_bytes`; its `except`, which deletes the record and leaves what was written |
| `BeginDelete`, `Remove`, `RemoveFailed`, `CommitDelete` | `delete_file` and `batch_delete`: `os.remove` one by one, an `OSError` logged only, then one commit |
| `CommitFailed` | the commit of a rollback or of a deletion raises |
| `Crash` | the process dies; nothing in the startup looks at the directory |

`asked`, `answered` and `unread` are history: the ids somebody asked to delete,
those answered 200, and those whose upload ended at the refresh. A record left
that way is also `pending` without having been enqueued; `Server` leaves the
failures of the stores out. Audio is told apart by its hash only. Left out: the recording
date, the name of the file (the id alone makes the path unique), entries, status
and the enqueue, which are in `FilePipeline` and `Server`.

`AudioStore` sees both stores as one: `held` are the contents with a record and
a whole file, `wanted` those of them nobody asked to delete. Contents enter
whole and at once, never twice, and leave only on demand.

### SearchIndex

One file, from "summarized" on. `row` is its entry (None when there is none),
`json` the entry's `extracted_json`, which stands for the text that is embedded,
`indexed` whether `qdrant_id` is set; `point` and `collection` are Qdrant's, and
`model` is `embedder._model`. The stages before are one step (`EarlierStages`),
being those of `FilePipeline`.

| action | code |
|---|---|
| `StartExtract`, `Replied`, `ExtractFailed` | `run_extraction_and_finalize` around `llm.extract` |
| `StartEmbed`, `Embed` | the entry read for `upsert_entry`; `_build_entry_text` raises on the spot or the text goes to the executor |
| `CheckModel`, `LoadModel`, `Encode`, `EmbedFailed` | the executor thread: `_get_model`, which takes no lock, and `encode` |
| `Upsert`, `QdrantFailed` | `ensure_collection` and `client.upsert`, which do not await; the client may raise although the point was stored |
| `SaveId`, `SaveIdFailed` | the commit of `qdrant_id`, or what the `except` swallows: the entry is gone, or the commit raises |
| `MarkDone`, `MarkDoneRaises` | the last commit, or its exception, which ends the run |
| `ClearColumns`, `DropRow` | the endpoints that clear columns, delete or reset; none tells Qdrant |
| `Crash` | the process dies, with threads and model |

`overlapped` records whether two runs have been in the last stage at once,
`lost` the entries whose last embedding, or its id, was not saved. The payload of a point is left out: it is computed from
the same entry object as the vector. An edit of the transcription alone is left
out because no endpoint makes one that keeps the entry.

### DataFiles

`prompts`, `recent` and `tmp` are `prompts.json`, `recent.json` and
`recent.json.tmp`: absent, torn or whole, and what they hold. A file cut short
is no JSON, since the last character closes the object; so `load_prompts` falls
back to the defaults. `table` is what `entries` holds of the last seven days.
The writers do not await: `task` is the one at work, from its read to its write.

| action | code |
|---|---|
| `PutPrompt`, `PutUnknown` | `put_prompt` and `update_prompt`, or 422 |
| `Saved`, `SaveFailed`, `DieSaving` | `write_text` ends, raises, or is where the process dies |
| `EditTable` | the entries change or grow old |
| `Refresh`, `TmpWritten`, `Replace`, `RefreshFailed` | `write_recent_cache` |
| `IntervalRefresh`, `ManualRefresh` | who calls it: the scheduler's job, when `CACHE_REFRESH_INTERVAL_MINUTES` is positive (`Periodic`), and `POST /api/process` |

`possible` is what the users know a prompt may be: the last text acknowledged,
and those of puts the process died in. `lost` are the prompts not put again
since a torn write.

## Runs

| run | bounds | shows |
|---|---|---|
| `pipeline_race` | 1 file, 3 entry ids, 2 batches and a single-file run, all requests, 1 restart | types; one entry per file; nothing stranded in `processing`; the entry is there between two LLM stages; `Transcripts` |
| `pipeline_batch` | 2 files, 3 ids, 1 batch; uploads, resets, deleted entries, 1 restart, `LiveSpec` | a batch never takes a file back, never replaces an output, and ends only after every stage has been through its files; every step of a run brings it nearer to its end; once the users leave the files alone every one that waits ends done or failed |
| `pipeline_overlap` | 1 file, 2 batches and a single-file run, uploads, deletions, 1 restart, `FairSpec` | a status never promises a NULL column; every run ends |
| `queue_drain` | 2 ids, 2 manual runs, debounce, 5 pending ids, `FairSpec` | types; the mirror and the task count are right; the panel shows the file of a lone run, and none once all are over; `WakeSignal`, liveness included |
| `server_wakeup` | 1 file, the drain and a user's batch, uploads, resets, deletions, 1 restart, 2 pending ids, `FairServerSpec` | types; a pending file is awaited; it is taken up |
| `whisper_fallback` | 3 threads, 2 names, 4 calls, a GPU, `FairSpec` | types; the model is the one named; it is lost to a retirement only; no call is given a model of a retired GPU; every call ends |
| `upload_store` | 2 contents, 3 ids, 2 faults, 2 restarts | types; an answered upload is kept; files without a record and records without a file cost the failures they must; `AudioStore` |
| `search_index` | 2 entry ids, 2 runs, 2 texts, any number of restarts | types; a saved point id has its point; a finalized entry is found by its present text |
| `data_files` | 2 prompts and an unknown name, 3 texts, 1 entry, an interval job, any number of failures, `FairSpec` | types; a prompt reads as it was left, or as the default; the cache is a snapshot, and catches up |

Why the bounds are enough. The races on one file need at most the three kinds of
runs, and three of them already hold every pair of stages at once; files meet
only in the loop of a batch and in its snapshots, for which two files serve.
The ids of entries never run out: the rows and the ids remembered by the runs
that are not inserting are at most `|Files| + |Runs| - 1`. One restart
(`MaxCrashes`) is enough for the properties with a restart, since nothing but
the tables survives it and every table state it leaves is one that the requests
and the first life can lead to. `MaxPending` gives the queue of `WorkQueue` a
head, a middle and a tail with duplicates, together with ids taken by the
sleeping drain; in `Server` two ids are one being served and one that came in
meanwhile. Three threads are one that retires the GPU, one that loads and one
that does either again; the fourth call is a second one of some thread
(`MaxCalls`). Three ids for two contents let a content come back under another
id while the first has left a file, or a record, behind; a record without its
file needs one restart, two faults or the one fault of the re-read
(`MaxCrashes`, `MaxFaults`), and the bound of `HollowRecordsCost` can be met
by several of these at once. Two entry ids are one that was dropped
and the one after it; two runs are the least that overlap. A prompt and another
one tell a text that is kept from one that is put; a file torn by one put is
read by the next.

`pipeline_batch` has one batch at a time on purpose: with
two, a batch that slept through the other's commit writes its older status over
it, and pays for the same output again. The code makes no promise here (the
comment at `pipeline.py:79` speaks of the race and settles only the second row).
Overlap alone, with no restart, can even leave a file that every later run
skips: `translated` saved late by one run over the `summarized` of the other,
whose summary is there already. `EventuallyFinished` rests on one batch at a
time for this reason.
`pipeline_overlap` has no edits of entries, because the clear endpoints break
`ColumnsBackStatus` by themselves: they set a status whatever it was.

`server_wakeup` has no deleted entries, and its properties stop at the first
restart: `_delete_entry_and_revert` makes a file pending and enqueues nothing,
and a restart empties the queue. In both cases the file waits for the next
upload or for a user. The clear endpoints do not enqueue either, whatever
`templates/partials/entries_table.html:53` says ("re-queued").

Deadlock is checked in every run but `server_wakeup`: a server with an empty
queue, every file deleted and no request left in the bounds rightly stops.

### Fairness

`FairSpec` of `FilePipeline` assumes of each run that it is not passed over for
ever when it can go on again and again (SF): asyncio resumes ready coroutines in
FIFO order, the LLM client has a timeout of 120 s, the probe one of 5 s, and
Whisper and the embedding are assumed to return or raise. Strong fairness is needed
because another run can take the loop each time it becomes free.

`LiveSpec`, used for `EventuallyFinished` and `SurvivorsFinish`, adds what the
code cannot give: somebody starts batches again and again (users, uploads; an
idle server starts none), and for each file the models answer from time to time.
A file whose LLM call always fails is retried for ever, by design.

`FairSpec` of `WorkQueue` is weak fairness of the drain; that its run ends is
`RunsTerminate` above. `FairServerSpec` is strong fairness of the drain and of
each run, for the same reason as `FairSpec` of `FilePipeline`, and nothing of
the users. `FairSpec` of `WhisperModel` is weak fairness of each thread: loading
and inference return or raise. `RLock` promises no order, and none is needed
since the calls are finitely many (`MaxCalls`). `CallsEnd` is what
`FilePipeline` assumes of the await of a transcription.

`FairSpec` of `DataFiles` assumes that a write, once begun, ends one way or
another, and, only where there is an interval job (`Periodic`), that the job
comes round again and again: strong fairness of `IntervalRefresh`, since prompts
and edits take the loop in between. By default there is no job
(`config.py:45`), and nothing makes users call `POST /api/process`, the only
other refresh; so `CacheCatchesUp` has `Periodic` for a hypothesis, and without
it the cache shows what the table was at the last such call. The drain of the
queue refreshes nothing, whatever `ROADMAP.md:145` says ("after each pipeline
run"). That refreshes no longer fail from some time on is a hypothesis of the
property too, as is a table that comes to rest.

## Findings

Each is a run that ends in a violation.

| run | what happens |
|---|---|
| `found_wedged` | restart between the commit of a translation and of its status: `transcribed` with a translation. `run_translation` then returns None at `pipeline.py:145` without moving the status on, in every later run. The same at line 191 for the summary. |
| `found_done_without_entry` | the entry is removed by a reset while it is embedded: `done` over the `pending` of the reset, with no entry. |
| `found_batch_aborted` | a file deleted while it is embedded raises out of the batch (`pipeline.py:273` on None); the files behind it lose their turn. |

`BatchVisitsAll` is checked twice: it holds without deletions
(`pipeline_batch`) and fails with them (`found_batch_aborted`).
`EventuallyFinished` speaks of the time before the first restart, because
`found_wedged` is what a restart can do.

The models also show, without a run of their own:

- A file deleted while it is transcribed gets an entry afterwards
  (`pipeline.py:89`; the foreign key is not enforced). `EmbeddedRaises` and
  `SaveStatusFailed` are where such a run ends.
- `POST /api/process/{file_id}` takes a live `processing` for an interrupted one
  (`routes/process.py:32`), and the file is transcribed twice.
- An exception without a text is taken for a success (`pipeline.py:353`,
  `routes/process.py:36`): the page is told `done` of a stage that failed.
- Between two files, and during the probes, the panel shows a file that is over;
  see WorkQueue.
- A write of an upload that fails half-way leaves a part of the file without a
  record, where `upload.py:109` says never; `OrphansCostFaults` counts those. A
  restart between the commit and the write leaves a record without its file,
  where line 110 says never, and its hash then refuses the same upload until the
  record is deleted; so does a failing `session.refresh` at line 122, with an
  error for an answer.
- Two first embeddings at once both load the model (`embedder.py:7` says once).
- A file whose JSON is cleared while it is being embedded ends done without it,
  for the last commit is over whatever the file has become. `DoneIsFresh` asks
  nothing of an entry without JSON.
- No endpoint deletes a point: those of deleted entries stay in Qdrant. Clearing
  keeps `qdrant_id`, so that after a failed re-embedding the entry is found by
  its old text; `DoneIsFresh` excepts it.
- Two overlapping runs may leave the older text's vector over the newer one.
- A torn `prompts.json` reads as the defaults, and the next put saves them over
  the overrides of the other prompts.

## Proofs

Checked by TLAPS for all values of the constants. `FilePipelineProofs` assumes
`NoneIsNoId`, `RunsDistinct` and `InputsAssumption`; `WorkQueueProofs` assumes
`QueueAssumption`; `ServerProofs` assumes those of `FilePipeline` and
`DrainAssumption`; `WhisperProofs` assumes `WhisperAssumption`;
`UploadStoreProofs` assumes `NoneIsNoContent`, `IdsFinite` and
`BoundsAssumption`; `SearchIndexProofs` assumes `NoneIsNone`; `DataFilesProofs`
assumes `DataAssumption`. All of them are evaluated by TLC in the runs.

| theorem | argument |
|---|---|
| `FilePipelineProofs!TypeCorrect` | `TypeOK` is inductive |
| `OneEntryHolds` | inductive with `TypeOK`: only `Transcribed` inserts, after it has read that there is no entry, in one slice |
| `NoStrandedHolds` | needs `LoopHeld`: a run is in the middle of a slice (`next`, `saved`) only when it holds the loop, so between its output and its status nothing touches the file |
| `EntryBacksHolds` | needs `RunsOwnRows` as well: a run that has committed an output, and still holds the loop, remembers the row of its own file, so the status it is about to save is backed. `IInv` is `TypeOK`, `LoopHeld`, `RunsOwnRows` and the property |
| `StepsDescendHolds` | by cases on the step: only `EndStage` moves to another stage, the next one; an await takes its file off the list, and what follows it (`saved`, `embed`) leads back to the head of the loop. No action of another run or request writes the locals of a run |
| `WorkQueueProofs!TypeCorrect`, `MirrorHolds`, `TaskCountHolds` | one inductive invariant; within a slice of the drain the mirror is `rest` followed by the queue |
| `CurrentHolds` | needs `Alone`: a run that has met no other is the only one under way, so what it names stays until it names another or ends (`MetAlone`, `EndAlone`) |
| `SignalImplemented` | with that invariant each step maps to `Notify`, `Serve`, `Done` or a stutter: `Unserved` does not change while ids move from the queue to the batch |
| `ServerRunsPipeline` | each step of the server is a step of the pipeline or a stutter, so the invariants above hold of the server |
| `ServerTypeCorrect` | inductive with `TypeOK` |
| `PendingHolds` | `AwaitInv`: no run sets a file back to `pending` (`StepNeverPends`), and the drain leaves none behind in its first stage (`StepKeepsAhead`), which needs `EmbedsLast`, since an exception after the embedding is the one that ends a batch early; so only the enqueuing requests make a file pending, and what leaves the queue is in the drain's snapshot. Assumes that no entry is deleted |
| `WhisperProofs!TypeCorrect`, `NamedHolds`, `LostHolds`, `RetiredHolds` | one invariant: a model is built under the lock (`LoadingLocked`), so the GPU is not retired between the choice of the device and the end of the load, and a retired GPU holds no model (`GpuRetired`) |
| `TableProofs!ColumnsHold` | `ColumnInv`: `IInv`, one entry per file, and `RunsVouch`: the row a run took into an await is the file's as long as the file is there, with every column filled that the run has seen filled. So the status it saves last is backed whatever other runs did, since no run empties a column (`StepKeepsColumns`). Assumes that users only upload and delete |
| `BatchVisitsAllHolds` | `VisitInv`: `IInv`, and the file of a run at work is still recorded, which is what `EmbeddedRaises` and the `except` of the runners need to be ruled out. Assumes that no file is deleted; with deletions it is false (`found_batch_aborted`). Runs may overlap |
| `NeverRegressesHolds` | `NeverAheadInv`: `IInv`, `EmbedsLast`, and, while runs do not overlap, the file a run is at work on has not gone past the status the run will save (`NotAhead`). Assumes that no columns are cleared, since a clear sets a status ahead of the run |
| `FilledKeptHolds` | `UnfilledInv`: `IInv`, and, while runs do not overlap, the column a call is to fill is not filled as long as its row is there (`AwaitsUnfilled`) |
| `TranscriptsImplemented` | `TranscriptInv`: `IInv`, one entry per file, and ids without a row have no columns (`FreeRowsBlank`), so that a new entry begins empty. With one entry per file the row a run remembers is the file's only entry or is gone: a reply is an `Answer`, a call that fails or returns to nothing a `GiveUp`, the removal of rows a `Remove` with the calls for them (`RemoveRefines`), and all else a stutter. A call is still asked for when an overlapping run has one for the same column (`AskedByOthers`) |
| `UploadStoreProofs!TypeCorrect`, `AnsweredHolds` | inductive: only the rollback and a deletion take a record, the first of an upload that is not answered |
| `OrphansHold`, `HollowHolds` | inductive, by counting: a step adds at most one file without a record, or one record without its file, and only at the price of a fault or a crash; a rollback in progress has its fault paid already. `HollowHolds` counts with weights: a record lost at the re-read costs one, any other two, and a crash pays two |
| `StoreImplemented` | needs that records have distinct contents, which the check before the commit gives since nothing comes between them; then `Written`, or a crash after the write, is `Keep`, a deletion's start `Ask`, each removal `Drop`, and all else a stutter |
| `SearchIndexProofs!TypeCorrect`, `IndexedHolds` | inductive with: a run between the upsert and the commit of its id has a point |
| `FreshHolds` | while no two runs have overlapped, the only active run's text is that of the entry as far as the entry still has one; after its upsert the point is computed from it |
| `DataFilesProofs!TypeCorrect`, `KeptHolds`, `NeverOlderHolds`, `SnapshotHolds` | inductive; for the snapshot, that the temporary file of a refresh about to rename is the whole present table, since the table cannot change in between |

`[]OneRunAtATime` in `NeverRegressesHolds` and `FilledKeptHolds` is a hypothesis
on the behaviour and not on the constants: any number of batches and
single-file runs, one after the other. Both properties are false of runs that
overlap, as said under Runs. The strengthened invariants of `TableProofs`
hold in the bounds of the runs too, as TLC finds.

Only model-checked: what is temporal under fairness (`RunsTerminate`,
`EventuallyFinished`, `SignalKept`, `PendingTakenUp`, `CallsEnd`,
`CacheCatchesUp`), which TLAPS does not reach. Of `RunsTerminate` the part that
needs no fairness is proved: `StepsDescend` bounds the steps a run can take.
That each of them comes is fairness, and that a bounded descent ends is an
induction over data, and both stay with TLC.

## Plan

Every invariant and action property of the passing runs is proved. What is left
to say about the code: a refinement that takes the vectors of `SearchIndex`
together with the entries of `FilePipeline`, and the commits that SQLite may
refuse in the pipeline.

## Not modelled

- The LLM client and the audio metadata: HTTP and pure parsing, no state. Their
  outcomes (an answer, `""`, an exception) are inputs of `FilePipeline`. A prompt
  with a stray brace, for which `str.format` raises (`llm.py:104`), is one of the
  failures.
- SSE: each connection has an unbounded queue of its own, `emit` puts into each
  of them without waiting, and the page polls the table as well. No step of one
  connection reads another's state and no delivery is promised, so there is
  nothing for an interleaving to break.
- Model configuration: each operation is one commit on one row. The one that
  others hold on to, the name of the speech model, is in `WhisperModel`.
- The startup apart from the recovery: directories, tables and seeds are created
  when absent, before any request.
- Pages and templates: presentation.
- Failing commits of SQLite in the pipeline: there is one writer at a time on
  the loop. `UploadStore` has them where they part the table from the disk, and
  `SearchIndex` those that part it from Qdrant, of `qdrant_id` and of `done`.
- The temporary file of the preprocessing, which stays when ffmpeg is missing
  (`whisper_service.py:171`): one call, no interleaving.
- `reset_processing_queue`: a helper of the tests.
