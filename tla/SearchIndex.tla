----------------------------- MODULE SearchIndex ----------------------------
(***************************************************************************)
(* The vectors of one file's entry in Qdrant: run_extraction_and_finalize  *)
(* of pipeline.py and upsert_entry of embedder.py, against the endpoints   *)
(* that edit the entry.  The text is read before the embedding and the     *)
(* point written after it; the embedding runs in an executor thread, which *)
(* loads the model on first use and takes no lock.                         *)
(*                                                                         *)
(* `loop` is the run that holds the event loop across its Qdrant call and  *)
(* its two commits.  The stages before are those of FilePipeline, in one   *)
(* step.                                                                   *)
(***************************************************************************)
CONSTANTS
    Rows,        \* Entry.id, also the id of the entry's point
    Runs,        \* coroutines that may finalize the file: batches, singles
    Texts,       \* what the extraction may make of an entry
    None

ASSUME NoneIsNone == None \notin Rows \cup Runs \cup Texts

VARIABLES
    status,      \* files.status: "early" stands for all before "summarized"
    row,         \* the file's row of `entries`; None when there is none
    json,        \* entries.extracted_json, for the text that is embedded
    indexed,     \* entries.qdrant_id is set
    point,       \* the text a point of Qdrant was computed from, or None
    collection,  \* the Qdrant collection exists
    model,       \* embedder._model is set
    run,         \* the local state of each run
    loop,        \* the run that holds the event loop, None when it is free
    overlapped,  \* history: two runs have finalized the file at once
    lost         \* history: rows whose last embedding, or its id, was not saved

qdrant == <<point, collection>>
vars == <<status, row, json, indexed, point, collection, model, run, loop,
          overlapped, lost>>

\* "extract" awaits the LLM; "check", "load" and "encode" are the executor
\* thread in _get_model and in encode; "vector" awaits the loop with a vector.
Phases == {"idle", "extract", "check", "load", "encode", "vector", "upserted",
           "finalize"}
Idle == [pc |-> "idle", row |-> None, read |-> None]

At(t, pc) == run[t].pc = pc
Active(t) == ~At(t, "idle")
Goes(t, pc) == run' = [run EXCEPT ![t].pc = pc]

\* uuid4: no row, no point and no run knows the id.
FreshRows ==
    {i \in Rows : i # row /\ point[i] = None /\ \A t \in Runs : run[t].row # i}

-----------------------------------------------------------------------------
(* The coroutine up to its await of the executor.                          *)

\* The run takes the file while nobody holds the loop.
Enters(t) ==
    /\ loop = None /\ At(t, "idle")
    /\ overlapped' = (overlapped \/ \E u \in Runs : Active(u))

\* The stages before, for a file whose entry is gone or incomplete.
EarlierStages(t) ==
    /\ Enters(t)
    /\ status = "early"
    /\ row' \in IF row = None THEN FreshRows ELSE {row}
    /\ status' = "summarized"
    /\ UNCHANGED <<json, indexed, qdrant, model, run, loop, lost>>

\* The text is read and handed to the executor; or it has nothing to embed,
\* or a fact that is no string, and _build_entry_text or the check after it
\* raises on the spot.
Embed(t, i, text) ==
    \/ /\ run' = [run EXCEPT ![t] = [pc |-> "check", row |-> i, read |-> text]]
       /\ loop' = None
       /\ UNCHANGED lost
    \/ /\ run' = [run EXCEPT ![t] = [pc |-> "finalize", row |-> i, read |-> text]]
       /\ loop' = t
       /\ lost' = lost \cup {i}

StartExtract(t) ==
    /\ Enters(t)
    /\ status = "summarized" /\ row # None
    /\ json[row] = None
    /\ run' = [run EXCEPT ![t] = [Idle EXCEPT !.pc = "extract", !.row = row]]
    /\ UNCHANGED <<status, row, json, indexed, qdrant, model, loop, lost>>

StartEmbed(t) ==
    /\ Enters(t)
    /\ status = "summarized" /\ row # None
    /\ json[row] # None
    /\ Embed(t, row, json[row])
    /\ UNCHANGED <<status, row, json, indexed, qdrant, model>>

\* Mutated: the text is the one read before the extraction.
RepliedStale(t, text) ==
    /\ loop = None /\ At(t, "extract")
    /\ row = run[t].row
    /\ json' = [json EXCEPT ![row] = text]
    /\ Embed(t, row, IF point[row] = None THEN text ELSE point[row])
    /\ UNCHANGED <<status, row, indexed, qdrant, model, overlapped>>

Replied(t, text) ==
    /\ loop = None /\ At(t, "extract")
    /\ row = run[t].row
    /\ json' = [json EXCEPT ![row] = text]
    /\ Embed(t, row, text)
    /\ UNCHANGED <<status, row, indexed, qdrant, model, overlapped>>

\* The LLM raised, or the entry is gone.
ExtractFailed(t) ==
    /\ loop = None /\ At(t, "extract")
    /\ run' = [run EXCEPT ![t] = Idle]
    /\ UNCHANGED <<status, row, json, indexed, qdrant, model, loop,
                   overlapped, lost>>

-----------------------------------------------------------------------------
(* The executor thread: _embed_sync and _get_model.                        *)

CheckModel(t) ==
    /\ At(t, "check")
    /\ Goes(t, IF model THEN "encode" ELSE "load")
    /\ UNCHANGED <<status, row, json, indexed, qdrant, model, loop,
                   overlapped, lost>>

\* Without a lock: two threads that have both found no model load it each.
LoadModel(t) ==
    /\ At(t, "load")
    /\ model' = TRUE
    /\ Goes(t, "encode")
    /\ UNCHANGED <<status, row, json, indexed, qdrant, loop, overlapped, lost>>

Encode(t) ==
    /\ At(t, "encode")
    /\ Goes(t, "vector")
    /\ UNCHANGED <<status, row, json, indexed, qdrant, model, loop,
                   overlapped, lost>>

\* The constructor or encode raises: the run's `except` logs it.
EmbedFailed(t) ==
    /\ At(t, "load") \/ At(t, "encode")
    /\ lost' = lost \cup {run[t].row}
    /\ Goes(t, "finalize")
    /\ UNCHANGED <<status, row, json, indexed, qdrant, model, loop,
                   overlapped>>

-----------------------------------------------------------------------------
(* The coroutine after its await.                                          *)

\* ensure_collection, then client.upsert.
Upsert(t) ==
    /\ loop = None /\ At(t, "vector")
    /\ collection' = TRUE
    /\ point' = [point EXCEPT ![run[t].row] = run[t].read]
    /\ lost' = lost \ {run[t].row}
    /\ Goes(t, "upserted")
    /\ loop' = t
    /\ UNCHANGED <<status, row, json, indexed, model, overlapped>>

\* Mutated: the id is saved although the upsert raised.
QdrantFailedSaves(t) ==
    /\ loop = None /\ At(t, "vector")
    /\ lost' = lost \cup {run[t].row}
    /\ Goes(t, "upserted")
    /\ loop' = t
    /\ UNCHANGED <<status, row, json, indexed, qdrant, model, overlapped>>

\* Qdrant is away, or goes away between the calls; or its answer is lost, and
\* the point is there although the client has raised.
QdrantFailed(t) ==
    /\ loop = None /\ At(t, "vector")
    /\ \/ /\ collection' \in {collection, TRUE}
          /\ UNCHANGED point
       \/ /\ collection' = TRUE
          /\ point' = [point EXCEPT ![run[t].row] = run[t].read]
    /\ lost' = lost \cup {run[t].row}
    /\ Goes(t, "finalize")
    /\ loop' = t
    /\ UNCHANGED <<status, row, json, indexed, model, overlapped>>

\* The commit of qdrant_id; of an entry that is gone, an AttributeError that
\* the same `except` logs.
SaveId(t) ==
    /\ loop = t /\ At(t, "upserted")
    /\ indexed' = [indexed EXCEPT ![run[t].row] = @ \/ row = run[t].row]
    /\ Goes(t, "finalize")
    /\ UNCHANGED <<status, row, json, qdrant, model, loop, overlapped, lost>>

\* The same commit raises for an entry that is there: its point stays, and
\* the entry has no id of it, or the one it had.
SaveIdFailed(t) ==
    /\ loop = t /\ At(t, "upserted")
    /\ row = run[t].row
    /\ lost' = lost \cup {row}
    /\ Goes(t, "finalize")
    /\ UNCHANGED <<status, row, json, indexed, qdrant, model, loop, overlapped>>

\* Mutated: a failed embedding marks the file.
MarkDoneFailed(t) ==
    /\ loop \in {None, t} /\ At(t, "finalize")
    /\ status' = IF run[t].row \in lost THEN "failed" ELSE "done"
    /\ run' = [run EXCEPT ![t] = Idle]
    /\ loop' = None
    /\ UNCHANGED <<row, json, indexed, qdrant, model, overlapped, lost>>

\* "done", whatever the file has become; without its record, an
\* AttributeError that ends the run.
MarkDone(t) ==
    /\ loop \in {None, t} /\ At(t, "finalize")
    /\ status' = IF status = "deleted" THEN status ELSE "done"
    /\ run' = [run EXCEPT ![t] = Idle]
    /\ loop' = None
    /\ UNCHANGED <<row, json, indexed, qdrant, model, overlapped, lost>>

\* The last commit raises: the run ends, and the file waits for the next.
MarkDoneRaises(t) ==
    /\ loop \in {None, t} /\ At(t, "finalize")
    /\ run' = [run EXCEPT ![t] = Idle]
    /\ loop' = None
    /\ UNCHANGED <<status, row, json, indexed, qdrant, model, overlapped, lost>>

-----------------------------------------------------------------------------
(* Edits of the entry; none of them talks to Qdrant, none clears the id.   *)

\* delete_entry_extracted_json; delete_entry_translation and _summary.
ClearColumns(st) ==
    /\ loop = None /\ row # None
    /\ json' = [json EXCEPT ![row] = None]
    /\ status' = st
    /\ UNCHANGED <<row, indexed, qdrant, model, run, loop, overlapped, lost>>

\* delete_entry, batch_reset; delete_file; of a file with or without its
\* entry. The point stays.
DropRow(st) ==
    /\ loop = None /\ status # "deleted"
    /\ json' = [i \in Rows |-> IF i = row THEN None ELSE json[i]]
    /\ indexed' = [i \in Rows |-> indexed[i] /\ i # row]
    /\ row' = None
    /\ status' = st
    /\ UNCHANGED <<qdrant, model, run, loop, overlapped, lost>>

\* The process dies: threads, model and runs with it.
Crash ==
    /\ run' = [t \in Runs |-> Idle]
    /\ loop' = None
    /\ model' = FALSE
    /\ UNCHANGED <<status, row, json, indexed, qdrant, overlapped, lost>>

-----------------------------------------------------------------------------

Init ==
    /\ status = "early"
    /\ row = None
    /\ json = [i \in Rows |-> None]
    /\ indexed = [i \in Rows |-> FALSE]
    /\ point = [i \in Rows |-> None]
    /\ collection = FALSE
    /\ model = FALSE
    /\ run = [t \in Runs |-> Idle]
    /\ loop = None
    /\ overlapped = FALSE
    /\ lost = {}

Finalize(t) ==
    \/ StartExtract(t)
    \/ StartEmbed(t)
    \/ \E text \in Texts : Replied(t, text)
    \/ ExtractFailed(t)
    \/ Upsert(t)
    \/ QdrantFailed(t)
    \/ SaveId(t)
    \/ SaveIdFailed(t)
    \/ MarkDone(t)
    \/ MarkDoneRaises(t)

Thread(t) ==
    \/ CheckModel(t)
    \/ LoadModel(t)
    \/ Encode(t)
    \/ EmbedFailed(t)

Edit ==
    \/ \E st \in {"early", "summarized"} : ClearColumns(st)
    \/ \E st \in {"early", "deleted"} : DropRow(st)

Next ==
    \/ \E t \in Runs : EarlierStages(t) \/ Finalize(t) \/ Thread(t)
    \/ Edit
    \/ Crash

Spec == Init /\ [][Next]_vars

-----------------------------------------------------------------------------
(* Properties.                                                             *)

\* The life cycle of the file, the rows and their points, and the runs.
TypeOK ==
    /\ status \in {"early", "summarized", "done", "deleted"}
    /\ row \in Rows \cup {None}
    /\ json \in [Rows -> Texts \cup {None}]
    /\ indexed \in [Rows -> BOOLEAN]
    /\ point \in [Rows -> Texts \cup {None}]
    /\ run \in [Runs -> [pc : Phases, row : Rows \cup {None}, read : Texts \cup {None}]]
    /\ loop \in Runs \cup {None}
    /\ collection \in BOOLEAN /\ model \in BOOLEAN /\ overlapped \in BOOLEAN
    /\ lost \subseteq Rows

\* An entry with a qdrant_id has a point, in a collection that exists,
\* although the upsert and the commit of the id are apart and a crash or an
\* edit may come anywhere.
IndexedHasPoint == \A i \in Rows : indexed[i] => collection /\ point[i] # None

\* A finalized entry is found by its present text: while its last embedding was
\* saved, point and id, and no two runs have finalized the file at once, no
\* edit, reset or crash leaves "done" over a vector of an older text.
DoneIsFresh ==
    /\ status = "done" /\ row # None /\ ~overlapped
    /\ \A t \in Runs : ~Active(t)
    /\ row \notin lost /\ json[row] # None
    => indexed[row] /\ point[row] = json[row]
=============================================================================
