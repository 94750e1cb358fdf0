-------------------------- MODULE SearchIndexProofs -------------------------
(***************************************************************************)
(* Theorems about SearchIndex, for any rows, runs and texts.               *)
(***************************************************************************)
EXTENDS SearchIndex, TLAPS

\* A run at work has a row, and a text once it has left the LLM.
RunsKnow ==
    \A t \in Runs : Active(t) => /\ run[t].row \in Rows
                                 /\ ~At(t, "extract") => run[t].read \in Texts

Shape == TypeOK /\ RunsKnow

RunType == [pc : Phases, row : Rows \cup {None}, read : Texts \cup {None}]

\* The steps at either end of a run: where they take it.
LEMMA EndsOfRun ==
    ASSUME NEW t \in Runs,
           \/ EarlierStages(t) \/ StartExtract(t) \/ StartEmbed(t)
           \/ ExtractFailed(t) \/ MarkDone(t) \/ MarkDoneRaises(t)
           \/ \E text \in Texts : Replied(t, text)
    PROVE  /\ UNCHANGED <<point, collection, indexed, model>>
           /\ \/ UNCHANGED run
              \/ \E r : /\ run' = [run EXCEPT ![t] = r]
                         /\ r.pc \in {"idle", "extract", "check", "finalize"}
<1>1. UNCHANGED <<point, collection, indexed, model>>
  BY DEF EarlierStages, StartExtract, StartEmbed, ExtractFailed, MarkDone,
         MarkDoneRaises, Replied,
         qdrant
<1>2. ASSUME NEW i, NEW text, Embed(t, i, text)
      PROVE  \E r : /\ run' = [run EXCEPT ![t] = r]
                    /\ r.pc \in {"idle", "extract", "check", "finalize"}
  <2>1. CASE run' = [run EXCEPT ![t] = [pc |-> "check", row |-> i, read |-> text]]
    <3>1. [pc |-> "check", row |-> i, read |-> text].pc = "check"
      OBVIOUS
    <3>2. QED
      BY <2>1, <3>1
  <2>2. CASE run' = [run EXCEPT ![t] = [pc |-> "finalize", row |-> i, read |-> text]]
    <3>1. [pc |-> "finalize", row |-> i, read |-> text].pc = "finalize"
      OBVIOUS
    <3>2. QED
      BY <2>2, <3>1
  <2>3. QED
    BY <1>2, <2>1, <2>2 DEF Embed
<1>3. CASE EarlierStages(t)
  BY <1>1, <1>3 DEF EarlierStages
<1>4. CASE StartExtract(t)
  <2>1. [Idle EXCEPT !.pc = "extract", !.row = row].pc = "extract"
    BY DEF Idle
  <2>2. QED
    BY <1>1, <1>4, <2>1 DEF StartExtract
<1>5. CASE StartEmbed(t)
  BY <1>1, <1>2, <1>5 DEF StartEmbed
<1>6. CASE ExtractFailed(t) \/ MarkDone(t) \/ MarkDoneRaises(t)
  <2>1. Idle.pc = "idle"
    BY DEF Idle
  <2>2. QED
    BY <1>1, <1>6, <2>1 DEF ExtractFailed, MarkDone, MarkDoneRaises
<1>7. CASE \E text \in Texts : Replied(t, text)
  BY <1>1, <1>2, <1>7 DEF Replied
<1>8. QED
  BY <1>3, <1>4, <1>5, <1>6, <1>7

-----------------------------------------------------------------------------
(* Type correctness.                                                       *)

\* What a step makes of the runs: t goes on to a phase, with its row and text.
LEMMA GoesType ==
    ASSUME Shape, NEW t \in Runs, NEW pc \in Phases, Active(t), Goes(t, pc),
           At(t, "extract") => pc = "extract"
    PROVE  run' \in [Runs -> RunType] /\ RunsKnow'
  BY DEF Shape, TypeOK, RunsKnow, Active, At, Goes, RunType

LEMMA EndType ==
    ASSUME Shape, NEW t \in Runs, run' = [run EXCEPT ![t] = Idle]
    PROVE  run' \in [Runs -> RunType] /\ RunsKnow'
  BY DEF Shape, TypeOK, RunsKnow, Active, At, Idle, Phases, RunType

LEMMA EmbedType ==
    ASSUME Shape, NEW t \in Runs, NEW i \in Rows, NEW text \in Texts, Embed(t, i, text)
    PROVE  /\ run' \in [Runs -> RunType] /\ RunsKnow'
           /\ loop' \in Runs \cup {None} /\ lost' \subseteq Rows
  BY DEF Shape, TypeOK, RunsKnow, Active, At, Embed, Phases, RunType

LEMMA SameRuns ==
    ASSUME Shape, UNCHANGED run
    PROVE  run' \in [Runs -> RunType] /\ RunsKnow'
  BY DEF Shape, TypeOK, RunsKnow, Active, At, RunType

LEMMA InitShape == Init => Shape
<1>1. SUFFICES ASSUME Init PROVE Shape
  OBVIOUS
<1>2. /\ json \in [Rows -> Texts \cup {None}]
      /\ indexed \in [Rows -> BOOLEAN]
      /\ point \in [Rows -> Texts \cup {None}]
  BY <1>1 DEF Init
<1>3. run \in [Runs -> RunType] /\ RunsKnow
  BY <1>1 DEF Init, Idle, Phases, RunType, RunsKnow, Active, At
<1>4. QED
  BY <1>1, <1>2, <1>3 DEF Init, Shape, TypeOK, RunType

LEMMA ShapeStep == Shape /\ [Next]_vars => Shape'
<1>1. SUFFICES ASSUME Shape, [Next]_vars PROVE Shape'
  OBVIOUS
<1> USE <1>1 DEF Shape
<1>2. ASSUME NEW t \in Runs, EarlierStages(t) PROVE Shape'
  <2>1. row' \in Rows \cup {None}
    BY <1>2 DEF EarlierStages, FreshRows, TypeOK
  <2>2. QED
    BY <1>2, <2>1, SameRuns
    DEF EarlierStages, Enters, TypeOK, RunType, qdrant
<1>3. ASSUME NEW t \in Runs, StartExtract(t) PROVE Shape'
  <2>1. row \in Rows /\ run' = [run EXCEPT ![t] = [Idle EXCEPT !.pc = "extract", !.row = row]]
    BY <1>3 DEF StartExtract, TypeOK
  <2>2. run' \in [Runs -> RunType] /\ RunsKnow'
    BY <2>1 DEF TypeOK, RunsKnow, Active, At, Idle, Phases, RunType
  <2>3. QED
    BY <1>3, <2>2 DEF StartExtract, Enters, TypeOK, RunType, qdrant
<1>4. ASSUME NEW t \in Runs, StartEmbed(t) PROVE Shape'
  <2>1. row \in Rows /\ json[row] \in Texts /\ Embed(t, row, json[row])
    BY <1>4 DEF StartEmbed, TypeOK
  <2>2. QED
    BY <1>4, <2>1, EmbedType DEF StartEmbed, Enters, TypeOK, RunType, qdrant
<1>5. ASSUME NEW t \in Runs, NEW text \in Texts, Replied(t, text) PROVE Shape'
  <2>1. run[t].row \in Rows /\ row = run[t].row /\ Embed(t, row, text)
    BY <1>5 DEF Replied, RunsKnow, Active, At
  <2>2. QED
    BY <1>5, <2>1, EmbedType DEF Replied, TypeOK, RunType, qdrant
<1>6. ASSUME NEW t \in Runs, ExtractFailed(t) PROVE Shape'
  BY <1>6, EndType DEF ExtractFailed, TypeOK, RunType, qdrant
<1>7. ASSUME NEW t \in Runs, CheckModel(t) PROVE Shape'
  <2>1. Active(t) /\ ~At(t, "extract")
    BY <1>7 DEF CheckModel, Active, At
  <2>2. QED
    BY <1>7, <2>1, GoesType DEF CheckModel, TypeOK, RunType, Phases, qdrant
<1>8. ASSUME NEW t \in Runs, LoadModel(t) PROVE Shape'
  <2>1. Active(t) /\ ~At(t, "extract")
    BY <1>8 DEF LoadModel, Active, At
  <2>2. QED
    BY <1>8, <2>1, GoesType DEF LoadModel, TypeOK, RunType, Phases, qdrant
<1>9. ASSUME NEW t \in Runs, Encode(t) PROVE Shape'
  <2>1. Active(t) /\ ~At(t, "extract")
    BY <1>9 DEF Encode, Active, At
  <2>2. QED
    BY <1>9, <2>1, GoesType DEF Encode, TypeOK, RunType, Phases, qdrant
<1>10. ASSUME NEW t \in Runs, EmbedFailed(t) PROVE Shape'
  <2>1. Active(t) /\ ~At(t, "extract") /\ run[t].row \in Rows
    BY <1>10 DEF EmbedFailed, Active, At, RunsKnow
  <2>2. QED
    BY <1>10, <2>1, GoesType DEF EmbedFailed, TypeOK, RunType, Phases, qdrant
<1>11. ASSUME NEW t \in Runs, Upsert(t) PROVE Shape'
  <2>1. Active(t) /\ ~At(t, "extract") /\ run[t].row \in Rows /\ run[t].read \in Texts
    BY <1>11 DEF Upsert, Active, At, RunsKnow
  <2>2. QED
    BY <1>11, <2>1, GoesType DEF Upsert, TypeOK, RunType, Phases
<1>12. ASSUME NEW t \in Runs, QdrantFailed(t) PROVE Shape'
  <2>1. Active(t) /\ ~At(t, "extract") /\ run[t].row \in Rows /\ run[t].read \in Texts
    BY <1>12 DEF QdrantFailed, Active, At, RunsKnow
  <2>2. point' \in [Rows -> Texts \cup {None}] /\ collection' \in BOOLEAN
    BY <1>12, <2>1 DEF QdrantFailed, TypeOK
  <2>3. run' \in [Runs -> RunType] /\ RunsKnow'
    BY <1>12, <2>1, GoesType DEF QdrantFailed, Phases
  <2>4. QED
    BY <1>12, <2>1, <2>2, <2>3 DEF QdrantFailed, TypeOK, RunType
<1>13. ASSUME NEW t \in Runs, SaveId(t) PROVE Shape'
  <2>1. Active(t) /\ ~At(t, "extract")
    BY <1>13 DEF SaveId, Active, At
  <2>2. indexed' \in [Rows -> BOOLEAN]
    BY <1>13 DEF SaveId, TypeOK
  <2>3. run' \in [Runs -> RunType] /\ RunsKnow'
    BY <1>13, <2>1, GoesType DEF SaveId, Phases
  <2>4. QED
    BY <1>13, <2>2, <2>3 DEF SaveId, TypeOK, RunType, qdrant
<1>14. ASSUME NEW t \in Runs, MarkDone(t) PROVE Shape'
  BY <1>14, EndType DEF MarkDone, TypeOK, RunType, qdrant
<1>15. ASSUME NEW st \in {"early", "summarized"}, ClearColumns(st) PROVE Shape'
  BY <1>15, SameRuns DEF ClearColumns, TypeOK, RunType, qdrant
<1>16. ASSUME NEW st \in {"early", "deleted"}, DropRow(st) PROVE Shape'
  <2>1. indexed' \in [Rows -> BOOLEAN]
    BY <1>16 DEF DropRow, TypeOK
  <2>2. QED
    BY <1>16, <2>1, SameRuns DEF DropRow, TypeOK, RunType, qdrant
<1>17. CASE Crash
  <2>1. run' \in [Runs -> RunType] /\ RunsKnow'
    BY <1>17 DEF Crash, RunsKnow, Active, At, Idle, Phases, RunType
  <2>2. QED
    BY <1>17, <2>1 DEF Crash, TypeOK, RunType, qdrant
<1>18. CASE UNCHANGED vars
  BY <1>18, SameRuns DEF vars, TypeOK, RunType, qdrant
<1>19. ASSUME NEW t \in Runs, MarkDoneRaises(t) PROVE Shape'
  BY <1>19, EndType DEF MarkDoneRaises, TypeOK, RunType, qdrant
<1>20. ASSUME NEW t \in Runs, SaveIdFailed(t) PROVE Shape'
  <2>1. Active(t) /\ ~At(t, "extract") /\ run[t].row \in Rows
    BY <1>20 DEF SaveIdFailed, Active, At, RunsKnow
  <2>2. QED
    BY <1>20, <2>1, GoesType DEF SaveIdFailed, TypeOK, RunType, Phases, qdrant
<1>21. QED
  BY <1>2, <1>3, <1>4, <1>5, <1>6, <1>7, <1>8, <1>9, <1>10, <1>11, <1>12, <1>13,
     <1>14, <1>15, <1>16, <1>17, <1>18, <1>19, <1>20
  DEF Next, Finalize, Thread, Edit

LEMMA ShapeAlways == Spec => []Shape
  BY InitShape, ShapeStep, PTL DEF Spec

\* Types hold whatever the runs, the edits and the crashes do.
THEOREM TypeCorrect == Spec => []TypeOK
  BY ShapeAlways, PTL DEF Shape

-----------------------------------------------------------------------------
(* Points.                                                                 *)

UpsertedHasPoint ==
    \A t \in Runs : At(t, "upserted") => collection /\ point[run[t].row] # None

PointInv == IndexedHasPoint /\ UpsertedHasPoint

\* No step takes the collection or a point away.
PointsKept ==
    /\ collection => collection'
    /\ \A i \in Rows : point[i] # None => point'[i] # None

\* A step that keeps the points, indexes no new row and upserts nothing.
LEMMA PointsQuiet ==
    ASSUME Shape, PointInv, PointsKept,
           \A i \in Rows : indexed'[i] => indexed[i],
           \A t \in Runs : run'[t].pc = "upserted" =>
                              At(t, "upserted") /\ run'[t].row = run[t].row
    PROVE  PointInv'
<1>1. IndexedHasPoint'
  BY DEF PointInv, IndexedHasPoint, PointsKept
<1>2. ASSUME NEW t \in Runs, At(t, "upserted")'
      PROVE  collection' /\ point'[run'[t].row] # None
  BY <1>2 DEF Shape, RunsKnow, Active, PointInv, UpsertedHasPoint, PointsKept, At
<1>3. QED
  BY <1>1, <1>2 DEF PointInv, UpsertedHasPoint

LEMMA PointStep == Shape /\ PointInv /\ [Next]_vars => PointInv'
<1>1. SUFFICES ASSUME Shape, PointInv, [Next]_vars PROVE PointInv'
  OBVIOUS
<1>2. run \in [Runs -> RunType]
  BY <1>1 DEF Shape, TypeOK, RunType
<1>3. ASSUME NEW t \in Runs, Upsert(t) PROVE PointInv'
  <2>1. run[t].row \in Rows /\ run[t].read \in Texts
    BY <1>1, <1>3 DEF Upsert, Shape, RunsKnow, Active, At
  <2>2. PointsKept /\ collection' /\ point'[run[t].row] # None
    BY <1>1, <1>3, <2>1, NoneIsNone DEF Upsert, PointsKept, Shape, TypeOK
  <2>3. IndexedHasPoint'
    BY <1>1, <1>3, <2>2 DEF Upsert, PointInv, IndexedHasPoint, PointsKept
  <2>4. ASSUME NEW u \in Runs, At(u, "upserted")' PROVE point'[run'[u].row] # None
    <3>1. CASE u = t
      BY <1>2, <1>3, <2>2, <3>1 DEF Upsert, Goes, RunType
    <3>2. CASE u # t
      BY <1>1, <1>2, <1>3, <2>2, <2>4, <3>2
      DEF Upsert, Goes, At, PointInv, UpsertedHasPoint, PointsKept, Shape, RunsKnow,
          Active
    <3>3. QED
      BY <3>1, <3>2
  <2>5. QED
    BY <2>2, <2>3, <2>4 DEF PointInv, UpsertedHasPoint
<1>4. ASSUME NEW t \in Runs, SaveId(t) PROVE PointInv'
  <2>1. /\ collection /\ point[run[t].row] # None
        /\ UNCHANGED <<collection, point>>
    BY <1>1, <1>4 DEF SaveId, PointInv, UpsertedHasPoint, qdrant
  <2>2. \A i \in Rows : indexed'[i] => indexed[i] \/ i = run[t].row
    BY <1>1, <1>4 DEF SaveId, Shape, TypeOK
  <2>3. IndexedHasPoint'
    BY <1>1, <2>1, <2>2 DEF PointInv, IndexedHasPoint
  <2>4. UpsertedHasPoint'
    BY <1>1, <1>2, <1>4, <2>1
    DEF SaveId, Goes, At, PointInv, UpsertedHasPoint, RunType
  <2>5. QED
    BY <2>3, <2>4 DEF PointInv
<1>5. ASSUME NEW t \in Runs,
             \/ EarlierStages(t) \/ StartExtract(t) \/ StartEmbed(t)
             \/ ExtractFailed(t) \/ MarkDone(t) \/ MarkDoneRaises(t)
             \/ \E text \in Texts : Replied(t, text)
      PROVE  PointInv'
  <2>1. \A u \in Runs : run'[u].pc = "upserted" =>
                           At(u, "upserted") /\ run'[u].row = run[u].row
    BY <1>2, <1>5, EndsOfRun DEF At
  <2>2. QED
    BY <1>1, <1>5, <2>1, EndsOfRun, PointsQuiet DEF PointsKept
<1>6. ASSUME NEW t \in Runs, Thread(t) \/ SaveIdFailed(t) PROVE PointInv'
  <2>1. UNCHANGED <<point, indexed, collection>>
    BY <1>6 DEF Thread, CheckModel, LoadModel, Encode, EmbedFailed, SaveIdFailed, qdrant
  <2>2. \A u \in Runs : run'[u].pc = "upserted" =>
                           At(u, "upserted") /\ run'[u].row = run[u].row
    BY <1>2, <1>6 DEF Thread, CheckModel, LoadModel, Encode, EmbedFailed, SaveIdFailed,
                      Goes, At, RunType
  <2>3. QED
    BY <1>1, <2>1, <2>2, PointsQuiet DEF PointsKept
<1>7. CASE Edit
  <2>1. UNCHANGED <<point, collection, run>>
    BY <1>7 DEF Edit, ClearColumns, DropRow, qdrant
  <2>2. \A i \in Rows : indexed'[i] => indexed[i]
    BY <1>7 DEF Edit, ClearColumns, DropRow
  <2>3. QED
    BY <1>1, <2>1, <2>2, PointsQuiet DEF PointsKept, At
<1>8. CASE Crash
  BY <1>1, <1>8, PointsQuiet DEF Crash, Idle, PointsKept, qdrant
<1>9. CASE UNCHANGED vars
  BY <1>1, <1>9, PointsQuiet DEF vars, PointsKept, At, qdrant
<1>10. ASSUME NEW t \in Runs, QdrantFailed(t) PROVE PointInv'
  <2>1. run[t].read \in Texts
    BY <1>1, <1>10 DEF QdrantFailed, Shape, RunsKnow, Active, At
  <2>2. PointsKept
    <3>1. collection => collection'
      BY <1>10 DEF QdrantFailed
    <3>2. \A i \in Rows : point[i] # None => point'[i] # None
      BY <1>1, <1>10, <2>1, NoneIsNone DEF QdrantFailed, Shape, TypeOK
    <3>3. QED
      BY <3>1, <3>2 DEF PointsKept
  <2>3. \A u \in Runs : run'[u].pc = "upserted" =>
                           At(u, "upserted") /\ run'[u].row = run[u].row
    BY <1>2, <1>10 DEF QdrantFailed, Goes, At, RunType
  <2>4. UNCHANGED indexed
    BY <1>10 DEF QdrantFailed
  <2>5. QED
    BY <1>1, <2>2, <2>3, <2>4, PointsQuiet
<1>11. QED
  BY <1>1, <1>3, <1>4, <1>5, <1>6, <1>7, <1>8, <1>9, <1>10 DEF Next, Finalize

\* An entry with a qdrant_id has a point, whatever fails, edits or dies between
\* the upsert and the commit of the id.
THEOREM IndexedHolds == Spec => []IndexedHasPoint
<1>1. Init => PointInv
  BY DEF Init, PointInv, IndexedHasPoint, UpsertedHasPoint, At, Idle
<1>2. QED
  BY <1>1, ShapeAlways, PointStep, PTL DEF Spec, PointInv

-----------------------------------------------------------------------------
(* Fresh vectors.                                                          *)

\* With one run at a time: what that run has of the entry's present text.
Alone == \A t, u \in Runs : Active(t) /\ Active(u) => t = u

Present == row # None /\ json[row] # None

Found == indexed[row] /\ point[row] = json[row]

Carries(t) ==
    /\ status # "done"
    /\ row \in {run[t].row, None}
    /\ Present /\ run[t].pc \in {"check", "load", "encode", "vector"}
          => run[t].read = json[row]
    /\ Present /\ At(t, "upserted") => point[row] = json[row]
    /\ Present /\ At(t, "finalize") /\ row \notin lost => Found

RestsFresh == status = "done" /\ Present /\ row \notin lost => Found

FreshInv ==
    ~overlapped => /\ Alone
                   /\ \A t \in Runs : Active(t) => Carries(t)
                   /\ RestsFresh

\* A step of the only run at work, or of the first one.
LEMMA StepAlone ==
    ASSUME run \in [Runs -> RunType], NEW t \in Runs, NEW r,
           run' = [run EXCEPT ![t] = r], ~overlapped', RestsFresh',
           \A u \in Runs : u # t => ~Active(u),
           r.pc # "idle" => Carries(t)'
    PROVE  FreshInv'
<1>1. \A u \in Runs : Active(u)' => u = t /\ r.pc # "idle"
  BY DEF Active, At
<1>2. QED
  BY <1>1 DEF FreshInv, Alone

LEMMA OthersIdle ==
    ASSUME FreshInv, ~overlapped, NEW t \in Runs, Active(t)
    PROVE  /\ \A u \in Runs : u # t => ~Active(u)
           /\ Carries(t)
  BY DEF FreshInv, Alone

LEMMA EntersAlone ==
    ASSUME NEW t \in Runs, Enters(t), ~overlapped'
    PROVE  ~overlapped /\ \A u \in Runs : ~Active(u)
  BY DEF Enters

\* The text just read is handed over.
LEMMA EmbedFresh ==
    ASSUME Shape, NEW t \in Runs, NEW i \in Rows, NEW text \in Texts, Embed(t, i, text),
           ~overlapped', \A u \in Runs : u # t => ~Active(u),
           row' = i, json'[i] = text, status' # "done"
    PROVE  FreshInv'
<1>1. run \in [Runs -> RunType]
  BY DEF Shape, TypeOK, RunType
<1>2. RestsFresh'
  BY DEF RestsFresh
<1>3. CASE run' = [run EXCEPT ![t] = [pc |-> "check", row |-> i, read |-> text]]
  <2> DEFINE r == [pc |-> "check", row |-> i, read |-> text]
  <2>1. r.pc = "check" /\ run'[t] = r /\ r.row = i /\ r.read = text
    BY <1>1, <1>3
  <2>2. Carries(t)'
    BY <2>1 DEF Carries, At
  <2>3. QED
    BY <1>1, <1>2, <1>3, <2>2, StepAlone
<1>4. CASE /\ run' = [run EXCEPT ![t] = [pc |-> "finalize", row |-> i, read |-> text]]
           /\ lost' = lost \cup {i}
  <2> DEFINE r == [pc |-> "finalize", row |-> i, read |-> text]
  <2>1. r.pc = "finalize" /\ run'[t] = r /\ r.row = i /\ r.read = text
    BY <1>1, <1>4
  <2>2. Carries(t)'
    BY <1>4, <2>1 DEF Carries, At
  <2>3. QED
    BY <1>1, <1>2, <1>4, <2>2, StepAlone
<1>5. QED
  BY <1>3, <1>4 DEF Embed

\* A step that leaves the tables and the points alone and takes the only run on.
LEMMA GoesFresh ==
    ASSUME Shape, FreshInv, ~overlapped', NEW t \in Runs, NEW pc \in Phases, Active(t),
           Goes(t, pc), UNCHANGED <<status, row, json, overlapped>>,
           pc \in {"check", "load", "encode", "vector"}
              => run[t].pc \in {"check", "load", "encode", "vector"},
           Present /\ pc = "upserted" => point'[row] = json[row],
           Present /\ pc = "finalize" /\ row \notin lost'
              => indexed'[row] /\ point'[row] = json[row]
    PROVE  FreshInv'
<1>1. run \in [Runs -> RunType]
  BY DEF Shape, TypeOK, RunType
<1>2. /\ \A u \in Runs : u # t => ~Active(u)
      /\ Carries(t)
  BY OthersIdle
<1>3. RestsFresh'
  BY <1>2 DEF RestsFresh, Carries
<1> DEFINE r == [run[t] EXCEPT !.pc = pc]
<1>4. r.pc = pc /\ r.row = run[t].row /\ r.read = run[t].read /\ run'[t] = r
  BY <1>1 DEF Goes, RunType
<1>5. run' = [run EXCEPT ![t] = r]
  BY DEF Goes
<1>6. Carries(t)'
  <2>1. status' # "done" /\ row' \in {run'[t].row, None}
    BY <1>2, <1>4 DEF Carries
  <2>2. Present' /\ run'[t].pc \in {"check", "load", "encode", "vector"}
           => run'[t].read = json'[row']
    BY <1>2, <1>4 DEF Carries, Present
  <2>3. Present' /\ At(t, "upserted")' => point'[row'] = json'[row']
    BY <1>4 DEF Present, At
  <2>4. Present' /\ At(t, "finalize")' /\ row' \notin lost' => Found'
    BY <1>4 DEF Present, At, Found
  <2>5. QED
    BY <2>1, <2>2, <2>3, <2>4 DEF Carries
<1> HIDE DEF r
<1>7. QED
  BY <1>1, <1>2, <1>3, <1>4, <1>5, <1>6, StepAlone

\* An edit leaves nothing to be found, and no file done.
LEMMA EditFresh ==
    ASSUME FreshInv, UNCHANGED <<run, overlapped>>, status' # "done",
           row' \in {row, None}, row' # None => json'[row'] = None
    PROVE  FreshInv'
<1>1. \A t \in Runs : Active(t)' = Active(t)
  BY DEF Active, At
<1>2. ~Present' /\ RestsFresh'
  BY DEF Present, RestsFresh
<1>3. ASSUME NEW t \in Runs, Carries(t) PROVE Carries(t)'
  BY <1>2, <1>3 DEF Carries
<1>4. QED
  BY <1>1, <1>2, <1>3 DEF FreshInv, Alone

LEMMA FreshStep == Shape /\ FreshInv /\ [Next]_vars => FreshInv'
<1>1. SUFFICES ASSUME Shape, FreshInv, [Next]_vars, ~overlapped' PROVE FreshInv'
  BY DEF FreshInv
<1>2. run \in [Runs -> RunType]
  BY <1>1 DEF Shape, TypeOK, RunType
<1>3. ASSUME NEW t \in Runs, EarlierStages(t) PROVE FreshInv'
  <2>1. /\ \A u \in Runs : ~Active(u)
        /\ UNCHANGED run /\ status' = "summarized"
    BY <1>1, <1>3, EntersAlone DEF EarlierStages
  <2>2. RestsFresh' /\ \A u \in Runs : ~Active(u)'
    BY <2>1 DEF RestsFresh, Active, At
  <2>3. QED
    BY <2>2 DEF FreshInv, Alone
<1>4. ASSUME NEW t \in Runs, StartExtract(t) PROVE FreshInv'
  <2> DEFINE r == [Idle EXCEPT !.pc = "extract", !.row = row]
  <2>1. r.pc = "extract" /\ r.row = row
    BY DEF Idle
  <2>2. /\ \A u \in Runs : ~Active(u)
        /\ run' = [run EXCEPT ![t] = r]
        /\ status' = "summarized" /\ row' = row
    BY <1>1, <1>4, EntersAlone DEF StartExtract
  <2>3. run'[t] = r
    BY <1>2, <2>2
  <2>4. RestsFresh' /\ Carries(t)'
    BY <2>1, <2>2, <2>3 DEF RestsFresh, Carries, At
  <2>5. QED
    BY <1>1, <1>2, <2>2, <2>4, StepAlone
<1>5. ASSUME NEW t \in Runs, StartEmbed(t) PROVE FreshInv'
  <2>1. /\ \A u \in Runs : ~Active(u)
        /\ row \in Rows /\ json[row] \in Texts /\ Embed(t, row, json[row])
        /\ UNCHANGED <<row, json>> /\ status' = "summarized"
    BY <1>1, <1>5, EntersAlone DEF StartEmbed, Shape, TypeOK
  <2>2. QED
    BY <1>1, <2>1, EmbedFresh
<1>6. ASSUME NEW t \in Runs, NEW text \in Texts, Replied(t, text) PROVE FreshInv'
  <2>1. /\ Active(t) /\ run[t].row \in Rows /\ row = run[t].row
        /\ Embed(t, row, text) /\ UNCHANGED <<row, status, overlapped>>
        /\ json' = [json EXCEPT ![row] = text]
    BY <1>1, <1>6 DEF Replied, Active, At, Shape, RunsKnow
  <2>2. json'[row] = text
    BY <1>1, <2>1 DEF Shape, TypeOK
  <2>3. /\ \A u \in Runs : u # t => ~Active(u)
        /\ status # "done"
    BY <1>1, <2>1, OthersIdle DEF Carries
  <2>4. QED
    BY <1>1, <2>1, <2>2, <2>3, EmbedFresh
<1>7. ASSUME NEW t \in Runs, ExtractFailed(t) \/ MarkDone(t) \/ MarkDoneRaises(t)
      PROVE  FreshInv'
  <2>1. /\ Active(t) /\ run' = [run EXCEPT ![t] = Idle]
        /\ UNCHANGED <<row, json, indexed, point, lost, overlapped>>
        /\ \/ UNCHANGED status
           \/ At(t, "finalize")
    BY <1>7 DEF ExtractFailed, MarkDone, MarkDoneRaises, Active, At, qdrant
  <2>2. /\ \A u \in Runs : u # t => ~Active(u)
        /\ Carries(t)
    BY <1>1, <2>1, OthersIdle
  <2>3. RestsFresh'
    <3>1. CASE UNCHANGED status
      BY <2>2, <3>1 DEF RestsFresh, Carries
    <3>2. CASE At(t, "finalize")
      BY <2>1, <2>2, <3>2 DEF RestsFresh, Carries, Present, Found
    <3>3. QED
      BY <2>1, <3>1, <3>2
  <2>4. Idle.pc = "idle"
    BY DEF Idle
  <2>5. QED
    BY <1>1, <1>2, <2>1, <2>2, <2>3, <2>4, StepAlone
<1>8. ASSUME NEW t \in Runs, CheckModel(t) \/ LoadModel(t) \/ Encode(t)
      PROVE  FreshInv'
  <2>1. /\ \E pc \in {"load", "encode", "vector"} : Goes(t, pc)
        /\ run[t].pc \in {"check", "load", "encode", "vector"}
        /\ UNCHANGED <<status, row, json, overlapped>>
    BY <1>8 DEF CheckModel, LoadModel, Encode, At
  <2>2. Active(t)
    BY <2>1 DEF Active, At
  <2>3. QED
    BY <1>1, <2>1, <2>2, GoesFresh DEF Phases
<1>9. ASSUME NEW t \in Runs, EmbedFailed(t) \/ QdrantFailed(t) \/ SaveIdFailed(t)
      PROVE  FreshInv'
  <2>1. /\ Active(t) /\ Goes(t, "finalize") /\ lost' = lost \cup {run[t].row}
        /\ UNCHANGED <<status, row, json, overlapped>>
    BY <1>9 DEF EmbedFailed, QdrantFailed, SaveIdFailed, Active, At
  <2>2. Present => row \in lost'
    BY <1>1, <2>1, OthersIdle DEF Carries, Present
  <2>3. QED
    BY <1>1, <2>1, <2>2, GoesFresh DEF Phases
<1>10. ASSUME NEW t \in Runs, Upsert(t) PROVE FreshInv'
  <2>1. /\ Active(t) /\ At(t, "vector") /\ Goes(t, "upserted")
        /\ point' = [point EXCEPT ![run[t].row] = run[t].read]
        /\ UNCHANGED <<status, row, json, overlapped>>
    BY <1>10 DEF Upsert, Active, At
  <2>2. run[t].row \in Rows
    BY <1>1, <2>1 DEF Shape, RunsKnow
  <2>3. Present => row = run[t].row /\ run[t].read = json[row]
    BY <1>1, <2>1, OthersIdle DEF Carries, Present, At
  <2>4. Present => point'[row] = json[row]
    BY <1>1, <2>1, <2>2, <2>3 DEF Shape, TypeOK
  <2>5. QED
    BY <1>1, <2>1, <2>4, GoesFresh DEF Phases
<1>11. ASSUME NEW t \in Runs, SaveId(t) PROVE FreshInv'
  <2>1. /\ Active(t) /\ At(t, "upserted") /\ Goes(t, "finalize")
        /\ indexed' = [indexed EXCEPT ![run[t].row] = @ \/ row = run[t].row]
        /\ UNCHANGED <<status, row, json, point, overlapped>>
    BY <1>11 DEF SaveId, Active, At, qdrant
  <2>2. run[t].row \in Rows
    BY <1>1, <2>1 DEF Shape, RunsKnow
  <2>3. Present => row = run[t].row /\ point[row] = json[row]
    BY <1>1, <2>1, OthersIdle DEF Carries, Present
  <2>4. Present => indexed'[row]
    BY <1>1, <2>1, <2>2, <2>3 DEF Shape, TypeOK
  <2>5. QED
    BY <1>1, <2>1, <2>3, <2>4, GoesFresh DEF Phases
<1>12. CASE Edit
  <2>1. ASSUME NEW st \in {"early", "summarized"}, ClearColumns(st) PROVE FreshInv'
    <3>1. row \in Rows /\ json'[row] = None
      BY <1>1, <2>1 DEF ClearColumns, Shape, TypeOK
    <3>2. QED
      BY <1>1, <2>1, <3>1, EditFresh DEF ClearColumns
  <2>2. ASSUME NEW st \in {"early", "deleted"}, DropRow(st) PROVE FreshInv'
    BY <1>1, <2>2, EditFresh DEF DropRow
  <2>3. QED
    BY <1>12, <2>1, <2>2 DEF Edit
<1>13. CASE Crash
  <2>1. /\ \A u \in Runs : ~Active(u)'
        /\ UNCHANGED <<status, row, json, indexed, point, lost, overlapped>>
    BY <1>13 DEF Crash, Active, At, Idle, qdrant
  <2>2. RestsFresh'
    BY <1>1, <2>1 DEF FreshInv, RestsFresh, Present, Found
  <2>3. QED
    BY <2>1, <2>2 DEF FreshInv, Alone
<1>14. CASE UNCHANGED vars
  BY <1>1, <1>14
  DEF vars, qdrant, FreshInv, Alone, Active, At, Carries, RestsFresh, Present, Found
<1>15. QED
  BY <1>1, <1>3, <1>4, <1>5, <1>6, <1>7, <1>8, <1>9, <1>10, <1>11, <1>12, <1>13, <1>14
  DEF Next, Finalize, Thread

\* "done" with one run at a time means found by the present text, unless the
\* last embedding, or the commit of its id, failed.
THEOREM FreshHolds == Spec => []DoneIsFresh
<1>1. Init => FreshInv
  BY DEF Init, FreshInv, Alone, Active, At, Idle, RestsFresh
<1>2. FreshInv => DoneIsFresh
  BY DEF FreshInv, RestsFresh, DoneIsFresh, Present, Found
<1>3. QED
  BY <1>1, <1>2, ShapeAlways, FreshStep, PTL DEF Spec
=============================================================================
