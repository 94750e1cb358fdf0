---------------------------- MODULE TableProofs -----------------------------
(***************************************************************************)
(* What the table of FilePipeline shows: that a status never promises a    *)
(* column that is NULL while users only upload and delete files; that a    *)
(* batch visits every file it took; what a run alone at work never undoes; *)
(* and that the entries implement Transcripts, whatever runs overlap, the  *)
(* users do and whenever the process restarts.                             *)
(***************************************************************************)
EXTENDS FilePipelineProofs

NotNull(i, C) == \A c \in C : column[i][c] # "null"

\* The status of a file and what backs it.
Backed(f) ==
    /\ status[f] = "done" => EntriesOf(f) # {}
    /\ \A i \in EntriesOf(f) : NotNull(i, ColumnsBefore(status[f]))

\* What a run has seen filled in the row it remembers.
Seen(t) ==
    CASE run[t].pc = "await" -> ColumnsBefore(FromStatus(run[t].stage))
      [] run[t].pc = "saved" -> ColumnsBefore(ToStatus(run[t].stage))
      [] OTHER               -> Columns

\* A run at work has a file that was uploaded; until the file is deleted its
\* row is the file's, with the columns the run has seen.
Vouches(t) ==
    /\ run[t].file \in Files /\ status[run[t].file] # "absent"
    /\ run[t].pc # "await" => run[t].row # None
    /\ run[t].row # None /\ Recorded(run[t].file)
          => owner[run[t].row] = run[t].file /\ NotNull(run[t].row, Seen(t))

RunsVouch == \A t \in Runs : run[t].pc \in Working => Vouches(t)

ColumnInv == IInv /\ OneEntryPerFile /\ ColumnsBackStatus /\ RunsVouch

LEMMA BackedIsColumns == ColumnsBackStatus <=> \A f \in Files : Backed(f)
  BY DEF ColumnsBackStatus, Backed, NotNull

\* The columns before the next status are those before this one and its own.
LEMMA ColumnTables ==
    /\ \A s \in LlmStages : ColumnsBefore(ToStatus(s)) \subseteq
                               ColumnsBefore(FromStatus(s)) \cup {ColumnOf(s)}
    /\ ColumnsBefore(ToStatus("transcribe")) = {}
    /\ ColumnsBefore("summarized") \cup {"extracted_json"} = Columns
    /\ ColumnsBefore(ToStatus("extract")) = Columns
    /\ \A st \in Statuses \ (Midway \cup {"done"}) : ColumnsBefore(st) = {}
  BY DEF LlmStages, ColumnsBefore, ToStatus, FromStatus, ColumnOf, Columns, Statuses,
         NoFile, Midway

-----------------------------------------------------------------------------
(* What a step of a run does to the tables.                                *)

\* It empties no column.
LEMMA StepKeepsColumns ==
    ASSUME TypeOK, NEW t \in Runs, Step(t)
    PROVE  \A i \in EntryIds, c \in Columns :
              column[i][c] # "null" => column'[i][c] # "null"
<1>1. ASSUME NEW text, Replied(t, text), text # "null"
      PROVE  \A i \in EntryIds, c \in Columns :
                column[i][c] # "null" => column'[i][c] # "null"
  BY <1>1 DEF TypeOK, Replied
<1>2. CASE LlmReplied(t)
  BY <1>1, <1>2, InputsAssumption DEF LlmReplied
<1>3. CASE Extracted(t)
  BY <1>1, <1>3 DEF Extracted
<1>4. CASE column' = column
  BY <1>4
<1> QED BY <1>2, <1>3, <1>4
        DEF Step, Call, Answer, Error, EndStage, ProbeDone, Finish, CallUnusable,
            CallSkipped, BeginTranscription, AudioMissing, CallFilled, BeginLlm,
            BeginEmbed, Transcribed, TranscriptionFailed, LlmFailed, SaveStatus,
            SaveStatusFailed, Embedded, EmbeddedRaises, database

\* It changes the status of a recorded file only, to one that promises nothing
\* or to the one the run vouches for.
LEMMA StepStatus ==
    ASSUME TypeOK, NEW t \in Runs, Step(t), NEW f \in Files, status'[f] # status[f]
    PROVE  /\ Recorded(f) /\ Recorded(f)'
           /\ \/ status'[f] \in {"processing", "failed"}
              \/ /\ f = run[t].file /\ owner' = owner /\ column' = column
                 /\ \/ run[t].pc = "saved" /\ status'[f] = ToStatus(run[t].stage)
                    \/ run[t].pc = "embed" /\ status'[f] = ToStatus("extract")
<1>1. \A s \in Stages : ToStatus(s) \notin NoFile
  BY DEF Stages, LlmStages, ToStatus, NoFile
<1>2. ASSUME NEW g \in Files, BeginTranscription(t, g) \/ AudioMissing(t, g)
      PROVE  /\ Recorded(f) /\ Recorded(f)'
             /\ status'[f] \in {"processing", "failed"}
  BY <1>2 DEF TypeOK, BeginTranscription, AudioMissing, Accepts, Recorded, NoFile
<1>3. CASE TranscriptionFailed(t)
  BY <1>3 DEF TypeOK, TranscriptionFailed, Recorded, NoFile
<1>4. CASE SaveStatus(t)
  <2>1. f = run[t].file /\ status'[f] = ToStatus(run[t].stage)
    BY <1>4 DEF TypeOK, SaveStatus
  <2>2. run[t].stage \in Stages
    BY DEF TypeOK, RunStates
  <2> QED BY <1>1, <1>4, <2>1, <2>2 DEF SaveStatus, Recorded, At
<1>5. CASE Embedded(t)
  <2>1. f = run[t].file /\ status'[f] = ToStatus("extract")
    BY <1>5 DEF TypeOK, Embedded
  <2> QED BY <1>1, <1>5, <2>1 DEF Embedded, Recorded, Resumes, At, Stages, LlmStages
<1>6. status' # status
  OBVIOUS
<1> QED BY <1>2, <1>3, <1>4, <1>5, <1>6
        DEF Step, Call, Answer, Error, EndStage, ProbeDone, Finish,
            CallUnusable, CallSkipped, CallFilled, BeginLlm, BeginEmbed,
            Transcribed, LlmReplied, Extracted, Replied, LlmFailed,
            SaveStatusFailed, EmbeddedRaises, database

\* A new entry is that of a file which had none.
LEMMA StepEntries ==
    ASSUME TypeOK, NEW t \in Runs, Step(t), NEW i \in EntryIds, owner'[i] # owner[i]
    PROVE  EntriesOf(owner'[i]) = {}
<1>1. ASSUME NEW j \in EntryIds, Transcribed(t, j) PROVE EntriesOf(owner'[i]) = {}
  BY <1>1, TranscribedEffect DEF TypeOK
<1>2. owner' # owner
  OBVIOUS
<1> QED BY <1>1, <1>2
        DEF Step, Call, Answer, Error, EndStage, ProbeDone, Finish, CallUnusable,
            CallSkipped, BeginTranscription, AudioMissing, CallFilled, BeginLlm,
            BeginEmbed, LlmReplied, Extracted, Replied, TranscriptionFailed,
            LlmFailed, SaveStatus, SaveStatusFailed, Embedded, EmbeddedRaises, database

-----------------------------------------------------------------------------
(* A step of a run keeps every status backed.                              *)

LEMMA StepBacked ==
    ASSUME ColumnInv, TypeOK', NEW t \in Runs, Step(t), NEW f \in Files
    PROVE  Backed(f)'
<1>1. /\ TypeOK /\ OneEntryPerFile /\ EntryBacksStatus /\ Backed(f)
      /\ run[t].pc \in Working => Vouches(t)
  BY BackedIsColumns DEF ColumnInv, IInv, RunsVouch
<1>2. \A st : ColumnsBefore(st) \subseteq Columns
  BY DEF ColumnsBefore, Columns
<1>3. CASE status'[f] = status[f]
  <2>1. status[f] = "done" => EntriesOf(f)' # {}
    BY <1>1, StepKeepsEntries, NoneIsNoId DEF Backed, EntriesOf
  <2>2. ASSUME NEW i \in EntriesOf(f)'
        PROVE  NotNull(i, ColumnsBefore(status[f]))'
    <3>1. i \in EntryIds /\ owner'[i] = f
      BY <2>2 DEF EntriesOf
    <3>2. CASE owner[i] = f
      BY <1>1, <1>2, <1>3, <3>1, <3>2, StepKeepsColumns DEF Backed, EntriesOf, NotNull
    <3>3. CASE owner[i] # f
      <4>1. EntriesOf(f) = {}
        BY <1>1, <3>1, <3>3, StepEntries
      <4>2. status[f] \notin Midway \cup {"done"} /\ status[f] \in Statuses
        BY <1>1, <4>1 DEF Backed, EntryBacksStatus, Midway, TypeOK
      <4> QED BY <1>3, <4>2, ColumnTables DEF NotNull
    <3> QED BY <3>2, <3>3
  <2> QED BY <1>3, <2>1, <2>2 DEF Backed
<1>4. CASE status'[f] \in {"processing", "failed"}
  BY <1>4 DEF Backed, ColumnsBefore, NotNull
<1>5. ASSUME f = run[t].file, owner' = owner, column' = column, Recorded(f),
             \/ run[t].pc = "saved" /\ status'[f] = ToStatus(run[t].stage)
             \/ run[t].pc = "embed" /\ status'[f] = ToStatus("extract")
      PROVE  Backed(f)'
  <2>1. /\ run[t].row # None /\ owner[run[t].row] = f
        /\ NotNull(run[t].row, ColumnsBefore(status'[f]))
    <3>1. run[t].pc \in Working /\ run[t].pc # "await"
      BY <1>5 DEF Working
    <3>2. ColumnsBefore(status'[f]) = Seen(t)
      BY <1>5, ColumnTables DEF Seen
    <3> QED BY <1>1, <1>5, <3>1, <3>2 DEF Vouches
  <2>2. run[t].row \in EntryIds
    BY <1>1, <2>1 DEF TypeOK, RunStates
  <2>3. \A i \in EntriesOf(f)' : i = run[t].row
    BY <1>1, <1>5, <2>1, <2>2, NoneIsNoId DEF EntriesOf, OneEntryPerFile
  <2>4. run[t].row \in EntriesOf(f)'
    BY <1>5, <2>1, <2>2 DEF EntriesOf
  <2> QED BY <1>5, <2>1, <2>3, <2>4 DEF Backed, NotNull
<1> QED BY <1>1, <1>3, <1>4, <1>5, StepStatus

-----------------------------------------------------------------------------
(* And every run vouching.                                                 *)

\* The runs that do not move: their row is kept, and only gains columns.
LEMMA StepOthersVouch ==
    ASSUME ColumnInv, NEW t \in Runs, Step(t), NEW u \in Runs, u # t,
           run[u].pc \in Working
    PROVE  Vouches(u)'
<1>1. TypeOK /\ Vouches(u)
  BY DEF ColumnInv, IInv, RunsVouch
<1>2. run'[u] = run[u]
  BY <1>1, StepFrame
<1>3. /\ run[u].file \in Files /\ status'[run[u].file] # "absent"
      /\ run'[u].pc # "await" => run'[u].row # None
  <2>1. run[u].file \in Files /\ status[run[u].file] # "absent"
    BY <1>1 DEF Vouches
  <2>2. status'[run[u].file] # "absent"
    BY <1>1, <2>1, StepStatus DEF Recorded, NoFile
  <2>3. run'[u].pc # "await" => run'[u].row # None
    BY <1>1, <1>2 DEF Vouches
  <2> QED BY <2>1, <2>2, <2>3
<1>4. Recorded(run[u].file)' => Recorded(run[u].file)
  <2>1. CASE status'[run[u].file] = status[run[u].file]
    BY <1>2, <2>1 DEF Recorded
  <2>2. CASE status'[run[u].file] # status[run[u].file]
    BY <1>1, <1>3, <2>2, StepStatus
  <2> QED BY <2>1, <2>2
<1>5. Seen(u)' = Seen(u) /\ Seen(u) \subseteq Columns
  BY <1>2 DEF Seen, ColumnsBefore, Columns
<1>6. ASSUME run[u].row # None, Recorded(run[u].file)
      PROVE  /\ owner'[run[u].row] = run[u].file
             /\ \A c \in Seen(u) : column'[run[u].row][c] # "null"
  <2>1. run[u].row \in EntryIds
    BY <1>1, <1>6 DEF TypeOK, RunStates
  <2>2. owner[run[u].row] = run[u].file /\ NotNull(run[u].row, Seen(u))
    BY <1>1, <1>6 DEF Vouches
  <2>3. owner'[run[u].row] = run[u].file
    BY <1>1, <1>6, <2>2, StepKeepsEntries
  <2> QED BY <1>1, <1>5, <2>1, <2>2, <2>3, StepKeepsColumns DEF NotNull
<1>7. run'[u].row # None /\ Recorded(run[u].file)'
         => owner'[run'[u].row] = run'[u].file /\ NotNull(run[u].row, Seen(u))'
  BY <1>2, <1>4, <1>5, <1>6 DEF NotNull
<1> QED BY <1>2, <1>3, <1>7 DEF Vouches

\* The run that moves.
LEMMA StepVouches ==
    ASSUME ColumnInv, NEW t \in Runs, Step(t), run'[t].pc \in Working
    PROVE  Vouches(t)'
<1>1. /\ TypeOK /\ run[t] \in RunStates
      /\ run[t].pc \in Working => Vouches(t)
      /\ \A f \in Files : Backed(f)
  BY BackedIsColumns DEF ColumnInv, IInv, RunsVouch, TypeOK
<1>2. ASSUME NEW f \in Files, BeginTranscription(t, f) PROVE Vouches(t)'
  <2>1. /\ run'[t].pc = "await" /\ run'[t].row = None /\ run'[t].file = f
        /\ status'[f] = "processing"
    BY <1>1, <1>2, SuspendEffect DEF BeginTranscription, Phases, TypeOK
  <2> QED BY <2>1 DEF Vouches
<1>3. ASSUME NEW f \in Files, BeginLlm(t, f) \/ BeginEmbed(t, f) PROVE Vouches(t)'
  <2>1. PICK i \in EntryIds : i = FirstEntry(f) /\ owner[i] = f
    BY <1>3, FirstEntryOwned DEF BeginLlm, BeginEmbed, Callable
  <2>2. /\ NotNull(i, ColumnsBefore(status[f]))
        /\ status[f] = FromStatus(run[t].stage) /\ run[t].stage \in LlmStages
    BY <1>1, <1>3, <2>1 DEF Backed, EntriesOf, BeginLlm, BeginEmbed, Callable
  <2>3. UNCHANGED <<status, owner, column>>
    BY <1>3 DEF BeginLlm, BeginEmbed, database
  <2>4. status[f] # "absent"
    BY <2>2 DEF LlmStages, FromStatus
  <2>5. CASE BeginLlm(t, f)
    <3>1. /\ run'[t].pc = "await" /\ run'[t].row = i /\ run'[t].file = f
          /\ run'[t].stage = run[t].stage
      BY <1>1, <2>1, <2>5, SuspendEffect DEF BeginLlm, Phases
    <3>2. Seen(t)' = ColumnsBefore(status[f])
      BY <2>2, <3>1 DEF Seen
    <3>3. NotNull(i, Seen(t))'
      BY <2>2, <2>3, <3>2 DEF NotNull
    <3>4. NotNull(run[t].row, Seen(t))'
      BY <3>1, <3>3 DEF NotNull
    <3> QED BY <2>1, <2>3, <2>4, <3>1, <3>4 DEF Vouches
  <2>6. CASE BeginEmbed(t, f)
    <3>1. /\ run'[t].pc = "embed" /\ run'[t].row = i /\ run'[t].file = f
      BY <1>1, <2>1, <2>6, SuspendEffect DEF BeginEmbed, Phases
    <3>2. Seen(t)' = Columns
      BY <3>1 DEF Seen
    <3>3. column[i]["extracted_json"] # "null" /\ status[f] = "summarized"
      BY <2>1, <2>2, <2>6 DEF BeginEmbed, Filled, ColumnOf, FromStatus
    <3>4. NotNull(i, Columns)
      BY <2>2, <3>3, ColumnTables DEF NotNull
    <3>5. NotNull(i, Seen(t))'
      BY <2>3, <3>2, <3>4 DEF NotNull
    <3>6. NotNull(run[t].row, Seen(t))'
      BY <3>1, <3>5 DEF NotNull
    <3> QED BY <2>1, <2>3, <2>4, <3>1, <3>6, NoneIsNoId DEF Vouches
  <2> QED BY <1>3, <2>5, <2>6
<1>4. ASSUME NEW i \in EntryIds, Transcribed(t, i) PROVE Vouches(t)'
  <2>1. /\ run'[t].pc = "saved" /\ run'[t].row = i /\ run'[t].file = run[t].file
        /\ run'[t].stage = "transcribe" /\ status' = status
    BY <1>1, <1>4 DEF TypeOK, Transcribed, RunStates
  <2>2. owner'[i] = run[t].file
    BY <1>1, <1>4 DEF TypeOK, Transcribed
  <2>3. run[t].file \in Files /\ status[run[t].file] # "absent"
    BY <1>1, <1>4 DEF Transcribed, Resumes, At, Working, Vouches
  <2>4. Seen(t)' = {}
    BY <2>1, ColumnTables DEF Seen
  <2> QED BY <2>1, <2>2, <2>3, <2>4, NoneIsNoId DEF Vouches, NotNull
<1>5. ASSUME NEW text, text # "null", Replied(t, text),
             NEW f, f = run[t].file, NEW i, i = run[t].row,
             NEW s, s = run[t].stage
      PROVE  /\ f \in Files /\ status'[f] # "absent" /\ i # None
             /\ Recorded(f)' => owner'[i] = f /\ NotNull(i, ColumnsBefore(ToStatus(s)))'
  <2>1. /\ run[t].pc = "await" /\ s \in LlmStages
        /\ owner[i] # None /\ UNCHANGED <<status, owner>>
        /\ column' = [column EXCEPT ![i][ColumnOf(s)] = text]
    BY <1>5 DEF Replied, Resumes, At
  <2>2. Vouches(t) /\ i \in EntryIds
    BY <1>1, <1>5, <2>1 DEF Working, ColumnInv, IInv, RunsOwnRows
  <2>3. ColumnOf(s) \in Columns
    BY <2>1, StageTables
  <2>4. column'[i][ColumnOf(s)] = text
    BY <1>1, <2>1, <2>2, <2>3 DEF TypeOK
  <2>5. \A c \in Columns : column[i][c] # "null" => column'[i][c] # "null"
    BY <1>1, <2>2, StepKeepsColumns
  <2>6. \A st : ColumnsBefore(st) \subseteq Columns
    BY DEF ColumnsBefore, Columns
  <2>7. ASSUME Recorded(f)'
        PROVE  owner'[i] = f /\ NotNull(i, ColumnsBefore(ToStatus(s)))'
    <3>1. Recorded(f)
      BY <2>1, <2>7 DEF Recorded
    <3>2. owner[i] = f /\ NotNull(i, ColumnsBefore(FromStatus(s)))
      BY <1>5, <2>1, <2>2, <3>1, NoneIsNoId DEF Vouches, Seen
    <3>3. ASSUME NEW c \in ColumnsBefore(ToStatus(s))
          PROVE  column'[i][c] # "null"
      BY <1>5, <2>1, <2>4, <2>5, <2>6, <3>2, <3>3, ColumnTables DEF NotNull
    <3> QED BY <2>1, <3>2, <3>3 DEF NotNull
  <2> QED BY <1>5, <2>1, <2>2, <2>7, NoneIsNoId DEF Vouches
<1>6. CASE LlmReplied(t)
  <2>1. PICK text, f, i, s : /\ text # "null" /\ Replied(t, text)
                             /\ f = run[t].file /\ i = run[t].row /\ s = run[t].stage
    BY <1>6, InputsAssumption DEF LlmReplied
  <2>2. /\ run'[t].pc = "saved" /\ run'[t].row = i
        /\ run'[t].file = f /\ run'[t].stage = s
    BY <1>1, <1>6, <2>1 DEF TypeOK, LlmReplied, RunStates
  <2>3. Seen(t)' = ColumnsBefore(ToStatus(s))
    BY <2>2 DEF Seen
  <2>4. /\ f \in Files /\ status'[f] # "absent" /\ i # None
        /\ Recorded(f)' => owner'[i] = f /\ NotNull(i, ColumnsBefore(ToStatus(s)))'
    BY <1>5, <2>1
  <2>5. Recorded(f)' => owner'[i] = f /\ NotNull(run[t].row, Seen(t))'
    BY <2>2, <2>3, <2>4 DEF NotNull
  <2> QED BY <2>2, <2>4, <2>5 DEF Vouches, Recorded
<1>7. CASE Extracted(t)
  <2>1. PICK f, i, s : /\ Replied(t, "text") /\ s = "extract"
                       /\ f = run[t].file /\ i = run[t].row /\ s = run[t].stage
    BY <1>7 DEF Extracted
  <2>2. run'[t].pc = "embed" /\ run'[t].row = i /\ run'[t].file = f
    BY <1>1, <1>7, <2>1 DEF TypeOK, Extracted, Suspend, RunStates
  <2>3. Seen(t)' = ColumnsBefore(ToStatus(s))
    BY <2>1, <2>2, ColumnTables DEF Seen
  <2>4. /\ f \in Files /\ status'[f] # "absent" /\ i # None
        /\ Recorded(f)' => owner'[i] = f /\ NotNull(i, ColumnsBefore(ToStatus(s)))'
    BY <1>5, <2>1
  <2>5. Recorded(f)' => owner'[i] = f /\ NotNull(run[t].row, Seen(t))'
    BY <2>2, <2>3, <2>4 DEF NotNull
  <2> QED BY <2>2, <2>4, <2>5 DEF Vouches, Recorded
<1>8. ASSUME run'[t].pc \notin Working PROVE FALSE
  BY <1>8
<1>9. CASE \/ TranscriptionFailed(t) \/ LlmFailed(t) \/ SaveStatusFailed(t)
           \/ \E f \in Files : CallUnusable(t, f) \/ AudioMissing(t, f)
  BY <1>1, <1>8, <1>9, ReportErrorEffect, ReportRaisedEffect
  DEF TranscriptionFailed, LlmFailed, SaveStatusFailed, CallUnusable, AudioMissing,
      Working
<1>10. CASE \/ SaveStatus(t) \/ Embedded(t) \/ ProbeDone(t)
            \/ \E f \in Files : CallSkipped(t, f) \/ CallFilled(t, f)
  <2>1. \E todo \in SUBSET Files : Proceed(t, todo)
    BY <1>1, <1>10 DEF SaveStatus, Embedded, ProbeDone, CallSkipped, CallFilled,
                       RunStates
  <2> QED BY <1>1, <1>8, <2>1, ProceedEffect DEF Working
<1>11. CASE EndStage(t)
  BY <1>1, <1>8, <1>11 DEF EndStage, TypeOK, RunStates, Working
<1>12. CASE Finish(t) \/ EmbeddedRaises(t)
  BY <1>1, <1>8, <1>12, EndEffect DEF Finish, EmbeddedRaises, Idle, Working
<1> QED BY <1>2, <1>3, <1>4, <1>6, <1>7, <1>9, <1>10, <1>11, <1>12
        DEF Step, Call, Answer, Error

-----------------------------------------------------------------------------
(* The other steps.                                                        *)

\* The users' requests: a new file, or files deleted with their entries.
LEMMA RequestColumns ==
    ASSUME ColumnInv, Requests \subseteq {"upload", "delete"}, Request
    PROVE  (\A f \in Files : Backed(f)') /\ RunsVouch'
<1>1. /\ TypeOK /\ RunsVouch /\ \A f \in Files : Backed(f)
      /\ run' = run
  BY BackedIsColumns, RequestFrame DEF ColumnInv, IInv
<1>2. \A t \in Runs : Seen(t)' = Seen(t)
  BY <1>1 DEF Seen
<1>3. ASSUME NEW g \in Files, Upload(g)
      PROVE  (\A f \in Files : Backed(f)') /\ RunsVouch'
  <2>1. /\ status[g] = "absent" /\ UNCHANGED <<owner, column>>
        /\ \A f \in Files : status'[f] = IF f = g THEN "pending" ELSE status[f]
    BY <1>1, <1>3 DEF Upload, TypeOK
  <2>2. ASSUME NEW f \in Files PROVE Backed(f)'
    <3>1. CASE f = g
      BY <2>1, <3>1 DEF Backed, ColumnsBefore, NotNull
    <3>2. CASE f # g
      BY <1>1, <2>1, <3>2 DEF Backed, EntriesOf, NotNull
    <3> QED BY <3>1, <3>2
  <2>3. ASSUME NEW t \in Runs, Vouches(t) PROVE Vouches(t)'
    BY <1>1, <1>2, <2>1, <2>3 DEF Vouches, Recorded, NotNull
  <2> QED BY <1>1, <2>2, <2>3 DEF RunsVouch
<1>4. ASSUME NEW F \in SUBSET Files, DeleteFiles(F)
      PROVE  (\A f \in Files : Backed(f)') /\ RunsVouch'
  <2>1. /\ \A f \in Files : status'[f] = IF f \in F THEN "deleted" ELSE status[f]
        /\ \A i \in EntryIds : owner[i] \notin F =>
              owner'[i] = owner[i] /\ column'[i] = column[i]
        /\ \A i \in EntryIds : owner'[i] \in {owner[i], None}
    <3>1. \A i \in FirstEntries(F) : owner[i] \in F
      BY FirstEntryOwned DEF FirstEntries
    <3> QED BY <1>4, <3>1 DEF DeleteFiles, WithoutRows
  <2>2. ASSUME NEW f \in Files PROVE Backed(f)'
    <3>1. CASE f \in F
      BY <2>1, <3>1 DEF Backed, ColumnsBefore, NotNull
    <3>2. CASE f \notin F
      <4>1. EntriesOf(f)' = EntriesOf(f)
        BY <2>1, <3>2, NoneIsNoId DEF EntriesOf
      <4>2. \A i \in EntriesOf(f) : column'[i] = column[i]
        BY <2>1, <3>2 DEF EntriesOf
      <4>3. status'[f] = status[f]
        BY <2>1, <3>2
      <4> QED BY <1>1, <4>1, <4>2, <4>3 DEF Backed, NotNull
    <3> QED BY <3>1, <3>2
  <2>3. ASSUME NEW t \in Runs, Vouches(t) PROVE Vouches(t)'
    <3>1. CASE run[t].file \in F
      BY <1>1, <2>1, <2>3, <3>1 DEF Vouches, Recorded, NoFile
    <3>2. CASE run[t].file \notin F
      <4>1. status'[run[t].file] = status[run[t].file]
        BY <2>1, <2>3, <3>2 DEF Vouches
      <4>2. run[t].row # None /\ Recorded(run[t].file)
               => /\ owner'[run[t].row] = run[t].file
                  /\ column'[run[t].row] = column[run[t].row]
        BY <1>1, <2>1, <2>3, <3>2 DEF Vouches, TypeOK, RunStates
      <4> QED BY <1>1, <1>2, <2>3, <4>1, <4>2 DEF Vouches, Recorded, NotNull
    <3> QED BY <3>1, <3>2
  <2> QED BY <1>1, <2>2, <2>3 DEF RunsVouch
<1> QED BY <1>3, <1>4
        DEF Request, ResetFiles, DeleteEntry, ClearColumns, Arrives

LEMMA ColumnNext ==
    ASSUME ColumnInv, TypeOK', Requests \subseteq {"upload", "delete"}, [Next]_vars
    PROVE  (\A f \in Files : Backed(f)') /\ RunsVouch'
<1>1. /\ TypeOK /\ RunsVouch /\ \A f \in Files : Backed(f)
  BY BackedIsColumns DEF ColumnInv, IInv
<1>2. ASSUME UNCHANGED <<status, owner, column>>,
             \A t \in Runs : run'[t].pc \in Working => run'[t] = run[t]
      PROVE  (\A f \in Files : Backed(f)') /\ RunsVouch'
  <2>1. \A f \in Files : Backed(f)'
    BY <1>1, <1>2 DEF Backed, EntriesOf, NotNull
  <2>2. ASSUME NEW t \in Runs, run'[t].pc \in Working PROVE Vouches(t)'
    <3>1. run'[t] = run[t] /\ Vouches(t)
      BY <1>1, <1>2, <2>2 DEF RunsVouch
    <3>2. Seen(t)' = Seen(t)
      BY <3>1 DEF Seen
    <3> QED BY <1>2, <3>1, <3>2 DEF Vouches, Recorded, NotNull
  <2> QED BY <2>1, <2>2 DEF RunsVouch
<1>3. CASE UNCHANGED vars
  BY <1>2, <1>3 DEF vars
<1>4. CASE Start
  BY <1>1, <1>2, <1>3, <1>4, StartFrame DEF Working, database
<1>5. ASSUME NEW t \in Runs, Step(t) PROVE (\A f \in Files : Backed(f)') /\ RunsVouch'
  <2>1. \A u \in Runs \ {t} : run'[u] = run[u]
    BY <1>1, <1>5, StepFrame
  <2> QED BY <1>5, <2>1, StepBacked, StepOthersVouch, StepVouches DEF RunsVouch
<1>6. CASE Request
  BY <1>6, RequestColumns
<1>7. CASE Crash
  <2>1. RunsVouch'
    BY <1>7 DEF Crash, Idle, RunsVouch, Working
  <2>2. ASSUME NEW f \in Files PROVE Backed(f)'
    <3>1. status'[f] \in {status[f], "pending"} /\ UNCHANGED <<owner, column>>
      BY <1>7 DEF Crash, Recovered
    <3>2. CASE status'[f] = status[f]
      BY <1>1, <3>1, <3>2 DEF Backed, EntriesOf, NotNull
    <3>3. CASE status'[f] = "pending"
      BY <3>3 DEF Backed, ColumnsBefore, NotNull
    <3> QED BY <3>1, <3>2, <3>3
  <2> QED BY <2>1, <2>2
<1> QED BY <1>3, <1>4, <1>5, <1>6, <1>7 DEF Next

\* A status is never ahead of the entry and the columns it promises, for any
\* runs that overlap and any restarts, as long as entries are not edited.
THEOREM ColumnsHold ==
    ASSUME Requests \subseteq {"upload", "delete"}
    PROVE  Spec => []ColumnsBackStatus
<1>1. Init => ColumnInv
  <2> SUFFICES ASSUME Init PROVE ColumnInv
    OBVIOUS
  <2>1. IInv
    BY IInvInit
  <2>2. OneEntryPerFile /\ RunsVouch
    BY DEF Init, OneEntryPerFile, RunsVouch, Idle, Working
  <2>3. ColumnsBackStatus
    BY DEF Init, ColumnsBackStatus, ColumnsBefore
  <2> QED BY <2>1, <2>2, <2>3 DEF ColumnInv
<1>2. ColumnInv /\ [Next]_vars => ColumnInv'
  <2> SUFFICES ASSUME ColumnInv, [Next]_vars PROVE ColumnInv'
    OBVIOUS
  <2>1. IInv' /\ OneEntryPerFile'
    BY TypeNext, LoopHeldNext, RunsOwnRowsNext, EntryBacksNext, OneEntryNext
    DEF ColumnInv, IInv
  <2>2. (\A f \in Files : Backed(f)') /\ RunsVouch'
    BY <2>1, ColumnNext DEF IInv
  <2>3. ColumnsBackStatus'
    BY <2>2, BackedIsColumns DEF Backed, ColumnsBackStatus, NotNull
  <2> QED BY <2>1, <2>2, <2>3 DEF ColumnInv
<1>3. ColumnInv => ColumnsBackStatus
  BY DEF ColumnInv
<1> QED BY <1>1, <1>2, <1>3, PTL DEF Spec

-----------------------------------------------------------------------------
(* A batch is ended by nothing but its own last stage, or the process.     *)

\* The file a run is at work on is still in the table.
FilesRecorded == \A t \in Runs : run[t].pc \in Working => Recorded(run[t].file)

VisitInv == IInv /\ FilesRecorded

\* Without deletions a file that is in the table stays there.
LEMMA RecordedStays ==
    ASSUME TypeOK, "delete" \notin Requests, [Next]_vars, NEW f \in Files, Recorded(f)
    PROVE  Recorded(f)'
<1>1. CASE Start \/ UNCHANGED vars
  BY <1>1 DEF Start, StartBatch, StartNothing, StartSingle, database, vars, Recorded
<1>2. ASSUME NEW t \in Runs, Step(t) PROVE Recorded(f)'
  <2>1. CASE status'[f] = status[f]
    BY <2>1 DEF Recorded
  <2> QED BY <1>2, <2>1, StepStatus
<1>3. CASE Request
  <2>1. \A s \in Stages : FromStatus(s) \notin NoFile
    BY DEF Stages, LlmStages, FromStatus, NoFile
  <2>2. ASSUME NEW g \in Files, Upload(g) PROVE Recorded(f)'
    BY <2>2 DEF TypeOK, Upload, Recorded, NoFile
  <2>3. ASSUME NEW F \in SUBSET Files, ResetFiles(F) PROVE Recorded(f)'
    BY <2>3 DEF ResetFiles, Recorded, NoFile
  <2>4. ASSUME NEW g, NEW s \in Stages, status' = Reverted(g, s) PROVE Recorded(f)'
    BY <2>1, <2>4 DEF TypeOK, Reverted, Recorded
  <2> QED BY <1>3, <2>2, <2>3, <2>4
          DEF Request, DeleteFiles, DeleteEntry, ClearColumns, Arrives, Stages
<1>4. CASE Crash
  BY <1>4 DEF Crash, Recovered, Recorded, NoFile
<1> QED BY <1>1, <1>2, <1>3, <1>4 DEF Next

\* And every run at work got its file from the table.
LEMMA FilesRecordedNext ==
    ASSUME VisitInv, "delete" \notin Requests, [Next]_vars
    PROVE  FilesRecorded'
<1>1. TypeOK /\ RunsOwnRows /\ FilesRecorded
  BY DEF VisitInv, IInv
<1>2. ASSUME NEW t \in Runs, NEW f \in Files, Recorded(f), run'[t].file = f
      PROVE  Recorded(run[t].file)'
  <2>1. status'[f] \notin NoFile
    BY <1>1, <1>2, RecordedStays DEF Recorded
  <2> QED BY <1>2, <2>1 DEF Recorded
<1>3. ASSUME NEW t \in Runs, run[t].pc \in Working, run'[t].file = run[t].file
      PROVE  Recorded(run[t].file)'
  BY <1>1, <1>2, <1>3 DEF FilesRecorded, RunsOwnRows, Working
<1>4. CASE UNCHANGED vars \/ Request
  BY <1>3, <1>4, RequestFrame DEF FilesRecorded, vars
<1>5. CASE Start
  BY <1>1, <1>3, <1>4, <1>5, StartFrame DEF FilesRecorded, Working
<1>6. ASSUME NEW t \in Runs, Step(t) PROVE FilesRecorded'
  <2>1. \A u \in Runs \ {t} : run'[u].pc \in Working => Recorded(run[u].file)'
    BY <1>1, <1>3, <1>6, StepFrame
  <2>2. ASSUME run'[t].pc \in Working PROVE Recorded(run[t].file)'
    <3>1. ASSUME NEW f \in Files, run'[t].file = f,
                 \/ BeginTranscription(t, f)
                 \/ BeginLlm(t, f) \/ BeginEmbed(t, f)
          PROVE  Recorded(run[t].file)'
      <4>1. Accepts("transcribe") \cap NoFile = {}
        BY DEF Accepts, NoFile
      <4>2. \A s \in LlmStages : FromStatus(s) \notin NoFile
        BY DEF LlmStages, FromStatus, NoFile
      <4>3. Recorded(f)
        BY <3>1, <4>1, <4>2
           DEF BeginTranscription, BeginLlm, BeginEmbed, Callable, Recorded
      <4> QED BY <1>2, <3>1, <4>3
    <3>2. ASSUME run'[t].file = run[t].file,
                 \/ \E i \in EntryIds : Transcribed(t, i)
                 \/ LlmReplied(t) \/ Extracted(t)
          PROVE  Recorded(run[t].file)'
      <4>1. run[t].pc \in Working
        BY <3>2 DEF Transcribed, LlmReplied, Extracted, Replied, Resumes, At, Working
      <4> QED BY <1>3, <3>2, <4>1
    <3> QED BY <1>1, <1>6, <2>2, <3>1, <3>2, StepSuspends
  <2> QED BY <2>1, <2>2 DEF FilesRecorded
<1>7. CASE Crash
  BY <1>7 DEF FilesRecorded, Crash, Idle, Working
<1> QED BY <1>4, <1>5, <1>6, <1>7 DEF Next

\* The ways a step can end a batch.
LEMMA StepEndsBatch ==
    ASSUME TypeOK, NEW t \in Batches, Step(t), run'[t].pc = "idle"
    PROVE  Finish(t) \/ EmbeddedRaises(t)
<1>1. t \in Runs /\ run[t] \in RunStates /\ run[t].todo \in SUBSET Files
  BY DEF Runs, TypeOK, RunStates
<1>2. ASSUME NEW todo, Proceed(t, todo) PROVE FALSE
  BY <1>1, <1>2 DEF Proceed, TypeOK, RunStates
<1>3. ASSUME NEW f, ReportError(t, f) \/ ReportRaised(t, f) PROVE FALSE
  BY <1>2, <1>3 DEF ReportError, ReportRaised
<1>4. CASE EndStage(t)
  BY <1>1, <1>4 DEF EndStage, TypeOK, RunStates
<1>5. CASE \E i \in EntryIds : Transcribed(t, i)
  BY <1>1, <1>5 DEF Transcribed, TypeOK, RunStates
<1>6. CASE LlmReplied(t)
  BY <1>1, <1>6 DEF LlmReplied, TypeOK, RunStates
<1>7. ASSUME NEW pc, pc # "idle", NEW f, NEW i, Suspend(t, pc, f, i) PROVE FALSE
  BY <1>1, <1>7 DEF Suspend, TypeOK, RunStates
<1> QED BY <1>2, <1>3, <1>4, <1>5, <1>6, <1>7
        DEF Step, Call, Answer, Error, ProbeDone, CallUnusable, CallSkipped,
            BeginTranscription, AudioMissing, CallFilled, BeginLlm, BeginEmbed,
            Extracted, TranscriptionFailed, LlmFailed, SaveStatus,
            SaveStatusFailed, Embedded

\* As long as no file is deleted, a batch ends with its last stage gone through
\* or with the process: whatever other runs and edits do, no error of a file
\* costs the files behind it their turn.
THEOREM BatchVisitsAllHolds ==
    ASSUME "delete" \notin Requests
    PROVE  Spec => BatchVisitsAll
<1>1. Init => VisitInv
  <2> SUFFICES ASSUME Init PROVE VisitInv
    OBVIOUS
  <2>1. FilesRecorded
    BY DEF Init, FilesRecorded, Idle, Working
  <2> QED BY <2>1, IInvInit DEF VisitInv
<1>2. VisitInv /\ [Next]_vars => VisitInv'
  BY TypeNext, LoopHeldNext, RunsOwnRowsNext, EntryBacksNext, FilesRecordedNext
  DEF VisitInv, IInv
<1>3. VisitInv /\ [Next]_vars
        => [ \A t \in Batches :
               run[t].pc # "idle" /\ run'[t].pc = "idle"
                 => \/ run[t].stage = "extract" /\ run[t].todo = {}
                    \/ crashes' # crashes ]_vars
  <2> SUFFICES ASSUME VisitInv, [Next]_vars, NEW t \in Batches,
                      run[t].pc # "idle", run'[t].pc = "idle"
               PROVE  \/ run[t].stage = "extract" /\ run[t].todo = {}
                      \/ crashes' # crashes
    OBVIOUS
  <2>1. TypeOK /\ FilesRecorded /\ t \in Runs
    BY DEF Runs, VisitInv, IInv
  <2>2. CASE UNCHANGED vars \/ Request
    BY <2>2, RequestFrame DEF vars
  <2>3. CASE Start
    BY <2>1, <2>2, <2>3, StartFrame
  <2>4. ASSUME NEW u \in Runs, Step(u)
        PROVE  run[t].stage = "extract" /\ run[t].todo = {}
    <3>1. u = t
      BY <2>1, <2>4, StepFrame
    <3>2. ~EmbeddedRaises(t)
      BY <2>1 DEF EmbeddedRaises, Resumes, At, FilesRecorded, Working
    <3> QED BY <2>1, <2>4, <3>1, <3>2, StepEndsBatch DEF Finish
  <2>5. CASE Crash
    BY <2>1, <2>5 DEF Crash, TypeOK
  <2> QED BY <2>2, <2>3, <2>4, <2>5 DEF Next
<1> QED BY <1>1, <1>2, <1>3, PTL DEF Spec, BatchVisitsAll

-----------------------------------------------------------------------------
(* Runs that do not overlap: nothing commits for a file while a run is at  *)
(* work on it but that run and the users.                                  *)

OneRunAtATime ==
    \A t, u \in Runs : run[t].pc # "idle" /\ run[u].pc # "idle" => t = u

\* The file a run is at work on has not gone past what the run will save.
NotAhead ==
    \A t \in Runs :
        run[t].pc \in Working /\ Recorded(run[t].file)
            => Rank(status[run[t].file]) <= Rank(ToStatus(run[t].stage))

\* The column a run has asked the LLM for is not filled meanwhile.
AwaitsUnfilled ==
    \A t \in Runs :
        run[t].pc = "await" /\ run[t].stage \in LlmStages /\ owner[run[t].row] # None
            => ~Filled(t, run[t].row)

NeverAheadInv == IInv /\ EmbedsLast /\ NotAhead

UnfilledInv == IInv /\ AwaitsUnfilled

\* The life cycle is in the order of the ranks.
LEMMA RankTables ==
    /\ \A st \in Statuses : Rank(st) \in 0 .. 8
    /\ \A st \in Statuses \ {"deleted"} : Rank(st) <= Rank("failed")
    /\ \A st \in Accepts("transcribe") : Rank(st) <= Rank("processing")
    /\ \A s \in Stages : /\ Rank(FromStatus(s)) <= Rank(ToStatus(s))
                         /\ Rank("pending") <= Rank(ToStatus(s))
    /\ Rank("processing") <= Rank(ToStatus("transcribe"))
  BY DEF Statuses, NoFile, Rank, Accepts, Stages, LlmStages, FromStatus, ToStatus

\* While one run steps the others are idle, and stay so.
LEMMA StepAlone ==
    ASSUME TypeOK, OneRunAtATime, NEW t \in Runs, Step(t)
    PROVE  /\ run[t].pc # "idle"
           /\ \A u \in Runs \ {t} : run'[u].pc = "idle"
<1>1. run[t].pc # "idle"
  BY DEF Step, EndStage, ProbeDone, Finish, Call, CallUnusable, CallSkipped,
         BeginTranscription, AudioMissing, CallFilled, BeginLlm, BeginEmbed,
         Callable, Calls, Answer, Transcribed, LlmReplied, Extracted, Replied,
         Error, TranscriptionFailed, LlmFailed, SaveStatus, SaveStatusFailed,
         Embedded, EmbeddedRaises, Resumes, At
<1> QED BY <1>1, StepFrame DEF OneRunAtATime

\* A request takes a file back to the start, or away, unless it clears columns.
LEMMA RequestStatus ==
    ASSUME TypeOK, "clear" \notin Requests, Request, NEW f \in Files
    PROVE  status'[f] \in {status[f], "pending", "deleted"}
<1>1. ASSUME NEW g \in Files, Upload(g)
      PROVE  status'[f] \in {status[f], "pending", "deleted"}
  BY <1>1 DEF TypeOK, Upload
<1>2. ASSUME NEW F \in SUBSET Files, DeleteFiles(F) \/ ResetFiles(F)
      PROVE  status'[f] \in {status[f], "pending", "deleted"}
  BY <1>2 DEF DeleteFiles, ResetFiles
<1>3. ASSUME NEW i \in EntryIds, DeleteEntry(i)
      PROVE  status'[f] \in {status[f], "pending", "deleted"}
  BY <1>3 DEF TypeOK, DeleteEntry, Reverted, FromStatus
<1> QED BY <1>1, <1>2, <1>3 DEF Request, ClearColumns, Arrives

LEMMA NotAheadNext ==
    ASSUME NeverAheadInv, OneRunAtATime, "clear" \notin Requests, [Next]_vars
    PROVE  NotAhead'
<1>1. TypeOK /\ RunsOwnRows /\ NotAhead
  BY DEF NeverAheadInv, IInv
<1>2. CASE UNCHANGED vars
  BY <1>1, <1>2 DEF NotAhead, Recorded, vars
<1>3. CASE Start
  BY <1>1, <1>2, <1>3, StartFrame DEF NotAhead, Recorded, Working, database
<1>4. ASSUME NEW t \in Runs, Step(t) PROVE NotAhead'
  <2> SUFFICES ASSUME run'[t].pc \in Working, Recorded(run[t].file)'
               PROVE  Rank(status'[run'[t].file]) <= Rank(ToStatus(run'[t].stage))
    BY <1>1, <1>4, StepAlone DEF NotAhead, Working
  <2>1. run'[t].stage = run[t].stage /\ run[t].stage \in Stages
    BY <1>1, <1>4, StepSuspends DEF TypeOK, RunStates
  <2>2. ASSUME NEW f \in Files, run'[t].file = f, BeginTranscription(t, f)
        PROVE  Rank(status'[f]) <= Rank(ToStatus(run[t].stage))
    BY <1>1, <2>2, RankTables DEF BeginTranscription, TypeOK
  <2>3. ASSUME NEW f \in Files, run'[t].file = f, BeginLlm(t, f) \/ BeginEmbed(t, f)
        PROVE  Rank(status'[f]) <= Rank(ToStatus(run[t].stage))
    BY <2>1, <2>3, RankTables DEF BeginLlm, BeginEmbed, Callable, database
  <2>4. ASSUME run'[t].file = run[t].file,
               \/ \E i \in EntryIds : Transcribed(t, i)
               \/ LlmReplied(t) \/ Extracted(t)
        PROVE  Rank(status'[run[t].file]) <= Rank(ToStatus(run[t].stage))
    <3>1. status' = status /\ run[t].pc \in Working
      BY <2>4 DEF Transcribed, LlmReplied, Extracted, Replied, Resumes, At, Working
    <3> QED BY <1>1, <2>4, <3>1 DEF NotAhead, Recorded
  <2> QED BY <1>1, <1>4, <2>1, <2>2, <2>3, <2>4, StepSuspends
<1>5. CASE Request
  <2> SUFFICES ASSUME NEW t \in Runs, run'[t].pc \in Working, Recorded(run[t].file)'
               PROVE  Rank(status'[run'[t].file]) <= Rank(ToStatus(run'[t].stage))
    BY DEF NotAhead
  <2>1. run' = run
    BY <1>5, RequestFrame
  <2>2. run[t].file \in Files /\ run[t].stage \in Stages
    BY <1>1, <2>1 DEF RunsOwnRows, Working, TypeOK, RunStates
  <2>3. status'[run[t].file] \in {status[run[t].file], "pending"}
    BY <1>1, <1>5, <2>1, <2>2, RequestStatus DEF Recorded, NoFile
  <2> QED BY <1>1, <2>1, <2>2, <2>3, RankTables DEF NotAhead, Recorded
<1>6. CASE Crash
  BY <1>6 DEF NotAhead, Crash, Idle, Working
<1> QED BY <1>2, <1>3, <1>4, <1>5, <1>6 DEF Next

LEMMA StepNeverRegresses ==
    ASSUME NeverAheadInv, NEW t \in Runs, Step(t), NEW f \in Files
    PROVE  Rank(status'[f]) >= Rank(status[f])
<1>1. /\ TypeOK /\ RunsOwnRows /\ EmbedsLast /\ NotAhead
      /\ status[f] \in Statuses /\ run[t].stage \in Stages
  BY DEF NeverAheadInv, IInv, TypeOK, RunStates
<1>2. Rank(status[f]) \in Nat
  BY <1>1, RankTables
<1>3. CASE status'[f] = status[f]
  BY <1>2, <1>3
<1>4. CASE \E g \in Files : BeginTranscription(t, g) \/ AudioMissing(t, g)
  <2>1. \/ /\ status[f] \in Accepts("transcribe")
           /\ status'[f] \in {"processing", "failed"}
        \/ status'[f] = status[f]
    BY <1>1, <1>4 DEF BeginTranscription, AudioMissing, TypeOK
  <2>2. \A st \in Accepts("transcribe") : Rank(st) <= Rank("failed")
    BY RankTables DEF Accepts, Statuses, NoFile
  <2>3. Rank("processing") \in Nat /\ Rank("failed") \in Nat
    BY DEF Rank
  <2> QED BY <1>2, <1>3, <2>1, <2>2, <2>3, RankTables
<1>5. CASE TranscriptionFailed(t)
  <2>1. status'[f] = IF f # run[t].file THEN status[f]
                     ELSE IF Recorded(f) THEN "failed" ELSE status[f]
    BY <1>1, <1>5 DEF TranscriptionFailed, TypeOK
  <2>2. Recorded(f) => status[f] # "deleted"
    BY DEF Recorded, NoFile
  <2>3. \/ status'[f] = status[f]
        \/ status'[f] = "failed" /\ status[f] # "deleted"
    BY <2>1, <2>2
  <2>4. Rank("failed") \in Nat
    BY DEF Rank
  <2> QED BY <1>1, <1>2, <1>3, <2>3, <2>4, RankTables
<1>6. CASE SaveStatus(t) \/ Embedded(t)
  <2>1. /\ run[t].pc \in Working /\ Recorded(run[t].file)
        /\ run[t].pc = "embed" => run[t].stage = "extract"
    BY <1>1, <1>6 DEF SaveStatus, Embedded, Resumes, At, Working, EmbedsLast
  <2>2. \/ status'[f] = status[f]
        \/ f = run[t].file /\ status'[f] = ToStatus(run[t].stage)
    <3>1. CASE SaveStatus(t)
      BY <1>1, <3>1 DEF SaveStatus, TypeOK
    <3>2. CASE Embedded(t)
      BY <1>1, <2>1, <3>2 DEF Embedded, Resumes, At, TypeOK
    <3> QED BY <1>6, <3>1, <3>2
  <2>3. ToStatus(run[t].stage) \in Statuses
    BY <1>1, StageTables
  <2> QED BY <1>1, <1>2, <1>3, <2>1, <2>2, <2>3, RankTables DEF NotAhead
<1> QED BY <1>3, <1>4, <1>5, <1>6
        DEF Step, Call, Answer, Error, EndStage, ProbeDone, Finish,
            CallUnusable, CallSkipped, CallFilled, BeginLlm, BeginEmbed,
            Transcribed, LlmReplied, Extracted, Replied, LlmFailed,
            SaveStatusFailed, EmbeddedRaises, database

\* As long as runs do not overlap, no step of one takes a file back to an earlier
\* stage, whatever was reset or deleted while it was suspended.  The clear
\* endpoints, which set a status without looking at the present one, may put a
\* file ahead of the run that is at work on it.
THEOREM NeverRegressesHolds ==
    ASSUME "clear" \notin Requests
    PROVE  Spec /\ []OneRunAtATime => RunNeverRegresses
<1>1. Init => NeverAheadInv
  <2> SUFFICES ASSUME Init PROVE NeverAheadInv
    OBVIOUS
  <2>1. EmbedsLast /\ NotAhead
    BY DEF Init, EmbedsLast, NotAhead, Idle, Working
  <2> QED BY <2>1, IInvInit DEF NeverAheadInv
<1>2. NeverAheadInv /\ OneRunAtATime /\ [Next]_vars => NeverAheadInv'
  BY TypeNext, LoopHeldNext, RunsOwnRowsNext, EntryBacksNext, EmbedsLastNext,
     NotAheadNext
  DEF NeverAheadInv, IInv
<1>3. NeverAheadInv /\ [Next]_vars
        => [ \A t \in Runs, f \in Files :
               Step(t) => Rank(status'[f]) >= Rank(status[f]) ]_vars
  BY StepNeverRegresses
<1> QED BY <1>1, <1>2, <1>3, PTL DEF Spec, RunNeverRegresses

\* A request fills no column.
LEMMA RequestColumn ==
    ASSUME TypeOK, Request, NEW i \in EntryIds, NEW c \in Columns,
           owner'[i] # None, column'[i][c] = "text"
    PROVE  owner[i] # None /\ column[i][c] = "text"
<1>1. ASSUME NEW I, WithoutRows(I)
      PROVE  owner[i] # None /\ column[i][c] = "text"
  BY <1>1 DEF WithoutRows
<1>2. ASSUME NEW j \in EntryIds, NEW s \in LlmStages, ClearColumns(j, s)
      PROVE  owner[i] # None /\ column[i][c] = "text"
  <2>1. column'[i][c] \in {column[i][c], "null"}
    BY <1>2 DEF TypeOK, ClearColumns
  <2> QED BY <1>2, <2>1 DEF ClearColumns
<1> QED BY <1>1, <1>2 DEF Request, Upload, DeleteFiles, ResetFiles, DeleteEntry

LEMMA AwaitsUnfilledNext ==
    ASSUME UnfilledInv, OneRunAtATime, [Next]_vars
    PROVE  AwaitsUnfilled'
<1>1. TypeOK /\ RunsOwnRows /\ AwaitsUnfilled
  BY DEF UnfilledInv, IInv
<1>2. CASE UNCHANGED vars
  BY <1>1, <1>2 DEF AwaitsUnfilled, Filled, vars
<1>3. CASE Start
  BY <1>1, <1>2, <1>3, StartFrame DEF AwaitsUnfilled, Filled, database
<1>4. ASSUME NEW t \in Runs, Step(t) PROVE AwaitsUnfilled'
  <2> SUFFICES ASSUME run'[t].pc = "await", run'[t].stage \in LlmStages
               PROVE  column'[run'[t].row][ColumnOf(run'[t].stage)] # "text"
    BY <1>1, <1>4, StepAlone DEF AwaitsUnfilled, Filled
  <2>1. run'[t].stage = run[t].stage
    BY <1>1, <1>4, StepSuspends DEF Working
  <2>2. ~(\E f \in Files : BeginTranscription(t, f))
    BY <2>1 DEF BeginTranscription, LlmStages
  <2>3. PICK f \in Files : BeginLlm(t, f) /\ run'[t].row = FirstEntry(f)
    BY <1>1, <1>4, <2>2, StepSuspends DEF Working
  <2> QED BY <2>1, <2>3 DEF BeginLlm, Filled, database
<1>5. CASE Request
  <2> SUFFICES ASSUME NEW t \in Runs, run'[t].pc = "await", run'[t].stage \in LlmStages,
                      owner'[run'[t].row] # None,
                      column'[run'[t].row][ColumnOf(run'[t].stage)] = "text"
               PROVE  FALSE
    BY DEF AwaitsUnfilled, Filled
  <2>1. run' = run
    BY <1>5, RequestFrame
  <2>2. run[t].row \in EntryIds /\ ColumnOf(run[t].stage) \in Columns
    BY <1>1, <2>1, StageTables DEF RunsOwnRows
  <2>3. /\ owner[run[t].row] # None
        /\ column[run[t].row][ColumnOf(run[t].stage)] = "text"
    BY <1>1, <1>5, <2>1, <2>2, RequestColumn
  <2> QED BY <1>1, <2>1, <2>3 DEF AwaitsUnfilled, Filled
<1>6. CASE Crash
  BY <1>6 DEF AwaitsUnfilled, Crash, Idle
<1> QED BY <1>2, <1>3, <1>4, <1>5, <1>6 DEF Next

LEMMA StepKeepsText ==
    ASSUME UnfilledInv, NEW t \in Runs, Step(t), NEW i \in EntryIds, NEW c \in Columns,
           column[i][c] = "text"
    PROVE  column'[i][c] = "text"
<1>1. TypeOK /\ RunsOwnRows /\ AwaitsUnfilled
  BY DEF UnfilledInv, IInv
<1>2. ASSUME NEW text, Replied(t, text) PROVE column'[i][c] = "text"
  <2>1. run[t].row \in EntryIds /\ ColumnOf(run[t].stage) \in Columns
    BY <1>1, <1>2, StageTables DEF RunsOwnRows, Replied, Resumes, At
  <2>2. i # run[t].row \/ c # ColumnOf(run[t].stage)
    BY <1>1, <1>2 DEF AwaitsUnfilled, Filled, Replied, Resumes, At
  <2>3. column' = [column EXCEPT ![run[t].row][ColumnOf(run[t].stage)] = text]
    BY <1>2 DEF Replied
  <2> QED BY <1>1, <2>1, <2>2, <2>3 DEF TypeOK
<1>3. CASE LlmReplied(t) \/ Extracted(t)
  BY <1>2, <1>3 DEF LlmReplied, Extracted
<1>4. CASE column' = column
  BY <1>4
<1> QED BY <1>3, <1>4
        DEF Step, Call, Answer, Error, EndStage, ProbeDone, Finish, CallUnusable,
            CallSkipped, BeginTranscription, AudioMissing, CallFilled, BeginLlm,
            BeginEmbed, Transcribed, TranscriptionFailed, LlmFailed, SaveStatus,
            SaveStatusFailed, Embedded, EmbeddedRaises, database

\* As long as runs do not overlap, no LLM output is paid for twice, nor lost to
\* an answer that is empty: what is filled stays until a user removes it.
THEOREM FilledKeptHolds == Spec /\ []OneRunAtATime => FilledColumnsKept
<1>1. Init => UnfilledInv
  <2> SUFFICES ASSUME Init PROVE UnfilledInv
    OBVIOUS
  <2>1. AwaitsUnfilled
    BY DEF Init, AwaitsUnfilled, Idle
  <2> QED BY <2>1, IInvInit DEF UnfilledInv
<1>2. UnfilledInv /\ OneRunAtATime /\ [Next]_vars => UnfilledInv'
  BY TypeNext, LoopHeldNext, RunsOwnRowsNext, EntryBacksNext, AwaitsUnfilledNext
  DEF UnfilledInv, IInv
<1>3. UnfilledInv /\ [Next]_vars
        => [ \A i \in EntryIds, c \in Columns :
               owner'[i] # None /\ owner[i] # None /\ column[i][c] = "text"
                  => column'[i][c] = "text" \/ Request ]_vars
  <2> SUFFICES ASSUME UnfilledInv, Next, ~Request,
                      NEW i \in EntryIds, NEW c \in Columns, column[i][c] = "text"
               PROVE  column'[i][c] = "text"
    OBVIOUS
  <2>1. CASE Start \/ Crash
    BY <2>1 DEF Start, StartBatch, StartNothing, StartSingle, Crash, database, vars
  <2> QED BY <2>1, StepKeepsText DEF Next
<1> QED BY <1>1, <1>2, <1>3, PTL DEF Spec, FilledColumnsKept

-----------------------------------------------------------------------------
(* The refinement of Transcripts.                                          *)

\* An id that is no row's has no columns to hand on to the next row.
FreeRowsBlank == \A i \in EntryIds : owner[i] = None => column[i] = Blank

TranscriptInv == IInv /\ OneEntryPerFile /\ FreeRowsBlank

LEMMA FreeRowsBlankNext ==
    ASSUME TranscriptInv, [Next]_vars
    PROVE  FreeRowsBlank'
<1>1. TypeOK /\ RunsOwnRows /\ FreeRowsBlank
  BY DEF TranscriptInv, IInv
<1>2. CASE UNCHANGED <<owner, column>>
  BY <1>1, <1>2 DEF FreeRowsBlank
<1>3. ASSUME NEW t \in Runs, Step(t) PROVE FreeRowsBlank'
  <2>1. ASSUME NEW text, Replied(t, text) PROVE FreeRowsBlank'
    <3>1. /\ owner[run[t].row] # None /\ owner' = owner
          /\ \A i \in EntryIds : i # run[t].row => column'[i] = column[i]
      BY <1>1, <2>1 DEF Replied, TypeOK
    <3> QED BY <1>1, <3>1 DEF FreeRowsBlank
  <2>2. ASSUME NEW i \in EntryIds, Transcribed(t, i) PROVE FreeRowsBlank'
    <3>1. run[t].file # None
      BY <1>1, <2>2, NoneIsNoId DEF Transcribed, Resumes, At, RunsOwnRows
    <3>2. /\ column' = column
          /\ \A j \in EntryIds : owner'[j] = None => owner[j] = None
      BY <1>1, <2>2, <3>1 DEF Transcribed, TypeOK
    <3> QED BY <1>1, <3>2 DEF FreeRowsBlank
  <2> QED BY <1>2, <1>3, <2>1, <2>2
          DEF Step, Call, Answer, Error, EndStage, ProbeDone, Finish, CallUnusable,
              CallSkipped, BeginTranscription, AudioMissing, CallFilled, BeginLlm,
              BeginEmbed, LlmReplied, Extracted, TranscriptionFailed, LlmFailed,
              SaveStatus, SaveStatusFailed, Embedded, EmbeddedRaises, database
<1>4. CASE Request
  <2>1. ASSUME NEW I, WithoutRows(I) PROVE FreeRowsBlank'
    BY <1>1, <2>1 DEF WithoutRows, FreeRowsBlank
  <2>2. ASSUME NEW i \in EntryIds, NEW s \in LlmStages, ClearColumns(i, s)
        PROVE  FreeRowsBlank'
    <3>1. /\ owner[i] # None /\ owner' = owner
          /\ \A j \in EntryIds : j # i => column'[j] = column[j]
      BY <1>1, <2>2 DEF ClearColumns, TypeOK
    <3> QED BY <1>1, <3>1 DEF FreeRowsBlank
  <2> QED BY <1>2, <1>4, <2>1, <2>2
          DEF Request, Upload, DeleteFiles, ResetFiles, DeleteEntry
<1> QED BY <1>2, <1>3, <1>4
        DEF Next, Start, StartBatch, StartNothing, StartSingle, Crash, database, vars

\* The output of a file is that of its entry, whichever it is.
OutputsOfRows ==
    \A f \in Files :
        /\ \A i \in EntryIds : owner[i] = f => f \in Held /\ Output[f] = column[i]
        /\ f \in Held => \E i \in EntryIds : owner[i] = f
        /\ f \notin Held => Output[f] = Blank

LEMMA OutputIs == OneEntryPerFile => OutputsOfRows
<1> SUFFICES ASSUME OneEntryPerFile, NEW f \in Files
             PROVE  /\ \A i \in EntryIds :
                         owner[i] = f => f \in Held /\ Output[f] = column[i]
                    /\ f \in Held => \E i \in EntryIds : owner[i] = f
                    /\ f \notin Held => Output[f] = Blank
  BY DEF OutputsOfRows
<1>1. ASSUME NEW i \in EntryIds, owner[i] = f PROVE f \in Held /\ FirstEntry(f) = i
  <2>1. f # None /\ EntriesOf(f) # {}
    BY <1>1, NoneIsNoId DEF EntriesOf
  <2> QED BY <1>1, <2>1, FirstEntryOwned DEF OneEntryPerFile, Held
<1>2. f \in Held => \E i \in EntryIds : owner[i] = f
  BY DEF Held, EntriesOf
<1> QED BY <1>1, <1>2 DEF Output

LEMMA OutputIsNext == OneEntryPerFile' => OutputsOfRows'
  BY OutputIs, PTL

\* Nothing is seen of a step that leaves the rows alone.
LEMMA OutputsStay ==
    ASSUME OneEntryPerFile, OneEntryPerFile', UNCHANGED <<owner, column>>
    PROVE  Held' = Held /\ Output' = Output
<1>1. OutputsOfRows /\ OutputsOfRows'
  BY OutputIs, OutputIsNext
<1>2. Held' = Held
  BY DEF Held, EntriesOf
<1>3. \A f \in Files : Output'[f] = Output[f]
  BY <1>1, <1>2 DEF OutputsOfRows
<1> QED BY <1>2, <1>3 DEF Output

\* A run waits for one output at most.
LEMMA AskedOnce ==
    ASSUME NEW t \in Runs
    PROVE  Asked(t) \in SUBSET (Files \X Columns) /\ \A p, q \in Asked(t) : p = q
  BY DEF Asked

\* When it waits no longer, the others go on.
LEMMA AskedByOthers ==
    ASSUME NEW t \in Runs, Asked(t)' = {},
           \A u \in Runs \ {t} : Asked(u)' = Asked(u)
    PROVE  \/ AskedNow' = AskedNow
           \/ \E p \in Asked(t) : AskedNow' = AskedNow \ {p}
<1> DEFINE Others == UNION {Asked(u) : u \in Runs \ {t}}
<1>1. AskedNow = Others \cup Asked(t)
  BY DEF AskedNow
<1>2. AskedNow' = Others
  BY DEF AskedNow
<1> HIDE DEF Others
<1> QED BY <1>1, <1>2, AskedOnce

\* Rows that are deleted take the outputs of their files with them, and the
\* calls in progress for them.
LEMMA RemoveRefines ==
    ASSUME TypeOK, OneEntryPerFile, OneEntryPerFile', UNCHANGED run,
           NEW I \in SUBSET EntryIds, \A i \in I : owner[i] # None, WithoutRows(I)
    PROVE  \E F \in SUBSET Files : Transcript!Remove(F)
<1> DEFINE F == {owner[i] : i \in I}
<1>1. F \in SUBSET Files
  BY DEF TypeOK
<1>2. /\ OutputsOfRows /\ OutputsOfRows'
      /\ \A i \in EntryIds : owner'[i] = IF i \in I THEN None ELSE owner[i]
      /\ \A i \in EntryIds \ I : column'[i] = column[i]
  BY OutputIs, OutputIsNext DEF WithoutRows
<1>3. \A i \in EntryIds : owner[i] # None => (owner[i] \in F <=> i \in I)
  BY DEF OneEntryPerFile
<1> HIDE DEF F
<1>4. ASSUME NEW f \in Files
      PROVE  /\ f \in Held' <=> f \in Held \ F
             /\ Output'[f] = IF f \in F THEN Blank ELSE Output[f]
  <2>1. f # None
    BY NoneIsNoId
  <2>2. \A i \in EntryIds : owner'[i] = f <=> owner[i] = f /\ f \notin F
    BY <1>2, <1>3, <2>1
  <2> QED BY <1>2, <1>3, <2>1, <2>2 DEF OutputsOfRows
<1>5. Held' = Held \ F
  BY <1>4 DEF Held
<1>6. Output' = [f \in Files |-> IF f \in F THEN Transcript!Blank ELSE Output[f]]
  <2>1. Transcript!Blank = Blank
    BY DEF Transcript!Blank, Blank
  <2> QED BY <1>4, <2>1 DEF Output
<1>7. \A t \in Runs : Asked(t)' = {p \in Asked(t) : p[1] \notin F}
  <2> SUFFICES ASSUME NEW t \in Runs, NEW p \in Files \X Columns
               PROVE  p \in Asked(t)' <=> p \in Asked(t) /\ p[1] \notin F
    BY DEF Asked
  <2>1. run'[t] = run[t] /\ run[t].row \in EntryIds \cup {None} /\ p[1] # None
    BY NoneIsNoId DEF TypeOK, RunStates
  <2>2. ASSUME run[t].row # None
        PROVE  owner'[run[t].row] = p[1]
                 <=> owner[run[t].row] = p[1] /\ p[1] \notin F
    BY <1>2, <1>3, <2>1, <2>2
  <2>3. \A x, y : p = <<x, y>> <=> x = p[1] /\ y = p[2]
    OBVIOUS
  <2> QED BY <2>1, <2>2, <2>3 DEF Asked
<1>8. AskedNow' = {p \in AskedNow : p[1] \notin F}
  BY <1>7 DEF AskedNow
<1> QED BY <1>1, <1>5, <1>6, <1>8 DEF Transcript!Remove

\* What a step of a run does to what the runs are waiting for.
LEMMA StepAsks ==
    ASSUME IInv, NEW t \in Runs, Step(t)
    PROVE  /\ \A u \in Runs \ {t} : Asked(u)' = Asked(u)
           /\ Asked(t)' # {} => \E f \in Files : BeginLlm(t, f)
<1>1. TypeOK
  BY DEF IInv
<1>2. ASSUME NEW u \in Runs \ {t} PROVE Asked(u)' = Asked(u)
  <2>1. /\ run'[u] = run[u]
        /\ run[u].row # None => owner'[run[u].row] = owner[run[u].row]
    BY <1>1, StepFrame, StepKeepsEntries
  <2> QED BY <2>1 DEF Asked
<1>3. ASSUME Asked(t)' # {} PROVE \E f \in Files : BeginLlm(t, f)
  <2>1. run'[t].pc = "await" /\ run'[t].stage \in LlmStages
    BY <1>3 DEF Asked
  <2>2. ~(\E f \in Files : BeginTranscription(t, f))
    BY <1>1, <2>1, StepSuspends DEF BeginTranscription, LlmStages, Working
  <2> QED BY <1>1, <2>1, <2>2, StepSuspends DEF Working
<1> QED BY <1>2, <1>3

\* An answer is written to the entry the run has asked for.
LEMMA AnswerRefines ==
    ASSUME TranscriptInv, OneEntryPerFile', NEW t \in Runs, Step(t),
           NEW text \in {"text", "empty"}, Replied(t, text), Asked(t)' = {}
    PROVE  \E f \in Files, c \in Columns : Transcript!Answer(f, c, text)
<1>1. TypeOK /\ RunsOwnRows /\ OutputsOfRows /\ OutputsOfRows'
  BY OutputIs, OutputIsNext DEF TranscriptInv, IInv
<1>2. PICK i \in EntryIds, f \in Files, c \in Columns :
        /\ i = run[t].row /\ f = owner[i] /\ c = ColumnOf(run[t].stage)
        /\ run[t].pc = "await" /\ run[t].stage \in LlmStages
  BY <1>1, StageTables DEF Replied, Resumes, At, RunsOwnRows, TypeOK
<1>3. /\ owner' = owner /\ column' = [column EXCEPT ![i][c] = text]
      /\ i # None /\ f # None
  BY <1>2, NoneIsNoId DEF Replied
<1>4. Asked(t) = {<<f, c>>} /\ <<f, c>> \in AskedNow
  BY <1>2, <1>3 DEF Asked, AskedNow
<1>5. AskedNow' \in {AskedNow, AskedNow \ {<<f, c>>}}
  BY <1>4, AskedByOthers, StepAsks DEF TranscriptInv
<1>6. Held' = Held
  BY <1>3 DEF Held, EntriesOf
<1>7. Output' = [Output EXCEPT ![f][c] = text]
  <2>1. Output'[f] = [Output[f] EXCEPT ![c] = text]
    BY <1>1, <1>2, <1>3 DEF OutputsOfRows, TypeOK
  <2>2. ASSUME NEW g \in Files, g # f PROVE Output'[g] = Output[g]
    <3>1. \A j \in EntryIds : owner[j] = g => column'[j] = column[j]
      BY <1>1, <1>2, <1>3, <2>2 DEF TypeOK
    <3> QED BY <1>1, <1>3, <1>6, <3>1 DEF OutputsOfRows
  <2> QED BY <2>1, <2>2 DEF Output
<1> QED BY <1>4, <1>5, <1>6, <1>7 DEF Transcript!Answer

\* A file that is transcribed keeps its entry, or gets a blank one.
LEMMA InsertRefines ==
    ASSUME TranscriptInv, OneEntryPerFile', NEW t \in Runs, Step(t),
           NEW i \in EntryIds, Transcribed(t, i), Asked(t)' = {}
    PROVE  \/ UNCHANGED <<Held, Output, AskedNow>>
           \/ \E f \in Files : Transcript!Insert(f)
<1>1. TypeOK /\ RunsOwnRows /\ FreeRowsBlank /\ OutputsOfRows /\ OutputsOfRows'
  BY OutputIs, OutputIsNext DEF TranscriptInv, IInv
<1>2. PICK f \in Files : f = run[t].file
  BY <1>1 DEF Transcribed, Resumes, At, RunsOwnRows
<1>3. /\ f # None /\ column' = column
      /\ \A j \in EntryIds : owner'[j] = IF j = i THEN f ELSE owner[j]
  BY <1>1, <1>2, NoneIsNoId DEF Transcribed, TypeOK
<1>4. AskedNow' = AskedNow
  <2>1. Asked(t) = {}
    BY DEF Transcribed, LlmStages, Asked
  <2> QED BY <2>1, AskedByOthers, StepAsks DEF TranscriptInv
<1>5. CASE owner[i] = f
  <2>1. owner' = owner
    BY <1>1, <1>2, <1>5 DEF Transcribed, TypeOK
  <2> QED BY <1>3, <1>4, <2>1, OutputsStay DEF TranscriptInv
<1>6. CASE owner[i] = None /\ EntriesOf(f) = {}
  <2>1. f \notin Held
    BY <1>6 DEF Held
  <2>2. Held' = Held \cup {f}
    <3>1. ASSUME NEW g \in Files PROVE g \in Held' <=> g \in Held \/ g = f
      BY <1>3, <1>6, <3>1, NoneIsNoId DEF Held, EntriesOf
    <3> QED BY <3>1 DEF Held
  <2>3. \A g \in Files : Output'[g] = Output[g]
    <3>1. Output'[f] = Blank /\ Output[f] = Blank
      BY <1>1, <1>3, <1>6, <2>1 DEF OutputsOfRows, FreeRowsBlank
    <3>2. ASSUME NEW g \in Files, g # f PROVE Output'[g] = Output[g]
      <4>1. g # None
        BY NoneIsNoId
      <4> QED BY <1>1, <1>3, <1>6, <2>2, <3>2, <4>1 DEF OutputsOfRows
    <3> QED BY <3>1, <3>2
  <2>4. Output' = Output
    BY <2>3 DEF Output
  <2> QED BY <1>4, <2>1, <2>2, <2>4 DEF Transcript!Insert
<1> QED BY <1>1, <1>2, <1>5, <1>6, TranscribedEffect

LEMMA StepTranscripts ==
    ASSUME TranscriptInv, OneEntryPerFile', NEW t \in Runs, Step(t)
    PROVE  Transcript!Next \/ UNCHANGED <<Held, Output, AskedNow>>
<1>1. IInv /\ TypeOK /\ OneEntryPerFile
  BY DEF TranscriptInv, IInv
<1>2. CASE \E f \in Files : BeginLlm(t, f)
  <2>1. PICK f \in Files : BeginLlm(t, f)
    BY <1>2
  <2>2. PICK i \in EntryIds, c \in Columns :
          /\ i = FirstEntry(f) /\ owner[i] = f /\ f \in Held
          /\ c = ColumnOf(run[t].stage) /\ run[t].stage \in LlmStages
    BY <2>1, FirstEntryOwned, StageTables DEF BeginLlm, Callable, Held
  <2>3. /\ run'[t].pc = "await" /\ run'[t].row = i /\ run'[t].stage = run[t].stage
        /\ UNCHANGED <<owner, column>>
    BY <1>1, <2>1, <2>2, SuspendEffect DEF BeginLlm, Phases, database
  <2>4. Asked(t)' = {<<f, c>>}
    BY <2>2, <2>3, NoneIsNoId DEF Asked
  <2>5. Asked(t) = {}
    BY <2>1 DEF BeginLlm, Callable, Calls, At, Asked
  <2>6. AskedNow' = AskedNow \cup {<<f, c>>}
    <3>1. \A u \in Runs \ {t} : Asked(u)' = Asked(u)
      BY <1>1, StepAsks
    <3> QED BY <2>4, <2>5, <3>1 DEF AskedNow
  <2>7. Transcript!Ask(f, c)
    BY <1>1, <2>2, <2>3, <2>6, OutputsStay DEF Transcript!Ask
  <2> QED BY <2>7 DEF Transcript!Next
<1>3. CASE ~(\E f \in Files : BeginLlm(t, f))
  <2>1. Asked(t)' = {}
    BY <1>1, <1>3, StepAsks
  <2>2. ASSUME NEW text \in {"text", "empty"}, Replied(t, text)
        PROVE  Transcript!Next
    <3>1. \E f \in Files, c \in Columns : Transcript!Answer(f, c, text)
      BY <2>1, <2>2, AnswerRefines
    <3> QED BY <2>2, <3>1 DEF Transcript!Next
  <2>3. CASE LlmReplied(t) \/ Extracted(t)
    BY <2>2, <2>3, InputsAssumption DEF LlmReplied, Extracted
  <2>4. CASE \E i \in EntryIds : Transcribed(t, i)
    BY <2>1, <2>4, InsertRefines DEF Transcript!Next
  <2>5. CASE UNCHANGED <<owner, column>>
    <3>1. \/ AskedNow' = AskedNow
          \/ \E p \in Asked(t) : AskedNow' = AskedNow \ {p}
      BY <1>1, <2>1, AskedByOthers, StepAsks
    <3>2. ASSUME NEW p \in Asked(t), AskedNow' = AskedNow \ {p}
          PROVE  Transcript!Next
      <4>1. PICK f \in Files, c \in Columns : p = <<f, c>>
        BY AskedOnce
      <4>2. Transcript!GiveUp(f, c)
        BY <1>1, <2>5, <3>2, <4>1, OutputsStay DEF Transcript!GiveUp
      <4> QED BY <4>2 DEF Transcript!Next
    <3> QED BY <1>1, <2>5, <3>1, <3>2, OutputsStay
  <2> QED BY <2>3, <2>4, <2>5
          DEF Step, Call, Answer, Error, EndStage, ProbeDone, Finish, CallUnusable,
              CallSkipped, BeginTranscription, AudioMissing, CallFilled, BeginLlm,
              BeginEmbed, TranscriptionFailed, LlmFailed, SaveStatus,
              SaveStatusFailed, Embedded, EmbeddedRaises, database
<1> QED BY <1>2, <1>3

LEMMA RequestTranscripts ==
    ASSUME TranscriptInv, OneEntryPerFile', Request
    PROVE  Transcript!Next \/ UNCHANGED <<Held, Output, AskedNow>>
<1>1. /\ TypeOK /\ OneEntryPerFile /\ OutputsOfRows /\ OutputsOfRows'
      /\ run' = run
  BY OutputIs, OutputIsNext, RequestFrame DEF TranscriptInv, IInv
<1>2. ASSUME owner' = owner PROVE AskedNow' = AskedNow
  BY <1>1, <1>2 DEF AskedNow, Asked
<1>3. ASSUME NEW I \in SUBSET EntryIds, \A i \in I : owner[i] # None, WithoutRows(I)
      PROVE  Transcript!Next
  <2>1. \E F \in SUBSET Files : Transcript!Remove(F)
    BY <1>1, <1>3, RemoveRefines
  <2> QED BY <2>1 DEF Transcript!Next
<1>4. ASSUME NEW F \in SUBSET Files, DeleteFiles(F) \/ ResetFiles(F)
      PROVE  Transcript!Next
  <2>1. /\ FirstEntries(F) \in SUBSET EntryIds
        /\ \A i \in FirstEntries(F) : owner[i] # None
    BY FirstEntryOwned, NoneIsNoId DEF FirstEntries
  <2> QED BY <1>3, <1>4, <2>1 DEF DeleteFiles, ResetFiles
<1>5. ASSUME NEW i \in EntryIds, DeleteEntry(i) PROVE Transcript!Next
  BY <1>3, <1>5 DEF DeleteEntry
<1>6. ASSUME NEW i \in EntryIds, NEW s \in LlmStages, ClearColumns(i, s)
      PROVE  Transcript!Next
  <2>1. PICK f \in Files, C \in SUBSET Columns :
          f = owner[i] /\ C = {c \in Columns : c \in Downstream(s)}
    BY <1>1, <1>6 DEF ClearColumns, TypeOK
  <2>2. /\ owner' = owner
        /\ column' = [column EXCEPT ![i] =
              [c \in Columns |-> IF c \in C THEN "null" ELSE column[i][c]]]
    BY <1>1, <1>6, <2>1 DEF ClearColumns, TypeOK
  <2>3. Held' = Held
    BY <2>2 DEF Held, EntriesOf
  <2>4. Output' = [Output EXCEPT ![f] =
                     [c \in Columns |-> IF c \in C THEN "null" ELSE Output[f][c]]]
    <3>1. Output[f] = column[i] /\ Output'[f] = column'[i]
      BY <1>1, <2>1, <2>2 DEF OutputsOfRows
    <3>2. Output'[f] = [c \in Columns |-> IF c \in C THEN "null" ELSE Output[f][c]]
      BY <1>1, <2>2, <3>1 DEF TypeOK
    <3>3. ASSUME NEW g \in Files, g # f PROVE Output'[g] = Output[g]
      <4>1. \A j \in EntryIds : owner[j] = g => column'[j] = column[j]
        BY <1>1, <2>1, <2>2, <3>3 DEF TypeOK
      <4>2. owner' = owner
        BY <2>2
      <4>3. CASE g \in Held
        <5>1. PICK j \in EntryIds : owner[j] = g
          BY <4>3 DEF Held, EntriesOf
        <5>2. Output[g] = column[j] /\ Output'[g] = column'[j]
          BY <1>1, <4>2, <5>1 DEF OutputsOfRows
        <5> QED BY <4>1, <5>1, <5>2
      <4>4. CASE g \notin Held
        BY <1>1, <2>3, <4>4 DEF OutputsOfRows
      <4> QED BY <4>3, <4>4
    <3> QED BY <3>2, <3>3 DEF Output
  <2>5. Transcript!Clear(f, C)
    BY <1>2, <2>2, <2>3, <2>4 DEF Transcript!Clear
  <2> QED BY <2>5 DEF Transcript!Next
<1>7. ASSUME NEW f \in Files, Upload(f) PROVE UNCHANGED <<Held, Output, AskedNow>>
  BY <1>1, <1>2, <1>7, OutputsStay DEF Upload
<1> QED BY <1>4, <1>5, <1>6, <1>7 DEF Request

\* Rows with ids, overlapping runs that remember them and users who delete them
\* implement one entry per file whose outputs come from the calls made for it:
\* every step is one of Transcripts or a stutter.
THEOREM TranscriptsImplemented == Spec => ImplementsTranscripts
<1>1. Init => TranscriptInv
  BY IInvInit DEF Init, TranscriptInv, OneEntryPerFile, FreeRowsBlank
<1>2. TranscriptInv /\ [Next]_vars => TranscriptInv'
  BY TypeNext, LoopHeldNext, RunsOwnRowsNext, EntryBacksNext, OneEntryNext,
     FreeRowsBlankNext
  DEF TranscriptInv, IInv
<1>3. Init => Transcript!Init
  <2> SUFFICES ASSUME Init PROVE Transcript!Init
    OBVIOUS
  <2>1. Held = {}
    BY NoneIsNoId DEF Init, Held, EntriesOf
  <2>2. AskedNow = {}
    BY DEF Init, AskedNow, Asked, Idle
  <2> QED BY <2>1, <2>2 DEF Transcript!Init, Output, Blank, Transcript!Blank
<1>4. TranscriptInv /\ TranscriptInv' /\ [Next]_vars
        => [Transcript!Next]_<<Held, Output, AskedNow>>
  <2> SUFFICES ASSUME TranscriptInv, TranscriptInv', [Next]_vars
               PROVE  Transcript!Next \/ UNCHANGED <<Held, Output, AskedNow>>
    OBVIOUS
  <2>1. OneEntryPerFile /\ OneEntryPerFile'
    BY DEF TranscriptInv
  <2>2. CASE UNCHANGED vars
    BY <2>1, <2>2, OutputsStay DEF vars, AskedNow, Asked
  <2>3. CASE Start
    <3>1. ASSUME NEW t \in Runs, \A u \in Runs \ {t} : run'[u] = run[u],
                 run[t].pc = "idle", run'[t].pc = "next", UNCHANGED database
          PROVE  UNCHANGED <<Held, Output, AskedNow>>
      <4>1. \A u \in Runs : Asked(u)' = Asked(u)
        BY <3>1 DEF Asked, database
      <4> QED BY <2>1, <3>1, <4>1, OutputsStay DEF AskedNow, database
    <3> QED BY <2>2, <2>3, <3>1, StartFrame DEF TranscriptInv, IInv
  <2>4. CASE \E t \in Runs : Step(t)
    BY <2>1, <2>4, StepTranscripts
  <2>5. CASE Request
    BY <2>1, <2>5, RequestTranscripts
  <2>6. CASE Crash
    <3>1. AskedNow' = {} /\ UNCHANGED <<owner, column>>
      BY <2>6 DEF Crash, AskedNow, Asked, Idle
    <3> QED BY <2>1, <3>1, OutputsStay DEF Transcript!Next, Transcript!Restart
  <2> QED BY <2>2, <2>3, <2>4, <2>5, <2>6 DEF Next
<1> QED BY <1>1, <1>2, <1>3, <1>4, PTL
        DEF Spec, ImplementsTranscripts, Transcript!Spec, Transcript!vars
=============================================================================
