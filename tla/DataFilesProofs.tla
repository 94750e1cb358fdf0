--------------------------- MODULE DataFilesProofs --------------------------
(***************************************************************************)
(* Theorems about DataFiles, for any prompts, texts and entries.           *)
(***************************************************************************)
EXTENDS DataFiles, TLAPS

\* Between the two steps of write_recent_cache nothing touches the table.
TmpReady == At("renaming") => tmp = Whole(table)

LEMMA PromptsType == TypeOK => Prompts \in [Names -> Texts]
  BY DataAssumption DEF TypeOK, Prompts, Defaults

LEMMA InitTypeOK == Init => TypeOK
<1>1. SUFFICES ASSUME Init PROVE TypeOK
  OBVIOUS
<1>2. prompts \in [state : States, holds : [Names -> Texts]]
  BY <1>1, DataAssumption DEF Init, States, Defaults
<1>3. /\ table \subseteq Entries
      /\ recent \in [state : States, holds : SUBSET Entries]
      /\ tmp \in [state : States, holds : SUBSET Entries]
  BY <1>1 DEF Init, States
<1>4. /\ task \in [pc : Phases, name : Names \cup {None}, text : Texts \cup {None}]
      /\ ~At("saving")
  BY <1>1 DEF Init, Idle, Phases, At
<1>5. possible \in [Names -> SUBSET Texts] /\ lost \subseteq Names
  BY <1>1, DataAssumption DEF Init
<1>6. QED
  BY <1>2, <1>3, <1>4, <1>5 DEF TypeOK

\* The task at work on a prompt.
LEMMA SavingType ==
    ASSUME TypeOK, At("saving")
    PROVE  /\ task.name \in Names /\ task.text \in Texts
           /\ Updated \in [state : States, holds : [Names -> Texts]]
<1>1. task.name \in Names /\ task.text \in Texts
  BY DEF TypeOK
<1>2. [Prompts EXCEPT ![task.name] = task.text] \in [Names -> Texts]
  BY <1>1, PromptsType
<1>3. QED
  BY <1>1, <1>2 DEF Updated, Whole, States

LEMMA IdleType ==
    /\ Idle \in [pc : Phases, name : Names \cup {None}, text : Texts \cup {None}]
    /\ Idle.pc = "idle"
  BY DEF Idle, Phases

LEMMA LeftType ==
    ASSUME TypeOK, NEW file, Left(file)
    PROVE  /\ prompts' \in [state : States, holds : [Names -> Texts]]
           /\ lost' \subseteq Names /\ lost \subseteq lost'
  BY DataAssumption DEF TypeOK, Left, TornPrompts, States, Defaults

LEMMA TypeStep == TypeOK /\ [Next]_vars => TypeOK'
<1>1. SUFFICES ASSUME TypeOK, [Next]_vars PROVE TypeOK'
  OBVIOUS
<1>2. ASSUME NEW n \in Requested, NEW text \in Texts, PutPrompt(n, text) PROVE TypeOK'
  BY <1>1, <1>2, DataAssumption DEF TypeOK, PutPrompt, At, Phases
<1>3. ASSUME NEW n \in Requested, PutUnknown(n) PROVE TypeOK'
  BY <1>1, <1>3 DEF TypeOK, PutUnknown, vars, At
<1>4. CASE Saved
  <2>1. /\ At("saving") /\ prompts' = Updated /\ task' = Idle
        /\ possible' = [possible EXCEPT ![task.name] = {task.text}]
        /\ lost' = lost \ {task.name}
        /\ UNCHANGED <<table, recent, tmp>>
    BY <1>4 DEF Saved
  <2>2. prompts' \in [state : States, holds : [Names -> Texts]]
    BY <1>1, <2>1, SavingType
  <2>3. possible' \in [Names -> SUBSET Texts]
    BY <1>1, <2>1, SavingType DEF TypeOK
  <2>4. QED
    BY <1>1, <2>1, <2>2, <2>3, IdleType DEF TypeOK, At
<1>5. ASSUME NEW file, SaveFailed(file) PROVE TypeOK'
  <2>1. /\ Left(file) /\ task' = Idle
        /\ UNCHANGED <<table, recent, tmp, possible>>
    BY <1>5 DEF SaveFailed
  <2>2. QED
    BY <1>1, <2>1, LeftType, IdleType DEF TypeOK, At
<1>6. CASE DieSaving
  <2>1. /\ At("saving") /\ task' = Idle
        /\ possible' = [possible EXCEPT ![task.name] = @ \cup {task.text}]
        /\ UNCHANGED <<table, recent, tmp>>
    BY <1>6 DEF DieSaving
  <2>2. possible' \in [Names -> SUBSET Texts]
    BY <1>1, <2>1, SavingType DEF TypeOK
  <2>3. /\ prompts' \in [state : States, holds : [Names -> Texts]]
        /\ lost' \subseteq Names
    <3>1. CASE Left(prompts) \/ Left(TornPrompts)
      BY <1>1, <3>1, LeftType
    <3>2. CASE prompts' = Updated /\ UNCHANGED lost
      BY <1>1, <2>1, <3>2, SavingType DEF TypeOK
    <3>3. QED
      BY <1>6, <3>1, <3>2 DEF DieSaving
  <2>4. QED
    BY <1>1, <2>1, <2>2, <2>3, IdleType DEF TypeOK, At
<1>7. ASSUME NEW rows \in SUBSET Entries, EditTable(rows) PROVE TypeOK'
  BY <1>1, <1>7 DEF TypeOK, EditTable, At
<1>8. CASE Refresh
  BY <1>1, <1>8 DEF TypeOK, Refresh, At, Idle, Phases
<1>9. CASE TmpWritten
  BY <1>1, <1>9 DEF TypeOK, TmpWritten, At, Phases, Whole, States
<1>10. CASE Replace
  BY <1>1, <1>10, IdleType DEF TypeOK, Replace, At, States
<1>11. CASE RefreshFailed
  BY <1>1, <1>11, IdleType DEF TypeOK, RefreshFailed, At, TornRows, States
<1>12. CASE UNCHANGED vars
  BY <1>1, <1>12 DEF TypeOK, vars, At
<1>13. QED
  BY <1>1, <1>2, <1>3, <1>4, <1>5, <1>6, <1>7, <1>8, <1>9, <1>10, <1>11, <1>12
  DEF Next, Save, EndSave, Cache, IntervalRefresh, ManualRefresh, Edit

\* The two files have the shape the code gives them, in every state.
THEOREM TypeCorrect == Spec => []TypeOK
  BY InitTypeOK, TypeStep, PTL DEF Spec

-----------------------------------------------------------------------------
(* Prompts.                                                                *)

LEMMA SavedPrompts ==
    ASSUME TypeOK, At("saving"), prompts' = Updated
    PROVE  \A n \in Names :
              Prompts'[n] = IF n = task.name THEN task.text ELSE Prompts[n]
<1>1. Prompts' = [Prompts EXCEPT ![task.name] = task.text]
  BY DEF Prompts, Updated, Whole
<1>2. QED
  BY <1>1, SavingType, PromptsType

LEMMA LeftPrompts ==
    ASSUME TypeOK, NEW file, Left(file)
    PROVE  \/ Prompts' = Prompts /\ lost \subseteq lost'
           \/ Prompts' = Defaults /\ lost' = Names
  BY DEF Left, TornPrompts, Prompts, TypeOK

LEMMA SamePrompts ==
    ASSUME UNCHANGED <<prompts, possible, lost>>
    PROVE  /\ KeptUnlessTorn => KeptUnlessTorn'
           /\ NeverOlder => NeverOlder'
  BY DEF KeptUnlessTorn, NeverOlder, Prompts

LEMMA PromptsStep ==
    TypeOK /\ KeptUnlessTorn /\ NeverOlder /\ [Next]_vars
        => KeptUnlessTorn' /\ NeverOlder'
<1>1. SUFFICES ASSUME TypeOK, KeptUnlessTorn, NeverOlder, [Next]_vars
               PROVE  KeptUnlessTorn' /\ NeverOlder'
  OBVIOUS
<1>2. CASE Saved
  <2>1. /\ At("saving") /\ prompts' = Updated
        /\ possible' = [possible EXCEPT ![task.name] = {task.text}]
        /\ lost' = lost \ {task.name}
    BY <1>2 DEF Saved
  <2>2. \A n \in Names :
           /\ Prompts'[n] = IF n = task.name THEN task.text ELSE Prompts[n]
           /\ possible'[n] = IF n = task.name THEN {task.text} ELSE possible[n]
    BY <1>1, <2>1, SavedPrompts DEF TypeOK
  <2>3. QED
    BY <1>1, <2>1, <2>2 DEF KeptUnlessTorn, NeverOlder
<1>3. ASSUME NEW file, Left(file),
             \A n \in Names : possible[n] \subseteq possible'[n]
      PROVE  KeptUnlessTorn' /\ NeverOlder'
  <2>1. CASE Prompts' = Prompts /\ lost \subseteq lost'
    BY <1>1, <1>3, <2>1 DEF KeptUnlessTorn, NeverOlder
  <2>2. CASE Prompts' = Defaults /\ lost' = Names
    BY <2>2 DEF KeptUnlessTorn, NeverOlder, Defaults
  <2>3. QED
    BY <1>1, <1>3, <2>1, <2>2, LeftPrompts
<1>4. ASSUME NEW file, SaveFailed(file) PROVE KeptUnlessTorn' /\ NeverOlder'
  BY <1>3, <1>4 DEF SaveFailed
<1>5. CASE DieSaving
  <2>1. /\ At("saving")
        /\ possible' = [possible EXCEPT ![task.name] = @ \cup {task.text}]
    BY <1>5 DEF DieSaving
  <2>2. \A n \in Names :
           /\ possible[n] \subseteq possible'[n]
           /\ n = task.name => task.text \in possible'[n]
    BY <1>1, <2>1 DEF TypeOK
  <2>3. CASE Left(prompts) \/ Left(TornPrompts)
    BY <1>3, <2>2, <2>3
  <2>4. CASE prompts' = Updated /\ UNCHANGED lost
    <3>1. \A n \in Names :
             Prompts'[n] = IF n = task.name THEN task.text ELSE Prompts[n]
      BY <1>1, <2>1, <2>4, SavedPrompts
    <3>2. QED
      BY <1>1, <2>2, <2>4, <3>1 DEF KeptUnlessTorn, NeverOlder
  <2>5. QED
    BY <1>5, <2>3, <2>4 DEF DieSaving
<1>6. ASSUME NEW n \in Requested, NEW text \in Texts, PutPrompt(n, text)
      PROVE  KeptUnlessTorn' /\ NeverOlder'
  BY <1>1, <1>6, SamePrompts DEF PutPrompt
<1>7. ASSUME NEW n \in Requested, PutUnknown(n) PROVE KeptUnlessTorn' /\ NeverOlder'
  BY <1>1, <1>7, SamePrompts DEF PutUnknown, vars
<1>8. CASE Cache
  BY <1>1, <1>8, SamePrompts
  DEF Cache, IntervalRefresh, ManualRefresh, Refresh, TmpWritten, Replace,
      RefreshFailed
<1>9. CASE Edit
  BY <1>1, <1>9, SamePrompts DEF Edit, EditTable
<1>10. CASE UNCHANGED vars
  BY <1>1, <1>10, SamePrompts DEF vars
<1>11. QED
  BY <1>1, <1>2, <1>4, <1>5, <1>6, <1>7, <1>8, <1>9, <1>10
  DEF Next, Save, EndSave

LEMMA PromptsAlways == Spec => [](KeptUnlessTorn /\ NeverOlder)
<1>1. Init => KeptUnlessTorn /\ NeverOlder
  BY DEF Init, KeptUnlessTorn, NeverOlder, Prompts, Defaults
<1>2. QED
  BY <1>1, TypeCorrect, PromptsStep, PTL DEF Spec

\* An acknowledged prompt is kept through every failure of other requests that
\* leaves the file whole, and from its next update on through the others.
THEOREM KeptHolds == Spec => []KeptUnlessTorn
  BY PromptsAlways, PTL

\* No failure and no crash brings an older text of a prompt back.
THEOREM NeverOlderHolds == Spec => []NeverOlder
  BY PromptsAlways, PTL

-----------------------------------------------------------------------------
(* The cache.                                                              *)

LEMMA TmpReadyStep == TmpReady /\ [Next]_vars => TmpReady'
<1>1. SUFFICES ASSUME TmpReady, [Next]_vars PROVE TmpReady'
  OBVIOUS
<1>2. CASE Save
  <2>1. CASE EndSave
    BY <2>1, IdleType DEF EndSave, Saved, SaveFailed, DieSaving, TmpReady, At
  <2>2. ASSUME NEW n \in Requested, NEW text \in Texts, PutPrompt(n, text)
        PROVE  TmpReady'
    BY <2>2 DEF PutPrompt, TmpReady, At
  <2>3. ASSUME NEW n \in Requested, PutUnknown(n) PROVE TmpReady'
    BY <1>1, <2>3 DEF PutUnknown, vars, TmpReady, At
  <2>4. QED
    BY <1>2, <2>1, <2>2, <2>3 DEF Save
<1>3. CASE Cache
  BY <1>3, IdleType
  DEF Cache, IntervalRefresh, ManualRefresh, Refresh, TmpWritten, Replace,
      RefreshFailed, TmpReady, At, Idle, Whole
<1>4. CASE Edit
  BY <1>4 DEF Edit, EditTable, TmpReady, At
<1>5. CASE UNCHANGED vars
  BY <1>1, <1>5 DEF vars, TmpReady, At
<1>6. QED
  BY <1>1, <1>2, <1>3, <1>4, <1>5 DEF Next

LEMMA OnlyReplace ==
    TmpReady /\ [Next]_vars => (recent' # recent => recent' = Whole(table))
<1>1. SUFFICES ASSUME TmpReady, [Next]_vars, recent' # recent
               PROVE  recent' = Whole(table)
  OBVIOUS
<1>2. Replace
  BY <1>1 DEF Next, Save, EndSave, PutPrompt, PutUnknown, Saved, SaveFailed, DieSaving,
              Cache, IntervalRefresh, ManualRefresh, Refresh, TmpWritten,
              RefreshFailed, Edit, EditTable, vars
<1>3. QED
  BY <1>1, <1>2 DEF Replace, TmpReady

\* recent.json changes only to the whole present table.
THEOREM SnapshotHolds == Spec => CacheIsSnapshot
<1>1. Init => TmpReady
  BY DEF Init, Idle, TmpReady, At
<1>2. QED
  BY <1>1, TmpReadyStep, OnlyReplace, PTL DEF Spec, CacheIsSnapshot
=============================================================================
