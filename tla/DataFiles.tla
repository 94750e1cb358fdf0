------------------------------ MODULE DataFiles -----------------------------
(***************************************************************************)
(* The two JSON files the server keeps: data/prompts.json of               *)
(* services/prompts.py, rewritten in place on every PUT, and               *)
(* CACHE_DIR/recent.json of services/cache.py, written beside and renamed. *)
(* Neither writer awaits, so `task` is the one that holds the event loop;  *)
(* a write may raise half-way and the process may die in it.               *)
(***************************************************************************)
CONSTANTS
    Names,      \* the keys of DEFAULTS
    Requested,  \* the names users put, unknown ones included
    Texts,      \* texts of prompts, Default included
    Default,    \* DEFAULTS[name]
    Entries,    \* what the table may hold of the last seven days
    Periodic,   \* CACHE_REFRESH_INTERVAL_MINUTES > 0; it is 0 unless set
    None

ASSUME DataAssumption ==
    /\ Default \in Texts
    /\ Names \subseteq Requested
    /\ None \notin Requested \cup Texts
    /\ Periodic \in BOOLEAN

VARIABLES
    prompts,   \* prompts.json
    table,     \* the recent rows of `entries`
    recent,    \* recent.json
    tmp,       \* recent.json.tmp
    task,      \* the writer at work
    possible,  \* history: what the users know a prompt may be
    lost       \* history: prompts not put again since a torn write

vars == <<prompts, table, recent, tmp, task, possible, lost>>

States == {"absent", "torn", "whole"}
Defaults == [n \in Names |-> Default]

\* A file cut short is no JSON: the last character of the array or of the
\* object closes it.
Whole(x) == [state |-> "whole", holds |-> x]
TornPrompts == [state |-> "torn", holds |-> Defaults]
TornRows == [state |-> "torn", holds |-> {}]

Phases == {"idle", "saving", "writing", "renaming"}
Idle == [pc |-> "idle", name |-> None, text |-> None]

At(pc) == task.pc = pc

-----------------------------------------------------------------------------
(* Prompts.                                                                *)

\* load_prompts
Prompts == IF prompts.state = "whole" THEN prompts.holds ELSE Defaults

\* Mutated: any name is accepted.
PutPromptAny(n, text) ==
    /\ At("idle")
    /\ task' = [pc |-> "saving", name |-> n, text |-> text]
    /\ UNCHANGED <<prompts, table, recent, tmp, possible, lost>>

\* put_prompt and update_prompt, up to write_text.
PutPrompt(n, text) ==
    /\ At("idle")
    /\ n \in Names
    /\ task' = [pc |-> "saving", name |-> n, text |-> text]
    /\ UNCHANGED <<prompts, table, recent, tmp, possible, lost>>

\* 422 for a name that is no key of DEFAULTS.
PutUnknown(n) ==
    /\ At("idle")
    /\ n \notin Names
    /\ UNCHANGED vars

\* Mutated: the other prompts are not loaded first.
UpdatedAlone == Whole([Defaults EXCEPT ![task.name] = task.text])

\* Mutated: the saved overrides are merged over the new text.
UpdatedUnder ==
    Whole([Prompts EXCEPT ![task.name] = IF @ = Default THEN task.text ELSE @])

Updated == Whole([Prompts EXCEPT ![task.name] = task.text])

Saved ==
    /\ At("saving")
    /\ prompts' = Updated
    /\ possible' = [possible EXCEPT ![task.name] = {task.text}]
    /\ lost' = lost \ {task.name}
    /\ task' = Idle
    /\ UNCHANGED <<table, recent, tmp>>

\* What is left of prompts.json: the old file, when it could not be opened,
\* or a torn one.
Left(file) ==
    /\ file \in {prompts, TornPrompts}
    /\ prompts' = file
    /\ lost' = IF file.state = "torn" THEN Names ELSE lost

\* write_text raises: 500.
SaveFailed(file) ==
    /\ At("saving")
    /\ Left(file)
    /\ task' = Idle
    /\ UNCHANGED <<table, recent, tmp, possible>>

\* The process dies in write_text, or between it and the answer.
DieSaving ==
    /\ At("saving")
    /\ possible' = [possible EXCEPT ![task.name] = @ \cup {task.text}]
    /\ \/ Left(prompts) \/ Left(TornPrompts)
       \/ prompts' = Updated /\ UNCHANGED lost
    /\ task' = Idle
    /\ UNCHANGED <<table, recent, tmp>>

-----------------------------------------------------------------------------
(* The cache of recent entries.                                            *)

\* An entry comes, changes, goes, or is more than seven days old.
EditTable(rows) ==
    /\ At("idle")
    /\ table' = rows
    /\ UNCHANGED <<prompts, recent, tmp, task, possible, lost>>

\* write_recent_cache: the select, up to write_text.
Refresh ==
    /\ At("idle")
    /\ task' = [Idle EXCEPT !.pc = "writing"]
    /\ UNCHANGED <<prompts, table, recent, tmp, possible, lost>>

\* The interval job, when there is one.
IntervalRefresh == Periodic /\ Refresh

\* The end of POST /api/process.  The drain of the queue refreshes nothing.
ManualRefresh == Refresh

\* Mutated: a leftover is taken for the file.
TmpWrittenOnce ==
    /\ At("writing")
    /\ tmp' = IF tmp.state = "whole" THEN tmp ELSE Whole(table)
    /\ task' = [task EXCEPT !.pc = "renaming"]
    /\ UNCHANGED <<prompts, table, recent, possible, lost>>

TmpWritten ==
    /\ At("writing")
    /\ tmp' = Whole(table)
    /\ task' = [task EXCEPT !.pc = "renaming"]
    /\ UNCHANGED <<prompts, table, recent, possible, lost>>

\* Mutated: a recent.json that is there is left alone.
ReplaceOnce ==
    /\ At("renaming")
    /\ recent' = IF recent.state = "absent" THEN tmp ELSE recent
    /\ tmp' = [state |-> "absent", holds |-> {}]
    /\ task' = Idle
    /\ UNCHANGED <<prompts, table, possible, lost>>

\* os.replace
Replace ==
    /\ At("renaming")
    /\ recent' = tmp
    /\ tmp' = [state |-> "absent", holds |-> {}]
    /\ task' = Idle
    /\ UNCHANGED <<prompts, table, possible, lost>>

\* An error of the writer, which logs it, or the death of the process in it.
RefreshFailed ==
    /\ \/ At("writing") /\ tmp' \in {tmp, TornRows}
       \/ At("renaming") /\ UNCHANGED tmp
    /\ task' = Idle
    /\ UNCHANGED <<prompts, table, recent, possible, lost>>

-----------------------------------------------------------------------------

Init ==
    /\ prompts = [state |-> "absent", holds |-> Defaults]
    /\ table = {}
    /\ recent = [state |-> "absent", holds |-> {}]
    /\ tmp = [state |-> "absent", holds |-> {}]
    /\ task = Idle
    /\ possible = [n \in Names |-> {Default}]
    /\ lost = {}

EndSave ==
    \/ Saved
    \/ \E file \in {prompts, TornPrompts} : SaveFailed(file)
    \/ DieSaving

Save ==
    \/ \E n \in Requested, text \in Texts : PutPrompt(n, text)
    \/ \E n \in Requested : PutUnknown(n)
    \/ EndSave

Cache ==
    \/ IntervalRefresh
    \/ ManualRefresh
    \/ TmpWritten
    \/ Replace
    \/ RefreshFailed

Edit == \E rows \in SUBSET Entries : EditTable(rows)

Next == Save \/ Cache \/ Edit

Spec == Init /\ [][Next]_vars

\* A write ends, one way or another.  Where there is an interval job it comes
\* round again and again, however often a request has the loop at its hour;
\* nobody has to make a POST.
FairSpec ==
    /\ Spec
    /\ WF_vars(EndSave) /\ WF_vars(TmpWritten) /\ WF_vars(Replace)
    /\ Periodic => SF_vars(IntervalRefresh)

-----------------------------------------------------------------------------
(* Properties.                                                             *)

\* A file is absent, torn or whole; a task works for a prompt that exists.
TypeOK ==
    /\ prompts \in [state : States, holds : [Names -> Texts]]
    /\ table \subseteq Entries
    /\ recent \in [state : States, holds : SUBSET Entries]
    /\ tmp \in [state : States, holds : SUBSET Entries]
    /\ task \in [pc : Phases, name : Names \cup {None}, text : Texts \cup {None}]
    /\ At("saving") => task.name # None /\ task.text # None
    /\ possible \in [Names -> SUBSET Texts]
    /\ lost \subseteq Names

\* A prompt reads as its users left it: an acknowledged text stays, a refused
\* one never shows, whatever is put, fails or dies for other prompts; until a
\* write is torn, and again once it is put anew (prompts.py:4 "persists
\* changes immediately").
KeptUnlessTorn == \A n \in Names \ lost : Prompts[n] \in possible[n]

\* Even then no older text comes back: a prompt is its last one or the default.
NeverOlder == \A n \in Names : Prompts[n] \in possible[n] \cup {Default}

\* recent.json only ever becomes the present table, whole: no leftover of an
\* interrupted write and no half-written file gets there (cache.py:23 "so the
\* file is never half-written").
CacheIsSnapshot == [][ recent' # recent => recent' = Whole(table) ]_vars

\* Where there is an interval job, recent.json shows the table once it rests
\* and refreshes no longer fail, and goes on to, whatever an earlier write has
\* left behind.  By default there is none, and it shows what the table was at
\* the last POST /api/process.
CacheCatchesUp ==
    /\ Periodic
    /\ <>[][ UNCHANGED table /\ ~RefreshFailed ]_vars
    => <>[](recent = Whole(table))
=============================================================================
