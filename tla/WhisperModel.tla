---------------------------- MODULE WhisperModel ----------------------------
(***************************************************************************)
(* The speech model of app/services/whisper_service.py.  transcribe runs   *)
(* _transcribe_sync in threads of the executor.  They share a lazily       *)
(* loaded model under an RLock, which an administrator may rename at any   *)
(* time and which moves to the CPU when the GPU libraries are missing.     *)
(* Three reads are outside the lock: that of the configured name, that of  *)
(* `return _model`, and the test for the fallback.                         *)
(***************************************************************************)
EXTENDS Naturals

CONSTANTS
    Threads,   \* threads of the executor that run _transcribe_sync
    Models,    \* model names
    Default,   \* settings.whisper_model
    Cuda,      \* whisper_device and torch let the GPU be used
    MaxCalls,  \* bound: calls of transcribe
    None

\* A loaded model: the arguments of its WhisperModel(...).
Loadable == [name : Models, device : {"cuda", "cpu"}]

ASSUME WhisperAssumption ==
    /\ Default \in Models
    /\ Cuda \in BOOLEAN
    /\ MaxCalls \in Nat
    /\ None \notin Threads \cup Models \cup Loadable

VARIABLES
    configured,  \* the name in model_configs for the step "transcribe"
    model,       \* _model
    current,     \* _current_model_name
    broken,      \* _whisper_gpu_broken
    lock,        \* the thread that holds _model_lock
    thread,      \* the local state of each thread
    calls        \* calls of transcribe so far

globals == <<model, current, broken>>
vars == <<configured, model, current, broken, lock, thread, calls>>

\* "config": about to read the name; "wait": at `with _model_lock`; "load":
\* building a model under the lock; "return": at `return _model`; "use": was
\* given a model, and is about to call its `transcribe` or in it; "except":
\* caught a missing GPU library; "retire": at the `with` of the fallback.
\* `retry` is set in the second attempt, `name` is `desired`, `got` the model
\* being built or given, which need not be of that name.
Pcs == {"idle", "config", "wait", "load", "return", "use", "except", "retire"}

ThreadStates == [pc : Pcs, name : Models \cup {None},
                 got : Loadable \cup {None}, retry : BOOLEAN]

Idle == [pc |-> "idle", name |-> None, got |-> None, retry |-> FALSE]

At(t, pc) == thread[t].pc = pc

Becomes(t, state) == thread' = [thread EXCEPT ![t] = state]

\* Mutated: a failure of the GPU is not remembered.
DeviceForgetful == IF Cuda THEN "cuda" ELSE "cpu"

\* Mutated: no such device.
DeviceUnknown == "gpu"

\* _resolve_whisper_device
Device == IF Cuda /\ ~broken THEN "cuda" ELSE "cpu"

-----------------------------------------------------------------------------
(* _get_model.                                                             *)

\* The row's name, or the setting's when the row cannot be read.
ReadConfig(t) ==
    /\ At(t, "config")
    /\ \E name \in {configured, Default} :
          Becomes(t, [thread[t] EXCEPT !.pc = "wait", !.name = name])
    /\ UNCHANGED <<configured, globals, lock, calls>>

Loaded(name) == model # None /\ current = name

\* The model is there: it is returned from inside the lock.
Reuse(t) ==
    /\ At(t, "wait") /\ lock = None
    /\ Loaded(thread[t].name)
    /\ Becomes(t, [thread[t] EXCEPT !.pc = "use", !.got = model])
    /\ UNCHANGED <<configured, globals, lock, calls>>

\* Mutated: the old model is dropped before the new one is built.
KeptNothing == None

\* What _model is while another one is built.
Kept == model

StartLoad(t) ==
    /\ At(t, "wait") /\ lock = None
    /\ ~Loaded(thread[t].name)
    /\ lock' = t
    /\ model' = Kept
    /\ Becomes(t, [thread[t] EXCEPT !.pc = "load",
                     !.got = [name |-> thread[t].name, device |-> Device]])
    /\ UNCHANGED <<configured, current, broken, calls>>

EndLoad(t) ==
    /\ At(t, "load")
    /\ model' = thread[t].got
    /\ current' = thread[t].name
    /\ lock' = None
    /\ Becomes(t, [thread[t] EXCEPT !.pc = "return", !.got = None])
    /\ UNCHANGED <<configured, broken, calls>>

\* `return _model`, after the lock: whatever _model has become.
Return(t) ==
    /\ At(t, "return")
    /\ Becomes(t, [thread[t] EXCEPT !.pc = "use", !.got = model])
    /\ UNCHANGED <<configured, globals, lock, calls>>

-----------------------------------------------------------------------------
(* _transcribe_sync.                                                       *)

\* transcribe hands the file to a thread, which preprocesses it; when that
\* fails the call is over and has not touched the model.
Begin(t) ==
    /\ At(t, "idle") /\ calls < MaxCalls
    /\ calls' = calls + 1
    /\ Becomes(t, [Idle EXCEPT !.pc = "config"])
    /\ UNCHANGED <<configured, globals, lock>>

\* The text is returned, or an exception of any kind leaves the call.  None
\* has no attribute `transcribe`.
EndCall(t) ==
    /\ At(t, "use")
    /\ Becomes(t, Idle)
    /\ UNCHANGED <<configured, globals, lock, calls>>

\* A missing GPU library is caught in the first attempt only.
AfterGpuError(t) ==
    IF thread[t].retry THEN Idle ELSE [thread[t] EXCEPT !.pc = "except", !.got = None]

GpuError(t) ==
    /\ At(t, "use")
    /\ thread[t].got # None /\ thread[t].got.device = "cuda"
    /\ Becomes(t, AfterGpuError(t))
    /\ UNCHANGED <<configured, globals, lock, calls>>

\* Mutated: an exception of the constructor leaves the lock taken.
LoadErrorLocked(t) ==
    /\ At(t, "load")
    /\ Becomes(t, Idle)
    /\ UNCHANGED <<configured, globals, lock, calls>>

\* Mutated: _current_model_name is set before the model is built.
LoadErrorNamed(t) ==
    /\ At(t, "load")
    /\ lock' = None
    /\ current' = thread[t].name
    /\ Becomes(t, Idle)
    /\ UNCHANGED <<configured, model, broken, calls>>

\* WhisperModel(...) raises: no such model, no network, or a missing library.
LoadError(t) ==
    /\ At(t, "load")
    /\ lock' = None
    /\ \/ Becomes(t, Idle)
       \/ /\ thread[t].got.device = "cuda"
          /\ Becomes(t, AfterGpuError(t))
    /\ UNCHANGED <<configured, globals, calls>>

\* The test of the fallback; when another thread has been here first the
\* exception is raised again.
Test(t) ==
    /\ At(t, "except")
    /\ Becomes(t, IF Device = "cuda" THEN [thread[t] EXCEPT !.pc = "retire"] ELSE Idle)
    /\ UNCHANGED <<configured, globals, lock, calls>>

Retire(t) ==
    /\ At(t, "retire") /\ lock = None
    /\ broken' = TRUE
    /\ model' = None
    /\ current' = None
    /\ Becomes(t, [Idle EXCEPT !.pc = "config", !.retry = TRUE])
    /\ UNCHANGED <<configured, lock, calls>>

\* PUT /config/transcribe: upsert_model_config.
Configure(name) ==
    /\ configured' = name
    /\ UNCHANGED <<globals, lock, thread, calls>>

-----------------------------------------------------------------------------

Init ==
    /\ configured = Default
    /\ model = None
    /\ current = None
    /\ broken = FALSE
    /\ lock = None
    /\ thread = [t \in Threads |-> Idle]
    /\ calls = 0

\* Every step of a call once it has begun.
Step(t) ==
    \/ ReadConfig(t)
    \/ Reuse(t)
    \/ StartLoad(t)
    \/ EndLoad(t)
    \/ LoadError(t)
    \/ Return(t)
    \/ EndCall(t)
    \/ GpuError(t)
    \/ Test(t)
    \/ Retire(t)

Next ==
    \/ \E t \in Threads : Begin(t) \/ Step(t)
    \/ \E name \in Models : Configure(name)

Spec == Init /\ [][Next]_vars

\* Threads are scheduled; loading and inference return or raise.
FairSpec == Spec /\ \A t \in Threads : WF_vars(Step(t))

-----------------------------------------------------------------------------
(* Properties.                                                             *)

TypeOK ==
    /\ configured \in Models
    /\ model \in Loadable \cup {None}
    /\ current \in Models \cup {None}
    /\ broken \in BOOLEAN
    /\ lock \in Threads \cup {None}
    /\ thread \in [Threads -> ThreadStates]
    /\ calls \in 0 .. MaxCalls

\* The fast path compares names, so the name must be that of the model,
\* whatever loads failed and whoever retired the GPU in between.
ModelNamed == model # None => model.name = current

\* `return _model` is outside the lock, but a call finds no model there only
\* when another one has retired the GPU.
ModelLostOnlyToRetirement ==
    \A t \in Threads : At(t, "use") /\ thread[t].got = None => broken

\* Once the GPU is retired no call is given a GPU model, whatever it had read
\* before: not one loaded meanwhile, nor the one the retiring call has just
\* seen fail.  A call that was given one earlier may still start on it.
NoGpuOnceRetired ==
    [][ \A t \in Threads :
          broken /\ ~At(t, "use") /\ At(t, "use")' /\ thread'[t].got # None
             => thread'[t].got.device = "cpu" ]_vars

\* Every call ends: the lock is released on every path, and the second
\* attempt is the last.
CallsEnd == \A t \in Threads : ~At(t, "idle") ~> At(t, "idle")
=============================================================================
