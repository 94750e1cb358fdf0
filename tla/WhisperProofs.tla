---------------------------- MODULE WhisperProofs ----------------------------
(***************************************************************************)
(* Invariants of WhisperModel for any threads, model names and number of   *)
(* calls, with or without a GPU.                                           *)
(***************************************************************************)
EXTENDS WhisperModel, TLAPS

-----------------------------------------------------------------------------
(* The inductive invariant.                                                *)

\* A call at the lock knows which model it wants.
NameKnown == \A t \in Threads : At(t, "wait") => thread[t].name \in Models

\* A model is built under the lock, which keeps the GPU from being retired
\* while one is built for it.
LoadingLocked ==
    \A t \in Threads :
        At(t, "load") =>
            /\ lock = t
            /\ thread[t].got # None
            /\ thread[t].got.name = thread[t].name
            /\ thread[t].got.device = "cuda" => ~broken

\* A retired GPU holds no model.
GpuRetired == broken /\ model # None => model.device = "cpu"

\* A call between its load and its `return _model` finds a model unless
\* another one has retired the GPU.
ReturnFinds == \A t \in Threads : At(t, "return") => model # None \/ broken

IInv ==
    /\ TypeOK
    /\ NameKnown
    /\ LoadingLocked
    /\ GpuRetired
    /\ ModelNamed
    /\ ReturnFinds
    /\ ModelLostOnlyToRetirement

-----------------------------------------------------------------------------
(* The helpers.                                                            *)

\* They stay within their types, and None is no model and no thread.
LEMMA Helpers ==
    ASSUME TypeOK
    PROVE  /\ Idle \in ThreadStates
           /\ Device \in {"cuda", "cpu"} /\ (Device = "cuda" => ~broken)
           /\ None \notin Loadable /\ None \notin Threads /\ None \notin Models
BY WhisperAssumption DEF Idle, ThreadStates, Pcs, Device, TypeOK

\* A thread that moves, and the others that do not.
LEMMA BecomesEffect ==
    ASSUME TypeOK, NEW t \in Threads, NEW state \in ThreadStates, Becomes(t, state)
    PROVE  /\ thread' \in [Threads -> ThreadStates]
           /\ thread'[t] = state
           /\ \A u \in Threads \ {t} : thread'[u] = thread[u]
BY DEF TypeOK, Becomes

\* A step that leaves the globals alone, and whose thread is not left in the
\* middle of a load, keeps what is said of the other threads.
LEMMA QuietStep ==
    ASSUME IInv, NEW t \in Threads, NEW state \in ThreadStates, Becomes(t, state),
           configured' = configured, UNCHANGED globals, calls' \in 0 .. MaxCalls,
           lock' = lock \/ (lock = t /\ lock' = None),
           state.pc # "load",
           state.pc = "wait" => state.name \in Models,
           state.pc = "return" => model # None \/ broken,
           state.pc = "use" /\ state.got = None => broken
    PROVE  IInv'
<1>1. /\ thread' \in [Threads -> ThreadStates]
      /\ thread'[t] = state
      /\ \A u \in Threads \ {t} : thread'[u] = thread[u]
  BY BecomesEffect DEF IInv
<1>2. TypeOK'
  BY <1>1 DEF IInv, TypeOK, globals
<1>3. NameKnown' /\ ReturnFinds' /\ ModelLostOnlyToRetirement'
  BY <1>1 DEF IInv, NameKnown, ReturnFinds, ModelLostOnlyToRetirement, At, globals
<1>4. LoadingLocked'
  <2> SUFFICES ASSUME NEW u \in Threads \ {t}, At(u, "load")
               PROVE  lock' = u
    BY <1>1 DEF IInv, LoadingLocked, At, globals
  <2> QED BY DEF IInv, LoadingLocked
<1>5. GpuRetired' /\ ModelNamed'
  BY DEF IInv, GpuRetired, ModelNamed, globals
<1> QED BY <1>2, <1>3, <1>4, <1>5 DEF IInv

-----------------------------------------------------------------------------
(* Each step.                                                              *)

LEMMA IInvStep ==
    ASSUME IInv, NEW t \in Threads, Begin(t) \/ Step(t)
    PROVE  IInv'
<1>1. TypeOK /\ thread[t] \in ThreadStates /\ calls \in 0 .. MaxCalls
  BY DEF IInv, TypeOK
<1> USE <1>1, Helpers
<1>2. CASE Begin(t)
  <2>1. [Idle EXCEPT !.pc = "config"] \in ThreadStates
    BY DEF Idle, ThreadStates, Pcs
  <2>2. calls' \in 0 .. MaxCalls
    BY <1>2, WhisperAssumption DEF Begin
  <2> QED BY <1>2, <2>1, <2>2, QuietStep DEF Begin, Idle
<1>3. CASE ReadConfig(t)
  <2>1. PICK name \in {configured, Default} :
           Becomes(t, [thread[t] EXCEPT !.pc = "wait", !.name = name])
    BY <1>3 DEF ReadConfig
  <2>2. name \in Models
    BY <2>1, WhisperAssumption DEF TypeOK
  <2> DEFINE state == [thread[t] EXCEPT !.pc = "wait", !.name = name]
  <2>3. state \in ThreadStates /\ state.pc = "wait" /\ state.name = name
    BY <2>2 DEF ThreadStates, Pcs
  <2> QED BY <1>3, <2>1, <2>2, <2>3, QuietStep DEF ReadConfig
<1>4. CASE Reuse(t) \/ Return(t)
  <2> DEFINE state == [thread[t] EXCEPT !.pc = "use", !.got = model]
  <2>1. state \in ThreadStates /\ state.pc = "use" /\ state.got = model
    BY DEF TypeOK, ThreadStates, Pcs
  <2>2. model = None => broken
    BY <1>4 DEF Reuse, Return, Loaded, IInv, ReturnFinds
  <2> QED BY <1>4, <2>1, <2>2, QuietStep DEF Reuse, Return
<1>5. CASE StartLoad(t)
  <2> DEFINE built == [name |-> thread[t].name, device |-> Device]
             state == [thread[t] EXCEPT !.pc = "load", !.got = built]
  <2>1. thread[t].name \in Models
    BY <1>5 DEF StartLoad, IInv, NameKnown
  <2>2. built \in Loadable /\ built.name = thread[t].name /\ built.device = Device
    BY <2>1 DEF Loadable
  <2> HIDE DEF built
  <2>3. /\ state \in ThreadStates
        /\ state.pc = "load" /\ state.got = built /\ state.name = thread[t].name
    BY <2>2 DEF ThreadStates, Pcs
  <2> HIDE DEF state
  <2>4. Becomes(t, state)
    BY <1>5 DEF StartLoad, state, built
  <2>5. /\ thread' \in [Threads -> ThreadStates]
        /\ thread'[t] = state
        /\ \A u \in Threads \ {t} : thread'[u] = thread[u]
    BY <2>3, <2>4, BecomesEffect
  <2>6. lock = None /\ lock' = t /\ UNCHANGED <<configured, model, current, broken, calls>>
    BY <1>5 DEF StartLoad, Kept
  <2>7. TypeOK'
    BY <2>5, <2>6 DEF TypeOK
  <2>8. NameKnown' /\ ReturnFinds' /\ ModelLostOnlyToRetirement'
    BY <2>3, <2>5, <2>6 DEF IInv, NameKnown, ReturnFinds,
       ModelLostOnlyToRetirement, At
  <2>9. LoadingLocked'
    BY <2>2, <2>3, <2>5, <2>6 DEF IInv, LoadingLocked, At
  <2> QED BY <2>6, <2>7, <2>8, <2>9 DEF IInv, GpuRetired, ModelNamed
<1>6. CASE EndLoad(t)
  <2> DEFINE state == [thread[t] EXCEPT !.pc = "return", !.got = None]
  <2>1. state \in ThreadStates /\ state.pc = "return"
    BY DEF ThreadStates, Pcs
  <2> HIDE DEF state
  <2>2. Becomes(t, state)
    BY <1>6 DEF EndLoad, state
  <2>3. /\ thread' \in [Threads -> ThreadStates]
        /\ thread'[t] = state
        /\ \A u \in Threads \ {t} : thread'[u] = thread[u]
    BY <2>1, <2>2, BecomesEffect
  <2>4. /\ lock = t /\ lock' = None
        /\ model' = thread[t].got /\ current' = thread[t].name
        /\ UNCHANGED <<configured, broken, calls>>
        /\ model' \in Loadable /\ model'.name = current'
        /\ model'.device = "cuda" => ~broken
    BY <1>6 DEF EndLoad, IInv, LoadingLocked, ThreadStates
  <2>5. TypeOK'
    BY <2>3, <2>4 DEF TypeOK, ThreadStates
  <2>6. NameKnown' /\ ReturnFinds' /\ ModelLostOnlyToRetirement' /\ LoadingLocked'
    BY <2>1, <2>3, <2>4 DEF IInv, NameKnown, ReturnFinds,
       ModelLostOnlyToRetirement, LoadingLocked, At
  <2>7. GpuRetired' /\ ModelNamed'
    BY <2>4 DEF GpuRetired, ModelNamed, Loadable
  <2> QED BY <2>5, <2>6, <2>7 DEF IInv
<1>7. CASE EndCall(t)
  BY <1>7, QuietStep DEF EndCall, Idle
<1>8. /\ AfterGpuError(t) \in ThreadStates
      /\ AfterGpuError(t).pc \in {"idle", "except"}
  BY DEF AfterGpuError, Idle, ThreadStates, Pcs
<1>9. CASE GpuError(t)
  BY <1>8, <1>9, QuietStep DEF GpuError
<1>10. CASE LoadError(t)
  <2>1. lock = t /\ lock' = None
    BY <1>10 DEF LoadError, IInv, LoadingLocked
  <2> QED BY <1>8, <1>10, <2>1, QuietStep DEF LoadError, Idle
<1>11. CASE Test(t)
  <2> DEFINE state == [thread[t] EXCEPT !.pc = "retire"]
  <2>1. state \in ThreadStates /\ state.pc = "retire"
    BY DEF ThreadStates, Pcs
  <2> QED BY <1>11, <2>1, QuietStep DEF Test, Idle
<1>12. CASE Retire(t)
  <2> DEFINE state == [Idle EXCEPT !.pc = "config", !.retry = TRUE]
  <2>1. state \in ThreadStates /\ state.pc = "config"
    BY DEF Idle, ThreadStates, Pcs
  <2> HIDE DEF state
  <2>2. Becomes(t, state)
    BY <1>12 DEF Retire, state
  <2>3. /\ thread' \in [Threads -> ThreadStates]
        /\ thread'[t] = state
        /\ \A u \in Threads \ {t} : thread'[u] = thread[u]
    BY <2>1, <2>2, BecomesEffect
  <2>4. /\ lock = None /\ broken' = TRUE /\ model' = None /\ current' = None
        /\ UNCHANGED <<configured, lock, calls>>
    BY <1>12 DEF Retire
  <2>5. TypeOK'
    BY <2>3, <2>4 DEF TypeOK
  <2>6. NameKnown' /\ ReturnFinds' /\ ModelLostOnlyToRetirement' /\ LoadingLocked'
    BY <2>1, <2>3, <2>4 DEF IInv, NameKnown, ReturnFinds,
       ModelLostOnlyToRetirement, LoadingLocked, At
  <2> QED BY <2>4, <2>5, <2>6 DEF IInv, GpuRetired, ModelNamed
<1> QED BY <1>2, <1>3, <1>4, <1>5, <1>6, <1>7, <1>9, <1>10, <1>11, <1>12 DEF Step

LEMMA IInvNext == IInv /\ [Next]_vars => IInv'
<1> SUFFICES ASSUME IInv, [Next]_vars PROVE IInv'
  OBVIOUS
<1>1. CASE UNCHANGED vars
  BY <1>1 DEF IInv, TypeOK, NameKnown, LoadingLocked, GpuRetired, ModelNamed,
     ReturnFinds, ModelLostOnlyToRetirement, At, vars, globals
<1>2. ASSUME NEW name \in Models, Configure(name) PROVE IInv'
  BY <1>2 DEF Configure, IInv, TypeOK, NameKnown, LoadingLocked, GpuRetired,
     ModelNamed, ReturnFinds, ModelLostOnlyToRetirement, At, globals
<1> QED BY <1>1, <1>2, IInvStep DEF Next

LEMMA IInvInit == Init => IInv
<1> SUFFICES ASSUME Init PROVE IInv
  OBVIOUS
<1>1. Idle \in ThreadStates /\ Idle.pc = "idle"
  BY DEF Idle, ThreadStates, Pcs
<1>2. thread \in [Threads -> ThreadStates]
  BY <1>1 DEF Init
<1>3. calls \in 0 .. MaxCalls /\ configured \in Models
  BY WhisperAssumption DEF Init
<1>4. TypeOK
  BY <1>2, <1>3 DEF Init, TypeOK
<1> QED BY <1>1, <1>4 DEF Init, IInv, NameKnown, LoadingLocked, GpuRetired,
           ModelNamed, ReturnFinds, ModelLostOnlyToRetirement, At

-----------------------------------------------------------------------------
(* The theorems.                                                           *)

LEMMA IInvHolds == Spec => []IInv
BY IInvInit, IInvNext, PTL DEF Spec

\* The globals and the threads stay within their types.
THEOREM TypeCorrect == Spec => []TypeOK
BY IInvHolds, PTL DEF IInv

\* The model that the fast path returns is the one its name says.
THEOREM NamedHolds == Spec => []ModelNamed
BY IInvHolds, PTL DEF IInv

\* `return _model` outside the lock loses a model to a retirement only.
THEOREM LostHolds == Spec => []ModelLostOnlyToRetirement
BY IInvHolds, PTL DEF IInv

\* What a call is given is _model as it is then.
LEMMA UseTakesModel ==
    ASSUME TypeOK, [Next]_vars, NEW t \in Threads,
           ~At(t, "use"), At(t, "use")'
    PROVE  thread'[t].got = model
<1>1. PICK u \in Threads : Begin(u) \/ Step(u)
  BY DEF Next, Configure, vars, At
<1>2. ASSUME NEW state, Becomes(u, state), state.pc # "use" PROVE FALSE
  BY <1>2 DEF TypeOK, Becomes, At
<1>3. thread[u] \in ThreadStates
  BY DEF TypeOK
<1>4. CASE Reuse(u) \/ Return(u)
  <2> DEFINE state == [thread[u] EXCEPT !.pc = "use", !.got = model]
  <2>1. state.got = model
    BY <1>3 DEF ThreadStates
  <2> HIDE DEF state
  <2>2. thread' = [thread EXCEPT ![u] = state]
    BY <1>4 DEF Reuse, Return, Becomes, state
  <2>3. u = t
    BY <2>2 DEF TypeOK, At
  <2> QED BY <2>1, <2>2, <2>3 DEF TypeOK
<1> QED BY <1>1, <1>2, <1>3, <1>4
        DEF Step, Begin, ReadConfig, StartLoad, EndLoad, LoadError, EndCall,
            GpuError, AfterGpuError, Test, Retire, Idle, ThreadStates

\* Once the GPU is retired no call is given a model of it.
THEOREM RetiredHolds == Spec => NoGpuOnceRetired
<1>1. IInv /\ [Next]_vars =>
        [\A t \in Threads :
            broken /\ ~At(t, "use") /\ At(t, "use")' /\ thread'[t].got # None
               => thread'[t].got.device = "cpu"]_vars
  BY UseTakesModel DEF IInv, GpuRetired
<1> QED BY <1>1, IInvHolds, PTL DEF Spec, NoGpuOnceRetired
=============================================================================
