-------------------------- MODULE WorkQueueProofs ---------------------------
(***************************************************************************)
(* The queue, its mirror and its task count for any files, any manual runs *)
(* and any number of pending ids, with and without a debounce; and that    *)
(* the queue implements the safety part of WakeSignal.                     *)
(***************************************************************************)
EXTENDS WorkQueue, SequenceTheorems, TLAPS

-----------------------------------------------------------------------------
(* Sequences.                                                              *)

\* Appending to the right operand of a concatenation.
LEMMA AppendConcat ==
    ASSUME NEW S, NEW s \in Seq(S), NEW t \in Seq(S), NEW e \in S
    PROVE  Append(s \o t, e) = s \o Append(t, e)
<1>1. /\ Append(s \o t, e) \in Seq(S) /\ s \o Append(t, e) \in Seq(S)
  BY ConcatProperties
<1>2. /\ Len(Append(s \o t, e)) = Len(s) + Len(t) + 1
      /\ Len(s \o Append(t, e)) = Len(s) + Len(t) + 1
  BY ConcatProperties, LenProperties
<1>3. ASSUME NEW i \in 1 .. Len(s) + Len(t) + 1
      PROVE  Append(s \o t, e)[i] = (s \o Append(t, e))[i]
  BY ConcatProperties, LenProperties
<1> QED BY <1>1, <1>2, <1>3, SeqEqual

\* Moving the head of the right operand over to the left one.
LEMMA MoveHead ==
    ASSUME NEW S, NEW s \in Seq(S), NEW t \in Seq(S), t # <<>>
    PROVE  Append(s, Head(t)) \o Tail(t) = s \o t
<1>1. /\ Head(t) \in S /\ Tail(t) \in Seq(S) /\ Len(Tail(t)) = Len(t) - 1
      /\ \A i \in 1 .. Len(t) - 1 : Tail(t)[i] = t[i+1]
      /\ Head(t) = t[1] /\ Len(t) \in Nat \ {0} /\ Len(s) \in Nat
  BY HeadTailProperties, EmptySeq, LenProperties
<1>2. /\ Append(s, Head(t)) \in Seq(S) /\ Len(Append(s, Head(t))) = Len(s) + 1
      /\ \A i \in 1 .. Len(s) + 1 :
            Append(s, Head(t))[i] = IF i <= Len(s) THEN s[i] ELSE t[1]
  BY <1>1
<1>3. /\ Append(s, Head(t)) \o Tail(t) \in Seq(S) /\ s \o t \in Seq(S)
      /\ Len(Append(s, Head(t)) \o Tail(t)) = Len(s) + Len(t)
      /\ Len(s \o t) = Len(s) + Len(t)
  BY <1>1, <1>2, ConcatProperties
<1>4. ASSUME NEW i \in 1 .. Len(s) + Len(t)
      PROVE  (Append(s, Head(t)) \o Tail(t))[i] = (s \o t)[i]
  <2>1. (s \o t)[i] = IF i <= Len(s) THEN s[i] ELSE t[i - Len(s)]
    BY ConcatProperties
  <2>2. (Append(s, Head(t)) \o Tail(t))[i]
          = IF i <= Len(s) + 1 THEN Append(s, Head(t))[i]
                               ELSE Tail(t)[i - (Len(s) + 1)]
    BY <1>1, <1>2, ConcatProperties
  <2> QED BY <1>1, <1>2, <2>1, <2>2
<1> QED BY <1>3, <1>4, SeqEqual

\* A sequence is its head and its tail.
LEMMA SplitHead ==
    ASSUME NEW S, NEW t \in Seq(S), t # <<>>
    PROVE  <<Head(t)>> \o Tail(t) = t
<1>1. Append(<<>>, Head(t)) = <<Head(t)>> /\ <<>> \in Seq(S)
  OBVIOUS
<1>2. <<>> \o t = t
  BY ConcatEmptySeq
<1> QED BY <1>1, <1>2, MoveHead

-----------------------------------------------------------------------------
(* Types, the mirror and the task count, in one inductive invariant.       *)

\* The mirror in every phase: what the drain still has to take off it, then
\* what is queued.
MirrorShape ==
    /\ pc \in {"get", "run"} => waiting = queue
    /\ pc \in {"sleep", "collect"} => waiting = batch \o queue
    /\ pc = "unmirror" => waiting = rest /\ queue = <<>>

\* The drain holds ids exactly from one get to the end of the run.
BatchShape == batch = <<>> <=> pc = "get"

IInv == TypeOK /\ MirrorShape /\ BatchShape /\ TaskCountExact

LEMMA InvInit == Init => IInv
<1> SUFFICES ASSUME Init PROVE IInv
  OBVIOUS
<1>1. <<>> \in Seq(Files) /\ Len(<<>>) = 0
  BY EmptySeq
<1> QED BY <1>1 DEF Init, IInv, TypeOK, MirrorShape, BatchShape, TaskCountExact,
           Phases, Runs

\* The head of the mirror is the id that is taken off it: the search of
\* _remove_from_waiting is never needed.
LEMMA UnmirroredHead ==
    ASSUME IInv, Unmirror
    PROVE  waiting' = Tail(rest)
BY DEF IInv, MirrorShape, Unmirror, Unmirrored

LEMMA InvEnqueue ==
    ASSUME IInv, NEW f \in Files, Enqueue(f)
    PROVE  IInv'
<1>1. /\ TypeOK /\ MirrorShape /\ BatchShape /\ TaskCountExact
      /\ Len(queue) \in Nat /\ Len(batch) \in Nat
  BY LenProperties DEF IInv, TypeOK
<1>2. /\ queue' \in Seq(Files) /\ waiting' \in Seq(Files)
      /\ Len(queue') = Len(queue) + 1
  BY <1>1 DEF TypeOK, Enqueue
<1>3. TypeOK'
  BY <1>1, <1>2 DEF TypeOK, Enqueue
<1>4. MirrorShape'
  <2>1. Append(batch \o queue, f) = batch \o Append(queue, f)
    <3>1. batch \in Seq(Files) /\ queue \in Seq(Files)
      BY <1>1 DEF TypeOK
    <3>2. \A s, t \in Seq(Files), e \in Files : Append(s \o t, e) = s \o Append(t, e)
      BY AppendConcat
    <3> QED BY <3>1, <3>2, Zenon
  <2> QED BY <1>1, <2>1 DEF MirrorShape, Enqueue, LoopFree
<1>5. BatchShape'
  BY <1>1 DEF BatchShape, Enqueue
<1>6. TaskCountExact'
  BY <1>1, <1>2 DEF TypeOK, TaskCountExact, Enqueue
<1> QED BY <1>3, <1>4, <1>5, <1>6 DEF IInv

LEMMA InvGet == IInv /\ Get => IInv'
<1> SUFFICES ASSUME IInv, Get PROVE IInv'
  OBVIOUS
<1>1. /\ TypeOK /\ MirrorShape /\ BatchShape /\ TaskCountExact
      /\ batch = <<>> /\ Len(batch) = 0 /\ queue \in Seq(Files) /\ queue # <<>>
  BY DEF IInv, TypeOK, BatchShape, Get
<1>2. /\ Head(queue) \in Files /\ Tail(queue) \in Seq(Files)
      /\ Len(Tail(queue)) = Len(queue) - 1 /\ Len(queue) \in Nat
  BY <1>1, HeadTailProperties, LenProperties
<1>3. batch' \in Seq(Files) /\ batch' # <<>> /\ Len(batch') = 1
  BY <1>2 DEF Get
<1>4. TypeOK'
  BY <1>1, <1>2, <1>3 DEF TypeOK, Get, Phases
<1>5. MirrorShape'
  <2>1. <<Head(queue)>> \o Tail(queue) = queue
    BY <1>1, SplitHead
  <2> QED BY <1>1, <2>1 DEF MirrorShape, Get
<1>6. BatchShape'
  BY <1>3 DEF BatchShape, Get
<1>7. TaskCountExact'
  BY <1>1, <1>2, <1>3 DEF TaskCountExact, Get
<1> QED BY <1>4, <1>5, <1>6, <1>7 DEF IInv

LEMMA InvCollect == IInv /\ Collect => IInv'
<1> SUFFICES ASSUME IInv, Collect PROVE IInv'
  OBVIOUS
<1>1. /\ TypeOK /\ MirrorShape /\ BatchShape /\ TaskCountExact
      /\ batch \in Seq(Files) /\ queue \in Seq(Files) /\ queue # <<>>
  BY DEF IInv, TypeOK, Collect
<1>2. /\ Head(queue) \in Files /\ Tail(queue) \in Seq(Files)
      /\ Len(Tail(queue)) = Len(queue) - 1
      /\ Len(queue) \in Nat /\ Len(batch) \in Nat
  BY <1>1, HeadTailProperties, LenProperties
<1>3. batch' \in Seq(Files) /\ batch' # <<>> /\ Len(batch') = Len(batch) + 1
  BY <1>1, <1>2 DEF Collect
<1>4. TypeOK'
  BY <1>1, <1>2, <1>3 DEF TypeOK, Collect
<1>5. MirrorShape'
  <2>1. Append(batch, Head(queue)) \o Tail(queue) = batch \o queue
    BY <1>1, MoveHead
  <2> QED BY <1>1, <2>1 DEF MirrorShape, Collect
<1>6. BatchShape'
  BY <1>3 DEF BatchShape, Collect
<1>7. TaskCountExact'
  BY <1>1, <1>2, <1>3 DEF TaskCountExact, Collect
<1> QED BY <1>4, <1>5, <1>6, <1>7 DEF IInv

LEMMA InvRunEnd == IInv /\ RunEnd => IInv'
<1> SUFFICES ASSUME IInv, RunEnd PROVE IInv'
  OBVIOUS
<1>1. /\ TypeOK /\ MirrorShape /\ BatchShape /\ TaskCountExact
      /\ Len(queue) \in Nat /\ Len(batch) \in Nat
      /\ <<>> \in Seq(Files) /\ Len(<<>>) = 0
  BY LenProperties, EmptySeq DEF IInv, TypeOK
<1>2. unfinished' = Len(queue) /\ queue' = queue /\ batch' = <<>> /\ pc' = "get"
  BY <1>1 DEF RunEnd, TasksDone, LeftBehind, AfterRun, TaskCountExact
<1>3. TypeOK'
  BY <1>1, <1>2 DEF TypeOK, RunEnd, Forget, Phases
<1> QED BY <1>1, <1>2, <1>3
        DEF IInv, MirrorShape, BatchShape, TaskCountExact, RunEnd

LEMMA InvNext == IInv /\ [Next]_vars => IInv'
<1> SUFFICES ASSUME IInv, [Next]_vars PROVE IInv'
  OBVIOUS
<1>1. TypeOK /\ MirrorShape /\ BatchShape /\ TaskCountExact
  BY DEF IInv
<1>2. CASE UNCHANGED vars
  BY <1>1, <1>2 DEF IInv, TypeOK, MirrorShape, BatchShape, TaskCountExact, vars
<1>3. ASSUME NEW m \in Manuals, ManualStart(m) \/ ManualEnd(m) PROVE IInv'
  BY <1>1, <1>3 DEF IInv, TypeOK, MirrorShape, BatchShape, TaskCountExact,
     ManualStart, ManualEnd, Met, Forget, Runs
<1>4. ASSUME NEW r \in Runs, FileOver(r) \/ \E f \in Files : SetCurrent(r, f)
      PROVE  IInv'
  BY <1>1, <1>4 DEF IInv, TypeOK, MirrorShape, BatchShape, TaskCountExact,
     SetCurrent, FileOver
<1>5. CASE WakeUp
  BY <1>1, <1>5 DEF IInv, TypeOK, MirrorShape, BatchShape, TaskCountExact,
     WakeUp, Phases
<1>6. CASE CollectDone
  <2>1. batch \o queue = batch
    BY <1>1, <1>6, ConcatEmptySeq DEF TypeOK, CollectDone
  <2> QED BY <1>1, <1>6, <2>1 DEF IInv, TypeOK, MirrorShape, BatchShape,
             TaskCountExact, CollectDone, Collected, Phases
<1>7. CASE Unmirror
  <2>1. Tail(rest) \in Seq(Files)
    BY <1>1, <1>7, HeadTailProperties DEF TypeOK, Unmirror
  <2> QED BY <1>1, <1>7, <2>1, UnmirroredHead DEF IInv, TypeOK, MirrorShape,
             BatchShape, TaskCountExact, Unmirror
<1>8. CASE RunStart
  BY <1>1, <1>8 DEF IInv, TypeOK, MirrorShape, BatchShape, TaskCountExact,
     RunStart, Met, Runs, Phases
<1> QED BY <1>2, <1>3, <1>4, <1>5, <1>6, <1>7, <1>8, InvEnqueue, InvGet,
           InvCollect, InvRunEnd DEF Next, Drains

LEMMA InvHolds == Spec => []IInv
BY InvInit, InvNext, PTL DEF Spec

\* The variables of the queue stay within their types; the task count never
\* goes below zero, so task_done never raises.
THEOREM TypeCorrect == Spec => []TypeOK
BY InvHolds, PTL DEF IInv

\* The queue panel shows exactly the ids that no run has started for.
THEOREM MirrorHolds == Spec => []MirrorExact
<1>1. IInv => MirrorExact
  BY DEF IInv, TypeOK, MirrorShape, MirrorExact, Unserved, LoopFree, Phases
<1> QED BY <1>1, InvHolds, PTL

\* One task_done per enqueue, at the end of the run that took it.
THEOREM TaskCountHolds == Spec => []TaskCountExact
BY InvHolds, PTL DEF IInv

-----------------------------------------------------------------------------
(* The current file.                                                       *)

\* A run that is at a file is under way, and one that has met no other is alone.
Alone ==
    \A r \in Runs :
        /\ working[r] # None => Running(r)
        /\ Running(r) /\ r \notin crossed =>
              \A o \in Runs \ {r} : ~Running(o)

CurrentInv == IInv /\ Alone /\ CurrentFollows

\* Run r begins: whoever else is under way has met it.
LEMMA MetAlone ==
    ASSUME CurrentInv, NEW r \in Runs, ~Running(r), crossed' = Met(r),
           working' = working, Running(r)',
           \A o \in Runs \ {r} : Running(o)' <=> Running(o)
    PROVE  /\ Alone'
           /\ \A o \in Runs \ crossed' : working'[o] = None
<1> DEFINE others == {o \in Runs \ {r} : Running(o)}
<1>1. Alone
  BY DEF CurrentInv
<1>2. CASE others = {}
  BY <1>1, <1>2 DEF Alone
<1>3. CASE others # {}
  <2>1. others \cup {r} \subseteq crossed'
    BY <1>3 DEF Met
  <2> QED BY <1>1, <2>1 DEF Alone
<1> QED BY <1>2, <1>3

\* Run r ends: whoever else is under way has met it.
LEMMA EndAlone ==
    ASSUME CurrentInv, NEW r \in Runs, Running(r), ~Running(r)',
           working' = [working EXCEPT ![r] = None], crossed' = crossed \ {r},
           current' = None,
           \A o \in Runs \ {r} : Running(o)' <=> Running(o)
    PROVE  Alone' /\ CurrentFollows'
<1>1. Alone /\ working \in [Runs -> Files \cup {None}]
  BY DEF CurrentInv, IInv, TypeOK
<1>2. Alone'
  BY <1>1 DEF Alone
<1>3. ASSUME NEW o \in Runs \ crossed', working'[o] # None PROVE FALSE
  BY <1>1, <1>3 DEF Alone
<1> QED BY <1>2, <1>3 DEF CurrentFollows

LEMMA CurrentNext ==
    ASSUME CurrentInv, [Next]_vars
    PROVE  Alone' /\ CurrentFollows'
<1>1. Alone /\ CurrentFollows /\ working \in [Runs -> Files \cup {None}]
  BY DEF CurrentInv, IInv, TypeOK
<1>2. Drain \in Runs /\ Manuals \subseteq Runs /\ Drain \notin Manuals
  BY QueueAssumption DEF Runs
<1>3. CASE UNCHANGED vars \/ \E f \in Files : Enqueue(f)
  BY <1>1, <1>3 DEF Alone, CurrentFollows, Running, Enqueue, vars
<1>4. ASSUME NEW m \in Manuals, ManualStart(m) PROVE Alone' /\ CurrentFollows'
  <2>1. /\ Alone'
        /\ \A o \in Runs \ crossed' : working'[o] = None
    BY <1>2, <1>4, MetAlone DEF ManualStart, Running
  <2>2. \A o \in Runs : Running(o) => Running(o)'
    BY <1>4 DEF ManualStart, Running
  <2>3. current' = current
    BY <1>4 DEF ManualStart
  <2> QED BY <1>1, <2>1, <2>2, <2>3 DEF CurrentFollows
<1>5. ASSUME NEW m \in Manuals, ManualEnd(m) PROVE Alone' /\ CurrentFollows'
  BY <1>2, <1>5, EndAlone DEF ManualEnd, Running, Forget
<1>6. ASSUME NEW r \in Runs, NEW f \in Files, SetCurrent(r, f)
      PROVE  Alone' /\ CurrentFollows'
  <2>1. /\ Running(r) /\ current' = f /\ crossed' = crossed
        /\ working' = [working EXCEPT ![r] = f]
        /\ \A o \in Runs : Running(o)' <=> Running(o)
    BY <1>6 DEF SetCurrent, Running
  <2>2. Alone'
    BY <1>1, <2>1 DEF Alone
  <2>3. ASSUME NEW o \in Runs \ crossed', working'[o] # None
        PROVE  current' = working'[o]
    BY <1>1, <2>1, <2>3 DEF Alone
  <2> QED BY <2>1, <2>2, <2>3 DEF CurrentFollows
<1>7. ASSUME NEW r \in Runs, FileOver(r) PROVE Alone' /\ CurrentFollows'
  <2>1. /\ UNCHANGED <<current, crossed>>
        /\ working' = [working EXCEPT ![r] = None]
        /\ \A o \in Runs : Running(o)' <=> Running(o)
    BY <1>7 DEF FileOver, Running
  <2> QED BY <1>1, <2>1 DEF Alone, CurrentFollows
<1>8. CASE RunStart
  <2>1. /\ Alone'
        /\ \A o \in Runs \ crossed' : working'[o] = None
    BY <1>2, <1>8, MetAlone DEF RunStart, Running
  <2>2. current' = None
    BY <1>8 DEF RunStart
  <2> QED BY <2>1, <2>2 DEF CurrentFollows
<1>9. CASE RunEnd
  BY <1>2, <1>9, EndAlone DEF RunEnd, AfterRun, Running, Forget
<1>10. CASE Get \/ WakeUp \/ Collect \/ CollectDone \/ Unmirror
  <2>1. /\ UNCHANGED <<current, working, crossed>>
        /\ \A o \in Runs : Running(o)' <=> Running(o)
    BY <1>10 DEF Running, Get, WakeUp, Collect, CollectDone, Unmirror
  <2> QED BY <1>1, <2>1 DEF Alone, CurrentFollows
<1> QED BY <1>3, <1>4, <1>5, <1>6, <1>7, <1>8, <1>9, <1>10 DEF Next, Drains

\* When no run is under way the panel shows no current file, and while a run
\* has met no other one it shows the file that run works on.
THEOREM CurrentHolds == Spec => []CurrentFollows
<1>1. Init => Alone /\ CurrentFollows
  BY DEF Init, Alone, CurrentFollows, Running
<1>2. IInv /\ Alone /\ CurrentFollows /\ [Next]_vars => Alone' /\ CurrentFollows'
  BY CurrentNext DEF CurrentInv
<1> QED BY <1>1, <1>2, InvHolds, PTL DEF Spec

-----------------------------------------------------------------------------
(* The queue implements WakeSignal.                                        *)

Serving == IF pc = "run" THEN batch ELSE <<>>

\* An enqueue is a Notify, whether the drain waits, sleeps or runs.
LEMMA SignalEnqueue ==
    ASSUME IInv, NEW f \in Files, Enqueue(f)
    PROVE  Unserved' = Append(Unserved, f) /\ Serving' = Serving
<1>1. batch \in Seq(Files) /\ queue \in Seq(Files) /\ pc \in Phases
  BY DEF IInv, TypeOK
<1>2. Append(batch \o queue, f) = batch \o Append(queue, f)
  <2>1. \A s, t \in Seq(Files), e \in Files : Append(s \o t, e) = s \o Append(t, e)
    BY AppendConcat
  <2> QED BY <1>1, <2>1, Zenon
<1>3. /\ pc' = pc /\ batch' = batch /\ queue' = Append(queue, f)
      /\ pc \notin {"collect", "unmirror"}
  BY DEF Enqueue, LoopFree
<1>4. CASE pc = "sleep"
  BY <1>2, <1>3, <1>4 DEF Unserved, Serving
<1>5. CASE pc \in {"get", "run"}
  BY <1>3, <1>5 DEF Unserved, Serving
<1> QED BY <1>1, <1>3, <1>4, <1>5 DEF Phases

\* From the get to the end of _remove_from_waiting nothing is lost, added or
\* reordered.
LEMMA SignalCoalesce ==
    ASSUME IInv, Get \/ WakeUp \/ Collect \/ CollectDone \/ Unmirror
    PROVE  Unserved' = Unserved /\ Serving' = Serving
<1>1. batch \in Seq(Files) /\ queue \in Seq(Files)
  BY DEF IInv, TypeOK
<1>2. CASE Get
  <2>1. <<Head(queue)>> \o Tail(queue) = queue
    BY <1>1, <1>2, SplitHead DEF Get
  <2> QED BY <1>2, <2>1 DEF Get, Unserved, Serving
<1>3. CASE WakeUp
  BY <1>3 DEF WakeUp, Unserved, Serving
<1>4. CASE Collect
  <2>1. Append(batch, Head(queue)) \o Tail(queue) = batch \o queue
    BY <1>1, <1>4, MoveHead DEF Collect
  <2> QED BY <1>4, <2>1 DEF Collect, Unserved, Serving
<1>5. CASE CollectDone
  <2>1. batch \o queue = batch
    BY <1>1, <1>5, ConcatEmptySeq DEF CollectDone
  <2> QED BY <1>5, <2>1 DEF CollectDone, Unserved, Serving
<1>6. CASE Unmirror
  BY <1>6 DEF Unmirror, Unserved, Serving
<1> QED BY <1>2, <1>3, <1>4, <1>5, <1>6

\* The start of a run serves all that waits, its end is a Done.
LEMMA SignalRun ==
    ASSUME IInv
    PROVE  /\ RunStart => /\ Unserved # <<>> /\ Serving = <<>>
                          /\ Serving' = Unserved /\ Unserved' = <<>>
           /\ RunEnd   => /\ Serving # <<>>
                          /\ Serving' = <<>> /\ Unserved' = Unserved
<1>1. ASSUME RunStart
      PROVE  /\ Unserved # <<>> /\ Serving = <<>>
             /\ Serving' = Unserved /\ Unserved' = <<>>
  <2>1. pc = "unmirror" /\ pc' = "run" /\ batch' = batch /\ queue' = queue
    BY <1>1 DEF RunStart
  <2>2. batch # <<>> /\ queue = <<>>
    BY <2>1 DEF IInv, MirrorShape, BatchShape
  <2> QED BY <2>1, <2>2 DEF Unserved, Serving
<1>2. ASSUME RunEnd
      PROVE  /\ Serving # <<>>
             /\ Serving' = <<>> /\ Unserved' = Unserved
  <2>1. pc = "run" /\ pc' = "get" /\ queue' = queue
    BY <1>2 DEF RunEnd, LeftBehind, AfterRun
  <2>2. batch # <<>>
    BY <2>1 DEF IInv, BatchShape
  <2> QED BY <2>1, <2>2 DEF Unserved, Serving
<1> QED BY <1>1, <1>2

LEMMA SignalNext ==
    ASSUME IInv, [Next]_vars
    PROVE  [Signal!Next]_(Signal!vars)
<1> USE DEF Serving, Signal!Next, Signal!vars
<1>1. ASSUME Unserved' = Unserved, Serving' = Serving
      PROVE  [Signal!Next]_(Signal!vars)
  BY <1>1
<1>2. CASE UNCHANGED vars
  BY <1>1, <1>2 DEF Unserved, vars
<1>3. ASSUME NEW f \in Files, Enqueue(f) PROVE [Signal!Next]_(Signal!vars)
  BY <1>3, SignalEnqueue DEF Signal!Notify
<1>4. CASE \E m \in Manuals : ManualStart(m) \/ ManualEnd(m)
  BY <1>1, <1>4 DEF ManualStart, ManualEnd, Unserved
<1>5. CASE \E r \in Runs : FileOver(r) \/ \E f \in Files : SetCurrent(r, f)
  BY <1>1, <1>5 DEF SetCurrent, FileOver, Unserved
<1>6. CASE Get \/ WakeUp \/ Collect \/ CollectDone \/ Unmirror
  BY <1>1, <1>6, SignalCoalesce
<1>7. CASE RunStart
  BY <1>7, SignalRun DEF Signal!Serve
<1>8. CASE RunEnd
  BY <1>8, SignalRun DEF Signal!Done
<1> QED BY <1>2, <1>3, <1>4, <1>5, <1>6, <1>7, <1>8 DEF Next, Drains

\* Every id waits, in order, until a run starts after it; a run takes all that
\* waits, and none starts for nothing.
THEOREM SignalImplemented == Spec => SignalSafe
<1>1. Init => Signal!Init
  BY DEF Init, Signal!Init, Unserved
<1>2. IInv /\ [Next]_vars => [Signal!Next]_(Signal!vars)
  BY SignalNext
<1> QED BY <1>1, <1>2, InvHolds, PTL DEF Spec, SignalSafe, Signal!Safe
=============================================================================
