-------------------------- MODULE UploadStoreProofs -------------------------
(***************************************************************************)
(* Proofs about UploadStore.  The inductive invariant says whom the        *)
(* handler at work is working for: an upload holds one recorded id that    *)
(* nobody knows of yet, a deletion ids whose deletion has been asked for.  *)
(* From it follow that an answered upload is kept, what an orphaned file   *)
(* costs, and the refinement of AudioStore.                                *)
(***************************************************************************)
EXTENDS UploadStore, FiniteSetTheorems, TLAPS

\* The unique constraint of files.sha256 is never what stops an upload.
OneRecordPerContent ==
    \A i, j \in Recorded : record[i] = record[j] => i = j

Unwritten == At("committed") \/ At("writing")

Uploading == Unwritten \/ At("rollback")

HandlerInv ==
    /\ handler.ids \subseteq Recorded
    /\ At("idle") => handler.ids = {}
    /\ Uploading => /\ handler.ids \cap (answered \cup unread) = {}
                    /\ \E id \in Ids : handler.ids = {id}
                    /\ handler.todo = {}
    /\ Unwritten => /\ \A id \in handler.ids : disk[id] = "none"
                    /\ handler.ids \cap asked = {}
    /\ At("rollback") => \A id \in handler.ids : disk[id] # "whole"
    /\ At("removing") => handler.ids \subseteq asked

\* The orphans, and the files whose record the handler is about to delete.
Doomed ==
    {id \in Ids :
        /\ disk[id] # "none"
        /\ \/ id \notin Recorded
           \/ id \in handler.ids \ handler.todo}

StoreInv ==
    /\ OneRecordPerContent
    /\ HandlerInv
    /\ AnsweredKept

-----------------------------------------------------------------------------
(* Type correctness.                                                       *)

LEMMA TypeInitial == Init => TypeOK
BY BoundsAssumption DEF Init, TypeOK, Idle, Phases

LEMMA TypeStep == TypeOK /\ [Next]_vars => TypeOK'
<1> SUFFICES ASSUME TypeOK, [Next]_vars PROVE TypeOK'
    OBVIOUS
<1> USE BoundsAssumption DEF TypeOK, Phases, Idle, At
<1>1. ASSUME NEW c \in Contents, UploadDuplicate(c) PROVE TypeOK'
    BY <1>1 DEF UploadDuplicate, vars
<1>2. ASSUME NEW c \in Contents, NEW id \in Ids, UploadCommit(id, c) PROVE TypeOK'
    BY <1>2 DEF UploadCommit
<1>3. ASSUME NEW id \in Ids, Written(id) PROVE TypeOK'
    BY <1>3 DEF Written
<1>4. ASSUME NEW id \in Ids, NEW left \in {"none", "partial"}, WriteFailed(id, left)
      PROVE  TypeOK'
    BY <1>4 DEF WriteFailed, Fault
<1>5. ASSUME NEW id \in Ids, RollBack(id) PROVE TypeOK'
    BY <1>5 DEF RollBack
<1>6. ASSUME NEW F \in SUBSET Ids, BeginDelete(F) PROVE TypeOK'
    BY <1>6 DEF BeginDelete
<1>7. ASSUME NEW id \in Ids, Remove(id) PROVE TypeOK'
    BY <1>7 DEF Remove
<1>8. ASSUME NEW id \in Ids, RemoveFailed(id) PROVE TypeOK'
    BY <1>8 DEF RemoveFailed, Fault
<1>9. CASE CommitDelete
    BY <1>9 DEF CommitDelete
<1>10. CASE CommitFailed
    BY <1>10 DEF CommitFailed, Fault
<1>11. CASE Crash
    BY <1>11 DEF Crash
<1>12. CASE UNCHANGED vars
    BY <1>12 DEF vars
<1>13. CASE Refreshed
    BY <1>13 DEF Refreshed
<1>14. CASE RefreshFailed
    BY <1>14 DEF RefreshFailed, Fault
<1> QED
    BY <1>1, <1>2, <1>3, <1>4, <1>5, <1>6, <1>7, <1>8, <1>9, <1>10, <1>11, <1>12,
       <1>13, <1>14 DEF Next, Upload, Delete

\* The table, the directory and the handler keep their shape under every
\* request, fault and crash (upload_file, delete_file, batch_delete).
THEOREM TypeCorrect == Spec => []TypeOK
<1>1. Init => TypeOK
    BY TypeInitial
<1>2. TypeOK /\ [Next]_vars => TypeOK'
    BY TypeStep
<1> QED
    BY <1>1, <1>2, PTL DEF Spec

-----------------------------------------------------------------------------
(* Whom the handler works for.                                             *)

LEMMA StoreInitial == Init => StoreInv
BY DEF Init, StoreInv, OneRecordPerContent, HandlerInv, AnsweredKept, Recorded,
       Stored, Uploading, Unwritten, At, Idle

LEMMA StoreStep == TypeOK /\ StoreInv /\ [Next]_vars => StoreInv'
<1> SUFFICES ASSUME TypeOK, StoreInv, [Next]_vars PROVE StoreInv'
    OBVIOUS
<1> USE NoneIsNoContent
    DEF TypeOK, Phases, Idle, At, StoreInv, OneRecordPerContent, HandlerInv,
        AnsweredKept, Recorded, Stored, Uploading, Unwritten
<1>1. ASSUME NEW c \in Contents, UploadDuplicate(c) PROVE StoreInv'
    BY <1>1 DEF UploadDuplicate, vars
<1>2. ASSUME NEW c \in Contents, NEW id \in Ids, UploadCommit(id, c) PROVE StoreInv'
    BY <1>2 DEF UploadCommit, FreshIds, Known
<1>3. ASSUME NEW id \in Ids, Written(id) PROVE StoreInv'
    BY <1>3 DEF Written
<1>4. ASSUME NEW id \in Ids, NEW left \in {"none", "partial"}, WriteFailed(id, left)
      PROVE  StoreInv'
    BY <1>4 DEF WriteFailed
<1>5. ASSUME NEW id \in Ids, RollBack(id) PROVE StoreInv'
    BY <1>5 DEF RollBack
<1>6. ASSUME NEW F \in SUBSET Ids, BeginDelete(F) PROVE StoreInv'
    BY <1>6 DEF BeginDelete
<1>7. ASSUME NEW id \in Ids, Remove(id) PROVE StoreInv'
    BY <1>7 DEF Remove
<1>8. ASSUME NEW id \in Ids, RemoveFailed(id) PROVE StoreInv'
    BY <1>8 DEF RemoveFailed
<1>9. CASE CommitDelete
    BY <1>9 DEF CommitDelete
<1>10. CASE CommitFailed
    BY <1>10 DEF CommitFailed
<1>11. CASE Crash
    BY <1>11 DEF Crash
<1>12. CASE UNCHANGED vars
    BY <1>12 DEF vars
<1>13. CASE Refreshed
    BY <1>13 DEF Refreshed
<1>14. CASE RefreshFailed
    BY <1>14 DEF RefreshFailed, Fault
<1> QED
    BY <1>1, <1>2, <1>3, <1>4, <1>5, <1>6, <1>7, <1>8, <1>9, <1>10, <1>11, <1>12,
       <1>13, <1>14 DEF Next, Upload, Delete

LEMMA StoreHolds == Spec => [](TypeOK /\ StoreInv)
<1>1. Init => TypeOK /\ StoreInv
    BY TypeInitial, StoreInitial
<1>2. (TypeOK /\ StoreInv) /\ [Next]_vars => (TypeOK /\ StoreInv)'
    BY TypeStep, StoreStep
<1> QED
    BY <1>1, <1>2, PTL DEF Spec

\* An upload answered 200 stays stored until its deletion is asked for,
\* whatever fails or dies in other requests (upload.py:124-135).
THEOREM AnsweredHolds == Spec => []AnsweredKept
<1>1. StoreInv => AnsweredKept
    BY DEF StoreInv
<1> QED
    BY <1>1, StoreHolds, PTL
-----------------------------------------------------------------------------
(* What an orphan costs.                                                   *)

\* No step dooms a file, but a failed write or removal, and that one file.
LEMMA DoomedStep ==
    ASSUME TypeOK, StoreInv, [Next]_vars
    PROVE  \/ Doomed' \subseteq Doomed /\ faults' \in {faults, faults + 1}
           \/ \E x \in Ids : Doomed' \subseteq Doomed \cup {x} /\ faults' = faults + 1
<1> DEFINE Goal ==
        \/ Doomed' \subseteq Doomed /\ faults' \in {faults, faults + 1}
        \/ \E x \in Ids : Doomed' \subseteq Doomed \cup {x} /\ faults' = faults + 1
<1> SUFFICES Goal
    OBVIOUS
<1> USE NoneIsNoContent
    DEF TypeOK, Idle, At, StoreInv, HandlerInv, Recorded, Uploading, Unwritten, Doomed
<1>1. ASSUME NEW c \in Contents, UploadDuplicate(c) PROVE Goal
    BY <1>1 DEF UploadDuplicate, vars
<1>2. ASSUME NEW c \in Contents, NEW id \in Ids, UploadCommit(id, c) PROVE Goal
    BY <1>2 DEF UploadCommit, FreshIds
<1>3. ASSUME NEW id \in Ids, Written(id) PROVE Goal
    BY <1>3 DEF Written
<1>4. ASSUME NEW id \in Ids, NEW left \in {"none", "partial"}, WriteFailed(id, left)
      PROVE  Goal
    <2>1. Doomed' \subseteq Doomed \cup {id}
        BY <1>4 DEF WriteFailed
    <2>2. faults' = faults + 1
        BY <1>4 DEF WriteFailed, Fault
    <2> QED
        BY <2>1, <2>2
<1>5. ASSUME NEW id \in Ids, RollBack(id) PROVE Goal
    BY <1>5 DEF RollBack
<1>6. ASSUME NEW F \in SUBSET Ids, BeginDelete(F) PROVE Goal
    BY <1>6 DEF BeginDelete
<1>7. ASSUME NEW id \in Ids, Remove(id) PROVE Goal
    BY <1>7 DEF Remove
<1>8. ASSUME NEW id \in Ids, RemoveFailed(id) PROVE Goal
    <2>1. Doomed' \subseteq Doomed \cup {id}
        BY <1>8 DEF RemoveFailed
    <2>2. faults' = faults + 1
        BY <1>8 DEF RemoveFailed, Fault
    <2> QED
        BY <2>1, <2>2
<1>9. CASE CommitDelete
    BY <1>9 DEF CommitDelete
<1>10. CASE CommitFailed
    BY <1>10 DEF CommitFailed, Fault
<1>11. CASE Crash
    BY <1>11 DEF Crash
<1>12. CASE UNCHANGED vars
    BY <1>12 DEF vars
<1>13. CASE Refreshed
    BY <1>13 DEF Refreshed
<1>14. CASE RefreshFailed
    BY <1>14 DEF RefreshFailed, Fault
<1> QED
    BY <1>1, <1>2, <1>3, <1>4, <1>5, <1>6, <1>7, <1>8, <1>9, <1>10, <1>11, <1>12,
       <1>13, <1>14 DEF Next, Upload, Delete

LEMMA GrowsByOne ==
    ASSUME NEW S, NEW x, NEW T \in SUBSET (S \cup {x}), IsFiniteSet(S)
    PROVE  /\ IsFiniteSet(T) /\ Cardinality(T) <= Cardinality(S) + 1
           /\ Cardinality(T) \in Nat /\ Cardinality(S) \in Nat
<1>1. /\ IsFiniteSet(S \cup {x})
      /\ Cardinality(S \cup {x}) = IF x \in S THEN Cardinality(S) ELSE Cardinality(S) + 1
    BY FS_AddElement
<1>2. IsFiniteSet(T) /\ Cardinality(T) <= Cardinality(S \cup {x})
    BY <1>1, FS_Subset
<1>3. Cardinality(S) \in Nat /\ Cardinality(T) \in Nat
    BY <1>2, FS_CardinalityType
<1> QED
    BY <1>1, <1>2, <1>3

CostInv == IsFiniteSet(Doomed) /\ Cardinality(Doomed) <= faults

LEMMA CostStep == TypeOK /\ StoreInv /\ CostInv /\ [Next]_vars => CostInv'
<1> SUFFICES ASSUME TypeOK, StoreInv, CostInv, [Next]_vars PROVE CostInv'
    OBVIOUS
<1>1. faults \in Nat /\ IsFiniteSet(Doomed) /\ Cardinality(Doomed) <= faults
    BY DEF TypeOK, CostInv
<1>2. CASE Doomed' \subseteq Doomed /\ faults' \in {faults, faults + 1}
    <2>1. IsFiniteSet(Doomed') /\ Cardinality(Doomed') <= Cardinality(Doomed)
        BY <1>1, <1>2, FS_Subset
    <2> QED
        BY <1>1, <1>2, <2>1, FS_CardinalityType DEF CostInv
<1>3. ASSUME NEW x \in Ids, Doomed' \subseteq Doomed \cup {x}, faults' = faults + 1
      PROVE  CostInv'
    BY <1>1, <1>3, GrowsByOne DEF CostInv
<1> QED
    BY <1>2, <1>3, DoomedStep

\* A file without a record costs a failed write or removal, one each: no
\* crash leaves one, wherever it comes between a commit and a write
\* (upload.py:121-125, status.py:145-159).
THEOREM OrphansHold == Spec => []OrphansCostFaults
<1>1. Init => CostInv
    <2>1. ASSUME Init PROVE Doomed = {} /\ faults = 0
        BY <2>1 DEF Init, Doomed
    <2> QED
        BY <2>1, FS_EmptySet DEF CostInv
<1>2. TypeOK /\ CostInv => OrphansCostFaults
    <2> SUFFICES ASSUME TypeOK, CostInv PROVE Cardinality(Orphans) <= faults
        BY DEF OrphansCostFaults
    <2>1. Orphans \in SUBSET Doomed
        BY DEF Orphans, Doomed
    <2>2. Cardinality(Orphans) <= Cardinality(Doomed) /\ IsFiniteSet(Orphans)
        BY <2>1, FS_Subset DEF CostInv
    <2>3. Cardinality(Orphans) \in Nat /\ Cardinality(Doomed) \in Nat
        BY <2>2, FS_CardinalityType DEF CostInv
    <2> QED
        BY <2>2, <2>3 DEF CostInv, TypeOK
<1> QED
    BY <1>1, <1>2, CostStep, StoreHolds, PTL DEF Spec

-----------------------------------------------------------------------------
(* What a hollow record costs.                                             *)

\* The hollow records that a failed re-read left, and the others.
Missed == Hollow \cap unread
Broken == Hollow \ unread

\* The crashes and faults not yet spent on a hollow record, of which a failed
\* write that has still to be rolled back holds one.
Slack == 2 * crashes + faults - (IF At("rollback") THEN 1 ELSE 0)

LEMMA SlackType == TypeOK => Slack \in Int /\ crashes \in Nat /\ faults \in Nat
BY BoundsAssumption DEF TypeOK, Slack

\* No step costs more than it pays: two for a record broken, one for one missed.
LEMMA HollowStep ==
    ASSUME TypeOK, StoreInv, [Next]_vars
    PROVE  \/ /\ Broken' \subseteq Broken /\ Missed' \subseteq Missed
              /\ Slack' >= Slack
           \/ \E x \in Ids :
                 /\ Broken' \subseteq Broken \cup {x} /\ Missed' \subseteq Missed
                 /\ Slack' >= Slack + 2
           \/ \E x \in Ids :
                 /\ Broken' \subseteq Broken /\ Missed' \subseteq Missed \cup {x}
                 /\ Slack' >= Slack + 1
<1> DEFINE Kept == Broken' \subseteq Broken /\ Missed' \subseteq Missed
           Breaks(x) == Broken' \subseteq Broken \cup {x} /\ Missed' \subseteq Missed
           Misses(x) == Broken' \subseteq Broken /\ Missed' \subseteq Missed \cup {x}
           Goal == \/ Kept /\ Slack' >= Slack
                   \/ \E x \in Ids : Breaks(x) /\ Slack' >= Slack + 2
                   \/ \E x \in Ids : Misses(x) /\ Slack' >= Slack + 1
<1>0. Slack \in Int /\ crashes \in Nat /\ faults \in Nat
    BY SlackType
<1> USE NoneIsNoContent
    DEF TypeOK, Idle, At, StoreInv, HandlerInv, Recorded, Stored, Uploading,
        Unwritten, Hollow, Broken, Missed
<1>1. ASSUME NEW c \in Contents, UploadDuplicate(c) PROVE Goal
    BY <1>0, <1>1 DEF UploadDuplicate, vars, Slack
<1>2. ASSUME NEW c \in Contents, NEW id \in Ids, UploadCommit(id, c) PROVE Goal
    <2>1. Kept
        BY <1>2 DEF UploadCommit, FreshIds
    <2> QED
        BY <2>1, <1>0, <1>2 DEF UploadCommit, Slack
<1>3. ASSUME NEW id \in Ids, Written(id) PROVE Goal
    <2>1. Kept
        BY <1>3 DEF Written
    <2> QED
        BY <2>1, <1>0, <1>3 DEF Written, Slack
<1>4. ASSUME NEW id \in Ids, NEW left \in {"none", "partial"}, WriteFailed(id, left)
      PROVE  Goal
    <2>1. Kept
        BY <1>4 DEF WriteFailed
    <2> QED
        BY <2>1, <1>0, <1>4 DEF WriteFailed, Fault, Slack
<1>5. ASSUME NEW id \in Ids, RollBack(id) PROVE Goal
    <2>1. Kept
        BY <1>5 DEF RollBack
    <2> QED
        BY <2>1, <1>0, <1>5 DEF RollBack, Slack
<1>6. ASSUME NEW F \in SUBSET Ids, BeginDelete(F) PROVE Goal
    <2>1. Kept
        BY <1>6 DEF BeginDelete
    <2> QED
        BY <2>1, <1>0, <1>6 DEF BeginDelete, Slack
<1>7. ASSUME NEW id \in Ids, Remove(id) PROVE Goal
    <2>1. Kept
        BY <1>7 DEF Remove
    <2> QED
        BY <2>1, <1>0, <1>7 DEF Remove, Slack
<1>8. ASSUME NEW id \in Ids, RemoveFailed(id) PROVE Goal
    <2>1. Kept
        BY <1>8 DEF RemoveFailed
    <2> QED
        BY <2>1, <1>0, <1>8 DEF RemoveFailed, Fault, Slack
<1>9. ASSUME CommitDelete PROVE Goal
    <2>1. Kept
        BY <1>9 DEF CommitDelete
    <2> QED
        BY <2>1, <1>0, <1>9 DEF CommitDelete, Slack
<1>10. ASSUME CommitFailed PROVE Goal
    <2>1. CASE At("removing")
        <3>1. Kept
            BY <1>10, <2>1 DEF CommitFailed
        <3> QED
            BY <3>1, <2>1, <1>0, <1>10 DEF CommitFailed, Fault, Slack
    <2>2. CASE At("rollback")
        <3>1. PICK id \in Ids : handler.ids = {id}
            BY <2>2
        <3>2. Breaks(id)
            BY <1>10, <3>1 DEF CommitFailed
        <3>3. Slack' >= Slack + 2
            BY <2>2, <1>0, <1>10 DEF CommitFailed, Fault, Slack
        <3> QED
            BY <3>2, <3>3
    <2> QED
        BY <1>10, <2>1, <2>2 DEF CommitFailed
<1>11. ASSUME Crash PROVE Goal
    <2>1. Slack' >= Slack + 2
        BY <1>0, <1>11 DEF Crash, Slack
    <2>2. CASE Uploading
        <3>1. PICK id \in Ids : handler.ids = {id}
            BY <2>2
        <3>2. Breaks(id)
            BY <1>11, <3>1 DEF Crash
        <3> QED
            BY <2>1, <3>2
    <2>3. CASE ~Uploading
        <3>1. Kept
            BY <1>11, <2>3 DEF Crash, Phases
        <3> QED
            BY <2>1, <3>1, <1>0, <1>11 DEF Crash, Slack
    <2> QED
        BY <2>2, <2>3
<1>12. ASSUME UNCHANGED vars PROVE Goal
    BY <1>0, <1>12 DEF vars, Slack
<1>13. ASSUME Refreshed PROVE Goal
    <2>1. Kept
        BY <1>13 DEF Refreshed
    <2> QED
        BY <2>1, <1>0, <1>13 DEF Refreshed, Slack
<1>14. ASSUME RefreshFailed PROVE Goal
    <2>1. PICK id \in Ids : handler.ids = {id}
        BY <1>14 DEF RefreshFailed
    <2>2. Misses(id)
        BY <1>14, <2>1 DEF RefreshFailed
    <2>3. Slack' >= Slack + 1
        BY <1>0, <1>14 DEF RefreshFailed, Fault, Slack
    <2> QED
        BY <2>2, <2>3
<1> HIDE DEF Goal
<1>15. Goal
    BY <1>1, <1>2, <1>3, <1>4, <1>5, <1>6, <1>7, <1>8, <1>9, <1>10, <1>11, <1>12,
       <1>13, <1>14 DEF Next, Upload, Delete
<1> QED
    BY <1>15 DEF Goal

HollowInv ==
    /\ IsFiniteSet(Broken) /\ IsFiniteSet(Missed)
    /\ 2 * Cardinality(Broken) + Cardinality(Missed) <= Slack

LEMMA Shrinks ==
    ASSUME NEW S, NEW T \in SUBSET S, IsFiniteSet(S)
    PROVE  /\ IsFiniteSet(T) /\ Cardinality(T) <= Cardinality(S)
           /\ Cardinality(T) \in Nat /\ Cardinality(S) \in Nat
BY FS_Subset, FS_CardinalityType

LEMMA HollowKept == TypeOK /\ StoreInv /\ HollowInv /\ [Next]_vars => HollowInv'
<1> SUFFICES ASSUME TypeOK, TypeOK', StoreInv, HollowInv, [Next]_vars PROVE HollowInv'
    BY TypeStep
<1>1. /\ Slack \in Int /\ Slack' \in Int
      /\ IsFiniteSet(Broken) /\ IsFiniteSet(Missed)
      /\ 2 * Cardinality(Broken) + Cardinality(Missed) <= Slack
    BY SlackType DEF HollowInv, TypeOK, Slack
<1>2. CASE /\ Broken' \subseteq Broken /\ Missed' \subseteq Missed
           /\ Slack' >= Slack
    <2>1. /\ IsFiniteSet(Broken') /\ Cardinality(Broken') <= Cardinality(Broken)
          /\ Cardinality(Broken') \in Nat /\ Cardinality(Broken) \in Nat
        BY <1>1, <1>2, Shrinks
    <2>2. /\ IsFiniteSet(Missed') /\ Cardinality(Missed') <= Cardinality(Missed)
          /\ Cardinality(Missed') \in Nat /\ Cardinality(Missed) \in Nat
        BY <1>1, <1>2, Shrinks
    <2> QED
        BY <1>1, <1>2, <2>1, <2>2 DEF HollowInv
<1>3. ASSUME NEW x \in Ids, Broken' \subseteq Broken \cup {x},
             Missed' \subseteq Missed, Slack' >= Slack + 2
      PROVE  HollowInv'
    <2>1. /\ IsFiniteSet(Broken') /\ Cardinality(Broken') <= Cardinality(Broken) + 1
          /\ Cardinality(Broken') \in Nat /\ Cardinality(Broken) \in Nat
        BY <1>1, <1>3, GrowsByOne
    <2>2. /\ IsFiniteSet(Missed') /\ Cardinality(Missed') <= Cardinality(Missed)
          /\ Cardinality(Missed') \in Nat /\ Cardinality(Missed) \in Nat
        BY <1>1, <1>3, Shrinks
    <2> QED
        BY <1>1, <1>3, <2>1, <2>2 DEF HollowInv
<1>4. ASSUME NEW x \in Ids, Broken' \subseteq Broken,
             Missed' \subseteq Missed \cup {x}, Slack' >= Slack + 1
      PROVE  HollowInv'
    <2>1. /\ IsFiniteSet(Broken') /\ Cardinality(Broken') <= Cardinality(Broken)
          /\ Cardinality(Broken') \in Nat /\ Cardinality(Broken) \in Nat
        BY <1>1, <1>4, Shrinks
    <2>2. /\ IsFiniteSet(Missed') /\ Cardinality(Missed') <= Cardinality(Missed) + 1
          /\ Cardinality(Missed') \in Nat /\ Cardinality(Missed) \in Nat
        BY <1>1, <1>4, GrowsByOne
    <2> QED
        BY <1>1, <1>4, <2>1, <2>2 DEF HollowInv
<1> QED
    BY <1>2, <1>3, <1>4, HollowStep

\* A record without its whole audio that nobody asked to delete costs a crash
\* or two failures, or the one failure of the re-read at upload.py:122.
THEOREM HollowHolds == Spec => []HollowRecordsCost
<1>1. Init => HollowInv
    <2>1. ASSUME Init PROVE Broken = {} /\ Missed = {}
        BY <2>1 DEF Init, Broken, Missed, Hollow, Recorded, Stored, Idle
    <2>2. ASSUME Init PROVE Slack = 0
        <3>1. handler.pc # "rollback" /\ crashes = 0 /\ faults = 0
            BY <2>2 DEF Init, Idle
        <3>2. Slack = 2 * crashes + faults - 0
            BY <3>1 DEF Slack, At
        <3> QED
            BY <3>1, <3>2
    <2> QED
        BY <2>1, <2>2, FS_EmptySet DEF HollowInv
<1>2. TypeOK /\ HollowInv => HollowRecordsCost
    BY SlackType, FS_CardinalityType
    DEF HollowInv, HollowRecordsCost, Broken, Missed, Slack
<1> QED
    BY <1>1, <1>2, HollowKept, StoreHolds, PTL DEF Spec

-----------------------------------------------------------------------------
(* The refinement of AudioStore.                                           *)

Held == {record[id] : id \in Stored}
Wanted == {record[id] : id \in Stored \ asked}

LEMMA StoreRefines ==
    ASSUME TypeOK, StoreInv, [Next]_vars
    PROVE  [Store!Next]_<<Held, Wanted>>
<1> DEFINE Quiet == UNCHANGED <<Held, Wanted>>
           Goal == [Store!Next]_<<Held, Wanted>>
<1> USE NoneIsNoContent
    DEF TypeOK, Phases, Idle, At, StoreInv, OneRecordPerContent, HandlerInv,
        Recorded, Stored, Uploading, Unwritten, Held, Wanted
<1>1. ASSUME NEW c \in Contents, UploadDuplicate(c) PROVE Quiet
    BY <1>1 DEF UploadDuplicate, vars
<1>2. ASSUME NEW c \in Contents, NEW id \in Ids, UploadCommit(id, c) PROVE Quiet
    <2>1. Stored' = Stored /\ (Stored \ asked)' = Stored \ asked
        BY <1>2 DEF UploadCommit, FreshIds
    <2>2. \A i \in Stored : record'[i] = record[i]
        BY <1>2 DEF UploadCommit, FreshIds
    <2> QED
        BY <2>1, <2>2
<1>3. ASSUME NEW id \in Ids, disk' = [disk EXCEPT ![id] = "whole"], At("writing"),
             id \in handler.ids, UNCHANGED <<record, asked>>
      PROVE  \E c \in Contents : Store!Keep(c)
    <2>1. Stored' = Stored \cup {id} /\ id \notin Stored /\ id \notin asked
        BY <1>3
    <2>2. record[id] \notin Held /\ record[id] \in Contents
        BY <2>1, <1>3
    <2>3. Held' = Held \cup {record[id]} /\ Wanted' = Wanted \cup {record[id]}
        BY <2>1, <1>3
    <2> QED
        BY <2>2, <2>3 DEF Store!Keep
<1>4. ASSUME NEW id \in Ids, NEW left \in {"none", "partial"}, WriteFailed(id, left)
      PROVE  Quiet
    <2>1. Stored' = Stored
        BY <1>4 DEF WriteFailed
    <2> QED
        BY <2>1, <1>4 DEF WriteFailed
<1>5. ASSUME NEW id \in Ids, RollBack(id) PROVE Quiet
    <2>1. Stored' = Stored /\ \A i \in Stored : record'[i] = record[i]
        BY <1>5 DEF RollBack
    <2> QED
        BY <2>1, <1>5 DEF RollBack
<1>6. ASSUME NEW F \in SUBSET Ids, BeginDelete(F) PROVE \E C \in SUBSET Contents : Store!Ask(C)
    <2> DEFINE C == {record[i] : i \in F}
    <2>1. C \in SUBSET Contents
        BY <1>6 DEF BeginDelete
    <2>2. Held' = Held
        BY <1>6 DEF BeginDelete
    <2>3. Wanted' = Wanted \ C
        BY <1>6 DEF BeginDelete
    <2> QED
        BY <2>1, <2>2, <2>3 DEF Store!Ask
<1>7. ASSUME NEW id \in Ids, Remove(id) PROVE \E C \in SUBSET Contents : Store!Drop(C)
    <2> DEFINE C == {record[i] : i \in Stored \cap {id}}
    <2>1. Stored' = Stored \ {id} /\ id \in asked
        BY <1>7 DEF Remove
    <2>2. Held' = Held \ C /\ Wanted' = Wanted
        BY <2>1, <1>7 DEF Remove
    <2>3. C \in SUBSET Contents /\ C \subseteq Held \ Wanted
        BY <2>1
    <2> QED
        BY <2>2, <2>3 DEF Store!Drop
<1>8. ASSUME NEW id \in Ids, RemoveFailed(id) PROVE Quiet
    BY <1>8 DEF RemoveFailed
<1>9. ASSUME CommitDelete PROVE \E C \in SUBSET Contents : Store!Drop(C)
    <2> DEFINE C == {record[i] : i \in Stored \cap handler.ids}
    <2>1. Stored' = Stored \ handler.ids /\ handler.ids \subseteq asked
        BY <1>9 DEF CommitDelete
    <2>2. \A i \in Stored' : record'[i] = record[i]
        BY <2>1, <1>9 DEF CommitDelete
    <2>3. Held' = Held \ C /\ Wanted' = Wanted
        BY <2>1, <2>2, <1>9 DEF CommitDelete
    <2>4. C \in SUBSET Contents /\ C \subseteq Held \ Wanted
        BY <2>1
    <2> QED
        BY <2>3, <2>4 DEF Store!Drop
<1>10. ASSUME CommitFailed PROVE Quiet
    BY <1>10 DEF CommitFailed
<1>11. ASSUME Crash PROVE Goal
    <2>1. PICK left \in {"none", "partial", "whole"} :
              disk' = [id \in Ids |-> IF At("writing") /\ id \in handler.ids
                                      THEN left ELSE disk[id]]
        BY <1>11 DEF Crash
    <2>2. CASE At("writing") /\ left = "whole"
        <3>1. PICK id \in Ids : handler.ids = {id}
            BY <2>2
        <3>2. disk' = [disk EXCEPT ![id] = "whole"]
            BY <2>1, <2>2, <3>1
        <3>3. \E c \in Contents : Store!Keep(c)
            BY <1>3, <1>11, <2>2, <3>1, <3>2 DEF Crash
        <3> QED
            BY <3>3 DEF Store!Next
    <2>3. CASE ~(At("writing") /\ left = "whole")
        <3>1. Stored' = Stored
            BY <1>11, <2>1, <2>3 DEF Crash
        <3>2. record' = record /\ asked' = asked
            BY <1>11 DEF Crash
        <3>3. Quiet
            BY <3>1, <3>2
        <3> QED
            BY <3>3
    <2> QED
        BY <2>2, <2>3
<1>12. ASSUME UNCHANGED vars PROVE Quiet
    BY <1>12 DEF vars
<1>13. ASSUME Refreshed \/ RefreshFailed PROVE Quiet
    BY <1>13 DEF Refreshed, RefreshFailed
<1>14. ASSUME NEW id \in Ids, Written(id) PROVE Goal
    <2>1. \E c \in Contents : Store!Keep(c)
        BY <1>3, <1>14 DEF Written
    <2> QED
        BY <2>1 DEF Store!Next
<1>15. /\ Quiet => Goal
       /\ (\E C \in SUBSET Contents : Store!Ask(C)) => Goal
       /\ (\E C \in SUBSET Contents : Store!Drop(C)) => Goal
    BY DEF Store!Next
<1> HIDE DEF Quiet, Goal
<1>16. Goal
    BY <1>1, <1>2, <1>4, <1>5, <1>6, <1>7, <1>8, <1>9, <1>10, <1>11, <1>12, <1>13,
       <1>14, <1>15 DEF Next, Upload, Delete
<1> QED
    BY <1>16 DEF Goal

\* The table and the directory, written one after the other, are one store:
\* every step of a request, of a fault or of a crash is a Keep, an Ask, a Drop
\* or a stutter of AudioStore.
THEOREM StoreImplemented == Spec => ImplementsAudioStore
<1>1. Init => Store!Init
    BY DEF Init, Store!Init, Stored, Recorded
<1>2. TypeOK /\ StoreInv /\ [Next]_vars => [Store!Next]_Store!vars
    BY StoreRefines DEF Held, Wanted, Store!vars, Store!Next, Store!Keep, Store!Ask,
       Store!Drop
<1> QED
    BY <1>1, <1>2, StoreHolds, PTL DEF Spec, ImplementsAudioStore, Store!Spec
=============================================================================
