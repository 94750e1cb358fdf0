----------------------------- MODULE UploadStore ----------------------------
(***************************************************************************)
(* The audio files of INPUT_DIR and the rows of `files` that name them:    *)
(* upload_file of routes/upload.py, delete_file and batch_delete of        *)
(* routes/status.py.  Two stores, no common transaction: every handler     *)
(* commits to the table and writes to the directory in separate steps.     *)
(*                                                                         *)
(* From the duplicate check to its end no handler awaits, so `handler` is  *)
(* the one at work; what can come between its steps is an I/O error or the *)
(* death of the process.                                                   *)
(***************************************************************************)
EXTENDS Naturals, FiniteSets

CONSTANTS
    Contents,    \* what may be uploaded, told apart by its SHA-256
    Ids,         \* FileRecord.id, also the prefix of the file's name
    MaxCrashes,  \* bound: restarts of the server process
    MaxFaults,   \* bound: failed writes, removals, commits and re-reads
    None

ASSUME NoneIsNoContent == None \notin Contents

ASSUME IdsFinite == IsFiniteSet(Ids)

ASSUME BoundsAssumption == MaxCrashes \in Nat /\ MaxFaults \in Nat

VARIABLES
    record,    \* files.sha256 by id; None when the table has no such row
    disk,      \* the file at the local_path of the id
    handler,   \* the request handler at work
    asked,     \* history: ids whose deletion a user has asked for
    answered,  \* history: ids whose upload was answered 200
    unread,    \* history: ids whose upload ended at session.refresh
    crashes, faults

vars == <<record, disk, handler, asked, answered, unread, crashes, faults>>

\* upload_file after its commit, in write_bytes, and in the `except` of it; a
\* deletion with the files it has yet to remove.
Phases == {"idle", "committed", "writing", "rollback", "removing"}
Idle == [pc |-> "idle", ids |-> {}, todo |-> {}]

At(pc) == handler.pc = pc

Recorded == {id \in Ids : record[id] # None}
Stored == {id \in Recorded : disk[id] = "whole"}
Hollow == {id \in Recorded \ Stored : id \notin handler.ids \cup asked}
Orphans == {id \in Ids \ Recorded : disk[id] # "none"}

\* uuid4: the id of no row and of no file.
FreshIds == {id \in Ids \ Recorded : disk[id] = "none"}

\* Mutated: no duplicate check.
KnownNothing == {}

\* select(FileRecord).where(FileRecord.sha256 == sha256)
Known == {record[id] : id \in Recorded}

-----------------------------------------------------------------------------
(* upload_file                                                             *)

\* 409 for a content the table has.
UploadDuplicate(c) ==
    /\ At("idle")
    /\ c \in Known
    /\ UNCHANGED vars

UploadCommit(id, c) ==
    /\ At("idle")
    /\ c \notin Known
    /\ id \in FreshIds
    /\ record' = [record EXCEPT ![id] = c]
    /\ handler' = [pc |-> "committed", ids |-> {id}, todo |-> {}]
    /\ asked' = asked \ {id}
    /\ answered' = answered \ {id}
    /\ unread' = unread \ {id}
    /\ UNCHANGED <<disk, crashes, faults>>

\* session.refresh(record)
Refreshed ==
    /\ At("committed")
    /\ handler' = [handler EXCEPT !.pc = "writing"]
    /\ UNCHANGED <<record, disk, asked, answered, unread, crashes, faults>>

Fault ==
    /\ faults < MaxFaults
    /\ faults' = faults + 1

\* session.refresh raises, outside the `try`: 500, the record stays and its
\* file is never written.
RefreshFailed ==
    /\ At("committed")
    /\ Fault
    /\ handler' = Idle
    /\ unread' = unread \cup handler.ids
    /\ UNCHANGED <<record, disk, asked, answered, crashes>>

\* The file is there: enqueue, and 200.
Written(id) ==
    /\ At("writing") /\ id \in handler.ids
    /\ disk' = [disk EXCEPT ![id] = "whole"]
    /\ answered' = answered \cup {id}
    /\ handler' = Idle
    /\ UNCHANGED <<record, asked, unread, crashes, faults>>

\* write_bytes raises, having left nothing or a part of the file.
WriteFailed(id, left) ==
    /\ At("writing") /\ id \in handler.ids
    /\ Fault
    /\ disk' = [disk EXCEPT ![id] = left]
    /\ handler' = [handler EXCEPT !.pc = "rollback"]
    /\ UNCHANGED <<record, asked, answered, unread, crashes>>

\* Mutated: the deletion of the record is not committed.
RollBackUncommitted(id) ==
    /\ At("rollback") /\ id \in handler.ids
    /\ handler' = Idle
    /\ UNCHANGED <<record, disk, asked, answered, unread, crashes, faults>>

\* Mutated: the record is deleted, but nothing is raised.
RollBackAnswers(id) ==
    /\ At("rollback") /\ id \in handler.ids
    /\ record' = [record EXCEPT ![id] = None]
    /\ answered' = answered \cup {id}
    /\ handler' = Idle
    /\ UNCHANGED <<disk, asked, unread, crashes, faults>>

\* Mutated: the record is kept, marked as rolled back.
RollBackMarks(id) ==
    /\ At("rollback") /\ id \in handler.ids
    /\ record' = [record EXCEPT ![id] = "rolled back"]
    /\ handler' = Idle
    /\ UNCHANGED <<disk, asked, answered, unread, crashes, faults>>

\* The record goes, the part of the file stays, and 500.
RollBack(id) ==
    /\ At("rollback") /\ id \in handler.ids
    /\ record' = [record EXCEPT ![id] = None]
    /\ handler' = Idle
    /\ UNCHANGED <<disk, asked, answered, unread, crashes, faults>>

-----------------------------------------------------------------------------
(* delete_file of one id, batch_delete of several: the files go one by     *)
(* one, then all the records in one commit.                                *)

\* Mutated: the commit comes before the removals.
BeginDeleteCommitted(F) ==
    /\ At("idle")
    /\ F # {} /\ F \subseteq Recorded
    /\ record' = [id \in Ids |-> IF id \in F THEN None ELSE record[id]]
    /\ handler' = [pc |-> "removing", ids |-> F, todo |-> F]
    /\ asked' = asked \cup F
    /\ UNCHANGED <<disk, answered, unread, crashes, faults>>

BeginDelete(F) ==
    /\ At("idle")
    /\ F # {} /\ F \subseteq Recorded
    /\ handler' = [pc |-> "removing", ids |-> F, todo |-> F]
    /\ asked' = asked \cup F
    /\ UNCHANGED <<record, disk, answered, unread, crashes, faults>>

Remove(id) ==
    /\ At("removing") /\ id \in handler.todo
    /\ disk' = [disk EXCEPT ![id] = "none"]
    /\ handler' = [handler EXCEPT !.todo = @ \ {id}]
    /\ UNCHANGED <<record, asked, answered, unread, crashes, faults>>

\* os.remove raises an OSError, which is logged only.
RemoveFailed(id) ==
    /\ At("removing") /\ id \in handler.todo
    /\ disk[id] # "none"
    /\ Fault
    /\ handler' = [handler EXCEPT !.todo = @ \ {id}]
    /\ UNCHANGED <<record, disk, asked, answered, unread, crashes>>

CommitDelete ==
    /\ At("removing") /\ handler.todo = {}
    /\ record' = [id \in Ids |-> IF id \in handler.ids THEN None ELSE record[id]]
    /\ handler' = Idle
    /\ UNCHANGED <<disk, asked, answered, unread, crashes, faults>>

\* The last commit of the `except`, or of a deletion, raises: 500, and the
\* records stay.
CommitFailed ==
    /\ At("rollback") \/ (At("removing") /\ handler.todo = {})
    /\ Fault
    /\ handler' = Idle
    /\ UNCHANGED <<record, disk, asked, answered, unread, crashes>>

-----------------------------------------------------------------------------

\* The process dies.  A write it was at leaves nothing, a part, or the whole;
\* an uncommitted deletion leaves the records.  No step of the restart looks
\* at the directory.
Crash ==
    /\ crashes < MaxCrashes
    /\ crashes' = crashes + 1
    /\ \E left \in {"none", "partial", "whole"} :
          disk' = [id \in Ids |-> IF At("writing") /\ id \in handler.ids
                                  THEN left ELSE disk[id]]
    /\ handler' = Idle
    /\ UNCHANGED <<record, asked, answered, unread, faults>>

Init ==
    /\ record = [id \in Ids |-> None]
    /\ disk = [id \in Ids |-> "none"]
    /\ handler = Idle
    /\ asked = {}
    /\ answered = {}
    /\ unread = {}
    /\ crashes = 0
    /\ faults = 0

Upload ==
    \/ \E c \in Contents :
          UploadDuplicate(c) \/ \E id \in Ids : UploadCommit(id, c)
    \/ Refreshed
    \/ RefreshFailed
    \/ \E id \in Ids :
          \/ Written(id)
          \/ \E left \in {"none", "partial"} : WriteFailed(id, left)
          \/ RollBack(id)

Delete ==
    \/ \E F \in SUBSET Ids : BeginDelete(F)
    \/ \E id \in Ids : Remove(id) \/ RemoveFailed(id)
    \/ CommitDelete

Next == Upload \/ Delete \/ CommitFailed \/ Crash

Spec == Init /\ [][Next]_vars

-----------------------------------------------------------------------------
(* Properties.                                                             *)

\* A row is a content or none, a file whole, partial or none; a deletion works
\* through the ids it was given.
TypeOK ==
    /\ record \in [Ids -> Contents \cup {None}]
    /\ disk \in [Ids -> {"none", "partial", "whole"}]
    /\ handler \in [pc : Phases, ids : SUBSET Ids, todo : SUBSET Ids]
    /\ handler.todo \subseteq handler.ids
    /\ asked \subseteq Ids
    /\ answered \subseteq Ids
    /\ unread \subseteq Ids
    /\ crashes \in 0 .. MaxCrashes
    /\ faults \in 0 .. MaxFaults

\* An upload answered 200 stays, record and whole audio, until its own
\* deletion is asked for, whatever fails or dies in other requests.
AnsweredKept == answered \ asked \subseteq Stored

\* A file without a record costs a failed write or removal, one each.  No
\* crash, wherever it comes, leaves one: upload.py:109 "we never leave an
\* orphaned file with no record".
OrphansCostFaults == Cardinality(Orphans) <= faults

\* A record without its whole audio, which nobody asked to delete, costs a
\* crash after its commit, or two failures, of its write and of its rollback;
\* or a single one, if that is the re-read between the commit and the write,
\* which no `except` rolls back.  Of these upload.py:110 "never a committed
\* record without its file" has only the write.
HollowRecordsCost ==
    2 * Cardinality(Hollow \ unread) + Cardinality(Hollow \cap unread)
      <= 2 * crashes + faults

\* The table and the directory, seen together, are one store: contents enter
\* whole, once, and leave only on demand.
Store == INSTANCE AudioStore
    WITH held   <- {record[id] : id \in Stored},
         wanted <- {record[id] : id \in Stored \ asked}

ImplementsAudioStore == Store!Spec
=============================================================================
