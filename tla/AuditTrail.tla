----------------------------- MODULE AuditTrail -----------------------------
(***************************************************************************)
(* The audit trail of core/audit/trail.py: insert writes one record,       *)
(* archive moves the old ones to audit_archive, a copy and a deletion in   *)
(* one transaction of PostgreSQL under READ COMMITTED.  Each statement     *)
(* sees what was committed when it began, so the two statements of one     *)
(* archive may see different records.  Contents of records are left out:   *)
(* a record is its key and the time it was made, which is earlier than the *)
(* time it is written.                                                     *)
(***************************************************************************)
EXTENDS Naturals, FiniteSets

CONSTANTS
    Records,    \* record_ids
    Jobs,       \* calls of archive that may be under way at the same time
    Ages,       \* values of older_than_days
    MaxClock,   \* bound on the days that pass
    MaxFaults   \* bound on statements and answers that fail

AuditAssumption ==
    /\ Ages \subseteq Nat
    /\ {MaxClock, MaxFaults} \subseteq Nat

VARIABLES
    clock,    \* today
    made,     \* created_at of each record
    insert,   \* what became of the insert of each record
    trail,    \* the table audit_trail, as committed
    archive,  \* the table audit_archive, as committed
    job,      \* each archive's transaction: cutoff, copies and deletions
    faults,   \* failures so far
    late      \* history: records written behind the cutoff of a running archive

vars == <<clock, made, insert, trail, archive, job, faults, late>>

Idle == [at |-> "idle", cutoff |-> 0, copied |-> {}, deleted |-> {}]

TypeOK ==
    /\ clock \in 0 .. MaxClock
    /\ made \in [Records -> 0 .. MaxClock]
    /\ insert \in [Records -> {"none", "sent", "ok", "error"}]
    /\ trail \subseteq Records
    /\ archive \subseteq Records
    /\ job \in [Jobs -> [at : {"idle", "copy", "insert", "delete", "commit"},
                         cutoff : Nat, copied : SUBSET Records, deleted : SUBSET Records]]
    /\ faults \in 0 .. MaxFaults
    /\ late \subseteq Records

Init ==
    /\ clock = 0
    /\ made = [r \in Records |-> 0]
    /\ insert = [r \in Records |-> "none"]
    /\ trail = {}
    /\ archive = {}
    /\ job = [j \in Jobs |-> Idle]
    /\ faults = 0
    /\ late = {}

-----------------------------------------------------------------------------
Fault == faults < MaxFaults /\ faults' = faults + 1

Tick ==
    /\ clock < MaxClock
    /\ clock' = clock + 1
    /\ UNCHANGED <<made, insert, trail, archive, job, faults, late>>

\* AuditRecord(...): record_id and created_at get their defaults; insert is called.
NewRecord(r) ==
    /\ insert[r] = "none"
    /\ made' = [made EXCEPT ![r] = clock]
    /\ insert' = [insert EXCEPT ![r] = "sent"]
    /\ UNCHANGED <<clock, trail, archive, job, faults, late>>

\* Archives that have selected without r and will delete it.
Overtaken(r) == {j \in Jobs : job[j].at \in {"insert", "delete"} /\ made[r] < job[j].cutoff}

\* The row is there, and nobody knows yet.
Store(r) ==
    /\ insert[r] = "sent"
    /\ trail' = trail \cup {r}
    /\ late' = IF Overtaken(r) = {} THEN late ELSE late \cup {r}

\* insert returns the record_id.
Insert(r) ==
    /\ Store(r)
    /\ insert' = [insert EXCEPT ![r] = "ok"]
    /\ UNCHANGED <<clock, made, archive, job, faults>>

\* The reply is lost: AuditError, although the row is there.
InsertLost(r) ==
    /\ Fault
    /\ Store(r)
    /\ insert' = [insert EXCEPT ![r] = "error"]
    /\ UNCHANGED <<clock, made, archive, job>>

InsertFails(r) ==
    /\ Fault
    /\ insert[r] = "sent"
    /\ insert' = [insert EXCEPT ![r] = "error"]
    /\ UNCHANGED <<clock, made, trail, archive, job, late>>

-----------------------------------------------------------------------------
(* archive.                                                                *)

Old(j) == {r \in trail : made[r] < job[j].cutoff}

\* The cutoff is computed and the transaction begins.
Archive(j) ==
    /\ job[j] = Idle
    /\ \E age \in Ages :
         /\ age <= clock
         /\ job' = [job EXCEPT ![j] = [Idle EXCEPT !.at = "copy", !.cutoff = clock - age]]
    /\ UNCHANGED <<clock, made, insert, trail, archive, faults, late>>

\* INSERT INTO audit_archive SELECT: what it sees when it begins.
SelectOld(j) ==
    /\ job[j].at = "copy"
    /\ job' = [job EXCEPT ![j].at = "insert", ![j].copied = Old(j)]
    /\ UNCHANGED <<clock, made, insert, trail, archive, faults, late>>

\* Its rows, where no other transaction is about to insert one of them: the primary key
\* makes it wait for that one to end.
Free(j) == \A k \in Jobs \ {j} : job[k].at \in {"delete", "commit"} =>
                                    job[k].copied \cap job[j].copied = {}

CopyOld(j) ==
    /\ job[j].at = "insert"
    /\ Free(j)
    /\ job[j].copied \cap archive = {}
    /\ job' = [job EXCEPT ![j].at = "delete"]
    /\ UNCHANGED <<clock, made, insert, trail, archive, faults, late>>

\* The archive has one of them already: the statement raises, the transaction is rolled
\* back and archive raises AuditError.
CopyCollides(j) ==
    /\ job[j].at = "insert"
    /\ Free(j)
    /\ job[j].copied \cap archive # {}
    /\ job' = [job EXCEPT ![j] = Idle]
    /\ UNCHANGED <<clock, made, insert, trail, archive, faults, late>>

\* Faulty variant: the two statements disagree about a record made at the cutoff.
DeleteUpTo(j) ==
    /\ job[j].at = "delete"
    /\ job' = [job EXCEPT ![j].at = "commit",
                          ![j].deleted = {r \in trail : made[r] <= job[j].cutoff}]
    /\ UNCHANGED <<clock, made, insert, trail, archive, faults, late>>

\* DELETE, which waits for other deletions of the same rows.
DeleteOld(j) ==
    /\ job[j].at = "delete"
    /\ \A k \in Jobs \ {j} : job[k].deleted \cap Old(j) = {}
    /\ job' = [job EXCEPT ![j].at = "commit", ![j].deleted = Old(j)]
    /\ UNCHANGED <<clock, made, insert, trail, archive, faults, late>>

\* The transaction commits; archive returns the number of deleted rows, or raises when
\* the reply is lost.
Commit(j) ==
    /\ job[j].at = "commit"
    /\ archive' = archive \cup job[j].copied
    /\ trail' = trail \ job[j].deleted
    /\ job' = [job EXCEPT ![j] = Idle]
    /\ UNCHANGED <<clock, made, insert, faults, late>>

\* A statement fails, the connection breaks or the process dies: a rollback.
ArchiveFails(j) ==
    /\ Fault
    /\ job[j].at # "idle"
    /\ job' = [job EXCEPT ![j] = Idle]
    /\ UNCHANGED <<clock, made, insert, trail, archive, late>>

-----------------------------------------------------------------------------
Next ==
    \/ Tick
    \/ \E r \in Records : NewRecord(r) \/ Insert(r) \/ InsertLost(r) \/ InsertFails(r)
    \/ \E j \in Jobs :
         \/ Archive(j) \/ SelectOld(j) \/ CopyOld(j) \/ CopyCollides(j)
         \/ DeleteOld(j) \/ Commit(j) \/ ArchiveFails(j)

Spec == Init /\ [][Next]_vars

-----------------------------------------------------------------------------
(* Properties.                                                             *)

\* A record whose insert returned is in one of the two tables and in no more than one,
\* whatever archives overlap and fail, and it is in the archive only when it is older than
\* the age some archive was called with.  (One that is written between the two statements
\* of an archive and is already older than the cutoff is deleted without a copy.)
RecordsKept ==
    /\ trail \cap archive = {}
    /\ \A r \in Records \ late : insert[r] = "ok" => r \in trail \cup archive
    /\ \A r \in archive : \E age \in Ages : made[r] + age < clock
=============================================================================
