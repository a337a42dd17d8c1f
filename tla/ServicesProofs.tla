--------------------------- MODULE ServicesProofs ---------------------------
(***************************************************************************)
(* Proofs about the parts of Services, for any values of the constants.    *)
(* For each part: the inductive invariant that its property needs, the     *)
(* steps that preserve it, and the property as a theorem of the whole.     *)
(***************************************************************************)
EXTENDS Services, TLAPS, Integers, FiniteSetTheorems, WellFoundedInduction

-----------------------------------------------------------------------------
(* A behaviour of the whole is one of each part.                           *)

LEMMA PartSteps ==
    [Next]_vars =>
      /\ Audit!Next \/ UNCHANGED auditVars
      /\ Transfer!Next \/ UNCHANGED transferVars
      /\ Start!Next \/ UNCHANGED startVars
      /\ Hardware!Next \/ UNCHANGED hardwareVars
      /\ Entrance!Next \/ UNCHANGED intakeVars
      /\ Post!Next \/ UNCHANGED postVars
      /\ Sorter!Next \/ UNCHANGED sorterVars
      /\ Catalog!Next \/ UNCHANGED documentVars
      /\ Dogs!Next \/ UNCHANGED dogVars
      /\ Routing!Next \/ UNCHANGED routingVars
  BY DEF Next, vars, ServicesStep, RecordsStep, servicesVars, recordsVars

LEMMA PartInits == Init
  => Audit!Init /\ Transfer!Init /\ Start!Init /\ Hardware!Init /\ Entrance!Init /\ Post!Init
       /\ Sorter!Init /\ Catalog!Init /\ Dogs!Init /\ Routing!Init
  BY DEF Init

-----------------------------------------------------------------------------
(* The audit trail.                                                        *)
(* RecordsKept is not inductive: it holds because of what a transaction    *)
(* has read before it commits.  JobInv says it: what an archive copies is  *)
(* old and was written (CopiesOld); what it is about to delete it has      *)
(* copied, but for the late ones, first as a promise about the whole table *)
(* (PromiseInv) and then as a fact about its deletions (DeletionInv).      *)

LEMMA AuditPart == Spec => Audit!Spec
<1>1. [Next]_vars => [Audit!Next]_(Audit!vars)
  BY PartSteps DEF auditVars, Audit!vars
<1> QED
  BY <1>1, PartInits, PTL DEF Spec, Audit!Spec

\* The steps of an archive after its first statement.
Selected(j) == job[j].at \in {"insert", "delete", "commit"}

\* Only records whose insert was sent off and has come to an end are in a table.
Written == {r \in Records : insert[r] \in {"ok", "error"}}

WrittenInv ==
    /\ trail \subseteq Written
    /\ archive \subseteq Written
    /\ \A j \in Calls : job[j].copied \subseteq Written

\* Some age leads to the cutoff, on the day the archive began.
CutoffInv ==
    \A j \in Calls : job[j].at # "idle" => \E age \in Ages : job[j].cutoff + age <= day

CopiesOld ==
    \A j \in Calls : \A r \in job[j].copied : Selected(j) /\ made[r] < job[j].cutoff

\* What was not late and is old enough to be deleted was copied.
PromiseInv ==
    \A j \in Calls : job[j].at \in {"insert", "delete"} =>
        \A r \in trail \ late : made[r] < job[j].cutoff => r \in job[j].copied

DeletionInv ==
    \A j \in Calls :
        /\ job[j].at # "commit" => job[j].deleted = {}
        /\ job[j].deleted \subseteq job[j].copied \cup late
        /\ job[j].at = "commit" => job[j].copied \cap trail \subseteq job[j].deleted

JobInv == CutoffInv /\ CopiesOld /\ PromiseInv /\ DeletionInv

AuditInv == Audit!TypeOK /\ WrittenInv /\ JobInv /\ Audit!RecordsKept

-----------------------------------------------------------------------------
(* Type correctness.                                                       *)

LEMMA AuditInitType == Audit!AuditAssumption /\ Audit!Init => Audit!TypeOK
  BY DEF Audit!AuditAssumption, Audit!Init, Audit!TypeOK, Audit!Idle

LEMMA AuditTypeStep == Audit!AuditAssumption /\ Audit!TypeOK /\ [Audit!Next]_(Audit!vars)
  => Audit!TypeOK'
  <1> SUFFICES ASSUME Audit!AuditAssumption, Audit!TypeOK, [Audit!Next]_(Audit!vars)
PROVE Audit!TypeOK'
    OBVIOUS
  <1> USE DEF Audit!AuditAssumption, Audit!TypeOK
  <1>1. CASE Audit!Tick
    BY <1>1 DEF Audit!Tick
  <1>2. ASSUME NEW r \in Records,
               Audit!NewRecord(r) \/ Audit!Insert(r) \/ Audit!InsertLost(r)
                 \/ Audit!InsertFails(r)
        PROVE  Audit!TypeOK'
    BY <1>2 DEF Audit!NewRecord, Audit!Insert, Audit!InsertLost, Audit!InsertFails, Audit!Store,
       Audit!Fault
  <1>3. ASSUME NEW j \in Calls, Audit!Archive(j) PROVE Audit!TypeOK'
    <2>1. PICK age \in Ages :
            /\ age <= day
            /\ job' = [job EXCEPT ![j] = [Audit!Idle EXCEPT !.at = "copy", !.cutoff = day - age]]
      BY <1>3 DEF Audit!Archive
    <2>2. day - age \in Nat
      BY <2>1
    <2>3. [Audit!Idle EXCEPT !.at = "copy", !.cutoff = day - age] \in
            [at : {"idle", "copy", "insert", "delete", "commit"},
             cutoff : Nat, copied : SUBSET Records, deleted : SUBSET Records]
      BY <2>2 DEF Audit!Idle
    <2>4. QED
      BY <1>3, <2>1, <2>2, <2>3 DEF Audit!Archive
  <1>4. ASSUME NEW j \in Calls,
               Audit!SelectOld(j) \/ Audit!CopyOld(j) \/ Audit!CopyCollides(j)
                 \/ Audit!DeleteOld(j)
        PROVE  Audit!TypeOK'
    BY <1>4 DEF Audit!SelectOld, Audit!CopyOld, Audit!CopyCollides, Audit!DeleteOld, Audit!Old,
       Audit!Idle
  <1>5. ASSUME NEW j \in Calls, Audit!Commit(j) \/ Audit!ArchiveFails(j) PROVE Audit!TypeOK'
    BY <1>5 DEF Audit!Commit, Audit!ArchiveFails, Audit!Fault, Audit!Idle
  <1>6. CASE UNCHANGED Audit!vars
    BY <1>6 DEF Audit!vars
  <1>7. QED
    BY <1>1, <1>2, <1>3, <1>4, <1>5, <1>6 DEF Audit!Next

-----------------------------------------------------------------------------
(* The inductive invariant.                                                *)

LEMMA AuditInitInv == Audit!AuditAssumption /\ Audit!Init => AuditInv
  <1> SUFFICES ASSUME Audit!AuditAssumption, Audit!Init PROVE AuditInv
    OBVIOUS
  <1>1. Audit!TypeOK
    BY AuditInitType
  <1>2. WrittenInv /\ JobInv /\ Audit!RecordsKept
    BY DEF Audit!Init, Audit!Idle, WrittenInv, JobInv, CutoffInv, CopiesOld, PromiseInv,
       DeletionInv,
           Audit!RecordsKept, Selected, Written
  <1>3. QED
    BY <1>1, <1>2 DEF AuditInv

\* Time only makes records older.
LEMMA TickStep == Audit!AuditAssumption /\ AuditInv /\ Audit!Tick
  => WrittenInv' /\ JobInv' /\ Audit!RecordsKept'
  <1> SUFFICES ASSUME Audit!AuditAssumption, AuditInv, Audit!Tick
PROVE WrittenInv' /\ JobInv' /\ Audit!RecordsKept'
    OBVIOUS
  <1> USE DEF Audit!AuditAssumption, AuditInv, Audit!TypeOK, Audit!Tick
  <1>1. WrittenInv'
    BY DEF WrittenInv, Written
  <1>2. CutoffInv'
    BY DEF JobInv, CutoffInv
  <1>3. CopiesOld' /\ PromiseInv' /\ DeletionInv'
    BY DEF JobInv, CopiesOld, PromiseInv, DeletionInv, Selected
  <1>4. Audit!RecordsKept'
    BY DEF Audit!RecordsKept
  <1>5. QED
    BY <1>1, <1>2, <1>3, <1>4 DEF JobInv

\* An insert changes made and insert of a record that is in no table yet.
LEMMA InsertStep ==
    ASSUME Audit!AuditAssumption, AuditInv, NEW r \in Records,
           Audit!NewRecord(r) \/ Audit!Insert(r) \/ Audit!InsertLost(r) \/ Audit!InsertFails(r)
    PROVE  WrittenInv' /\ JobInv' /\ Audit!RecordsKept'
  <1> USE DEF AuditInv, Audit!TypeOK
  <1>1. CASE Audit!NewRecord(r) \/ Audit!InsertFails(r)
    <2> USE <1>1 DEF Audit!NewRecord, Audit!InsertFails, Audit!Fault
    <2>1. r \notin Written
      BY DEF Written
    <2>2. /\ r \notin trail \cup archive
          /\ \A j \in Calls : r \notin job[j].copied
      BY <2>1 DEF WrittenInv
    <2>3. \A s \in Records \ {r} : made'[s] = made[s] /\ insert'[s] = insert[s]
      OBVIOUS
    <2>4. UNCHANGED <<day, trail, archive, job, late>>
      OBVIOUS
    <2>5. WrittenInv'
      BY <2>2, <2>3, <2>4 DEF WrittenInv, Written
    <2>6. CutoffInv'
      BY <2>4 DEF JobInv, CutoffInv
    <2>7. CopiesOld' /\ PromiseInv' /\ DeletionInv'
      BY <2>2, <2>3, <2>4 DEF JobInv, CopiesOld, PromiseInv, DeletionInv, Selected
    <2>8. Audit!RecordsKept'
      BY <2>2, <2>3, <2>4 DEF Audit!RecordsKept
    <2>9. QED
      BY <2>5, <2>6, <2>7, <2>8 DEF JobInv
  <1>2. CASE Audit!Insert(r) \/ Audit!InsertLost(r)
    <2> USE <1>2 DEF Audit!Insert, Audit!InsertLost, Audit!Fault, Audit!Store
    <2>1. r \notin Written /\ insert'[r] \in {"ok", "error"}
      BY DEF Written
    <2>2. /\ r \notin trail \cup archive
          /\ \A j \in Calls : r \notin job[j].copied
      BY <2>1 DEF WrittenInv
    <2>3. \A s \in Records \ {r} : insert'[s] = insert[s]
      OBVIOUS
    <2>4. UNCHANGED <<day, made, archive, job>> /\ trail' = trail \cup {r}
      OBVIOUS
    <2>5. /\ late \subseteq late'
          /\ \A j \in Calls : j \in Audit!Overtaken(r) => r \in late'
      OBVIOUS
    <2>6. WrittenInv'
      BY <2>1, <2>3, <2>4 DEF WrittenInv, Written
    <2>7. CutoffInv' /\ CopiesOld'
      BY <2>4 DEF JobInv, CutoffInv, CopiesOld, Selected
    <2>8. PromiseInv'
      BY <2>4, <2>5 DEF JobInv, PromiseInv, Audit!Overtaken
    <2>9. DeletionInv'
      BY <2>2, <2>4, <2>5 DEF JobInv, DeletionInv
    <2>10. Audit!RecordsKept'
      BY <2>2, <2>3, <2>4, <2>5 DEF Audit!RecordsKept
    <2>11. QED
      BY <2>6, <2>7, <2>8, <2>9, <2>10 DEF JobInv
  <1>3. QED
    BY <1>1, <1>2

\* Steps of a transaction before its end leave the tables alone.
LEMMA JobStep ==
    ASSUME Audit!AuditAssumption, AuditInv, NEW j \in Calls,
           Audit!Archive(j) \/ Audit!SelectOld(j) \/ Audit!CopyOld(j) \/ Audit!CopyCollides(j)
             \/ Audit!DeleteOld(j)
             \/ Audit!ArchiveFails(j)
    PROVE  WrittenInv' /\ JobInv' /\ Audit!RecordsKept'
  <1> USE DEF AuditInv, Audit!TypeOK
  <1>1. /\ UNCHANGED <<day, made, insert, trail, archive, late>>
        /\ \A k \in Calls \ {j} : job'[k] = job[k]
    BY DEF Audit!Archive, Audit!SelectOld, Audit!CopyOld, Audit!CopyCollides, Audit!DeleteOld,
       Audit!ArchiveFails, Audit!Fault
  <1>2. Audit!RecordsKept'
    BY <1>1 DEF Audit!RecordsKept
  <1>3. CASE Audit!Archive(j)
    <2>1. PICK age \in Ages :
            /\ age <= day
            /\ job'[j] = [at |-> "copy", cutoff |-> day - age, copied |-> {}, deleted |-> {}]
      BY <1>3 DEF Audit!Archive, Audit!Idle
    <2>2. job'[j].cutoff + age <= day
      BY <2>1 DEF Audit!AuditAssumption
    <2>3. CutoffInv'
      BY <1>1, <2>1, <2>2 DEF JobInv, CutoffInv
    <2>4. WrittenInv' /\ CopiesOld' /\ PromiseInv' /\ DeletionInv'
      BY <1>1, <2>1 DEF WrittenInv, Written, JobInv, CopiesOld, PromiseInv, DeletionInv, Selected
    <2>5. QED
      BY <1>2, <2>3, <2>4 DEF JobInv
  <1>4. CASE Audit!SelectOld(j)
    <2>1. /\ job[j].at = "copy" /\ job'[j].at = "insert"
          /\ job'[j].copied = {r \in trail : made[r] < job[j].cutoff}
          /\ job'[j].cutoff = job[j].cutoff
          /\ job'[j].deleted = job[j].deleted
      BY <1>4 DEF Audit!SelectOld, Audit!Old
    <2>2. job'[j].deleted = {}
      BY <2>1 DEF JobInv, DeletionInv
    <2>3. QED
      BY <1>1, <1>2, <2>1, <2>2 DEF WrittenInv, Written, JobInv, CutoffInv, CopiesOld, PromiseInv,
                                    DeletionInv, Selected
  <1>5. CASE Audit!CopyOld(j)
    <2>1. /\ job[j].at = "insert" /\ job'[j].at = "delete"
          /\ job'[j].copied = job[j].copied
          /\ job'[j].cutoff = job[j].cutoff
          /\ job'[j].deleted = job[j].deleted
      BY <1>5 DEF Audit!CopyOld
    <2>2. QED
      BY <1>1, <1>2, <2>1 DEF WrittenInv, Written, JobInv, CutoffInv, CopiesOld, PromiseInv,
                              DeletionInv, Selected
  <1>6. CASE Audit!CopyCollides(j) \/ Audit!ArchiveFails(j)
    <2>1. job'[j] = Audit!Idle
      BY <1>6 DEF Audit!CopyCollides, Audit!ArchiveFails
    <2>2. QED
      BY <1>1, <1>2, <2>1 DEF WrittenInv, Written, JobInv, CutoffInv, CopiesOld, PromiseInv,
                              DeletionInv, Selected, Audit!Idle
  <1>7. CASE Audit!DeleteOld(j)
    <2>1. /\ job[j].at = "delete" /\ job'[j].at = "commit"
          /\ job'[j].copied = job[j].copied
          /\ job'[j].cutoff = job[j].cutoff
          /\ job'[j].deleted = {r \in trail : made[r] < job[j].cutoff}
      BY <1>7 DEF Audit!DeleteOld, Audit!Old
    <2>2. job'[j].deleted \subseteq job[j].copied \cup late
      BY <2>1 DEF JobInv, PromiseInv
    <2>3. job[j].copied \cap trail \subseteq job'[j].deleted
      BY <2>1 DEF JobInv, CopiesOld
    <2>4. WrittenInv' /\ CutoffInv' /\ CopiesOld' /\ PromiseInv'
      BY <1>1, <2>1 DEF WrittenInv, Written, JobInv, CutoffInv, CopiesOld, PromiseInv, Selected
    <2>5. DeletionInv'
      BY <1>1, <2>1, <2>2, <2>3 DEF JobInv, DeletionInv
    <2>6. QED
      BY <1>2, <2>4, <2>5 DEF JobInv
  <1>8. QED
    BY <1>3, <1>4, <1>5, <1>6, <1>7

\* A commit deletes what it copied, and late records.
LEMMA CommitStep ==
    ASSUME Audit!AuditAssumption, AuditInv, NEW j \in Calls, Audit!Commit(j)
    PROVE  WrittenInv' /\ JobInv' /\ Audit!RecordsKept'
  <1> USE DEF AuditInv, Audit!TypeOK
  <1>1. /\ UNCHANGED <<day, made, insert, late>>
        /\ archive' = archive \cup job[j].copied
        /\ trail' = trail \ job[j].deleted
        /\ job[j].at = "commit"
        /\ job'[j] = Audit!Idle
        /\ \A k \in Calls \ {j} : job'[k] = job[k]
    BY DEF Audit!Commit
  <1>2. WrittenInv'
    BY <1>1 DEF WrittenInv, Written, Audit!Idle
  <1>3. CutoffInv' /\ CopiesOld' /\ PromiseInv' /\ DeletionInv'
    BY <1>1 DEF JobInv, CutoffInv, CopiesOld, PromiseInv, DeletionInv, Selected, Audit!Idle
  <1>4. trail' \cap archive' = {}
    BY <1>1 DEF Audit!RecordsKept, JobInv, DeletionInv
  <1>5. \A r \in Records \ late : insert[r] = "ok" => r \in trail' \cup archive'
    BY <1>1 DEF Audit!RecordsKept, JobInv, DeletionInv
  <1>6. \A r \in job[j].copied : \E age \in Ages : made[r] + age < day
    <2>1. PICK age \in Ages : job[j].cutoff + age <= day
      BY <1>1 DEF JobInv, CutoffInv
    <2>2. ASSUME NEW r \in job[j].copied PROVE made[r] + age < day
      <3>1. made[r] < job[j].cutoff
        BY <2>2 DEF JobInv, CopiesOld
      <3>2. made[r] \in Nat /\ job[j].cutoff \in Nat /\ age \in Nat /\ day \in Nat
        BY <2>2 DEF Audit!AuditAssumption
      <3>3. QED
        BY <2>1, <3>1, <3>2
    <2>3. QED
      BY <2>1, <2>2
  <1>7. Audit!RecordsKept'
    BY <1>1, <1>4, <1>5, <1>6 DEF Audit!RecordsKept
  <1>8. QED
    BY <1>2, <1>3, <1>7 DEF JobInv

LEMMA AuditInvStep == Audit!AuditAssumption /\ AuditInv /\ [Audit!Next]_(Audit!vars) => AuditInv'
  <1> SUFFICES ASSUME Audit!AuditAssumption, AuditInv, [Audit!Next]_(Audit!vars) PROVE AuditInv'
    OBVIOUS
  <1>1. Audit!TypeOK'
    BY AuditTypeStep DEF AuditInv
  <1>2. CASE Audit!Tick
    BY <1>1, <1>2, TickStep DEF AuditInv
  <1>3. ASSUME NEW r \in Records,
               Audit!NewRecord(r) \/ Audit!Insert(r) \/ Audit!InsertLost(r)
                 \/ Audit!InsertFails(r)
        PROVE  AuditInv'
    BY <1>1, <1>3, InsertStep DEF AuditInv
  <1>4. ASSUME NEW j \in Calls,
               Audit!Archive(j) \/ Audit!SelectOld(j) \/ Audit!CopyOld(j)
                 \/ Audit!CopyCollides(j) \/ Audit!DeleteOld(j)
                 \/ Audit!ArchiveFails(j)
        PROVE  AuditInv'
    BY <1>1, <1>4, JobStep DEF AuditInv
  <1>5. ASSUME NEW j \in Calls, Audit!Commit(j) PROVE AuditInv'
    BY <1>1, <1>5, CommitStep DEF AuditInv
  <1>6. CASE UNCHANGED Audit!vars
    BY <1>1, <1>6
    DEF Audit!vars, AuditInv, WrittenInv, Written, JobInv, CutoffInv, CopiesOld, PromiseInv,
                      DeletionInv, Selected, Audit!RecordsKept
  <1>7. QED
    BY <1>2, <1>3, <1>4, <1>5, <1>6 DEF Audit!Next

\* Every reachable state of the audit trail is well typed.
THEOREM AuditTypeCorrect == Spec => []Audit!TypeOK
<1>1. Audit!Init => Audit!TypeOK
  BY AuditInitType, ServicesAssumption DEF ServicesAssumption
<1>2. Audit!TypeOK /\ [Audit!Next]_(Audit!vars) => Audit!TypeOK'
  BY AuditTypeStep, ServicesAssumption DEF ServicesAssumption
<1> QED
  BY <1>1, <1>2, AuditPart, PTL DEF Audit!Spec

\* archive and insert: no record is in both tables, none that was not late gets lost, and
\* none is archived before its time, whatever overlaps and fails.
THEOREM RecordsKeptTheorem == Spec => []RecordsKept
<1>1. Audit!Init => AuditInv
  BY AuditInitInv, ServicesAssumption DEF ServicesAssumption
<1>2. AuditInv /\ [Audit!Next]_(Audit!vars) => AuditInv'
  BY AuditInvStep, ServicesAssumption DEF ServicesAssumption
<1>3. AuditInv => RecordsKept
  BY DEF AuditInv, RecordsKept
<1> QED
  BY <1>1, <1>2, <1>3, AuditPart, PTL DEF Audit!Spec

-----------------------------------------------------------------------------
(* Plex transfers.                                                         *)
(* TransferKeepsAll is not inductive: a source is removed because of what  *)
(* a copy did before.  CopyInv says what a call knows: while it has met no *)
(* error, a file it has not copied is still on its lists or in the         *)
(* subdirectory it has not listed; while it removes, there is none.        *)

LEMMA TransferPart == Spec => Transfer!Spec
<1>1. [Next]_vars => [Transfer!Next]_(Transfer!vars)
  BY PartSteps DEF transferVars, Transfer!vars
<1> QED
  BY <1>1, PartInits, PTL DEF Spec, Transfer!Spec

\* The fields of a state that TransferKeepsAll depends on are well typed.
FilesType ==
    /\ stagedFiles \in [Downloads -> SUBSET Files]
    /\ plex \in [Downloads -> SUBSET Files]
    /\ content \in [Downloads -> SUBSET Files]
    /\ transferCall \in [Transfers -> [at : {"idle", "copy", "remove", "purge", "delete"},
                           of : SUBSET Downloads, left : SUBSET Files,
                           listed : BOOLEAN, errors : BOOLEAN]]

\* Nothing is known of a download that has not finished.
FinishedInv ==
    \A d \in Downloads :
        content[d] # Files => /\ d \notin staged
                              /\ d \notin whole
                              /\ \A c \in Transfers : d \notin transferCall[c].of

\* What call k may yet copy of its download.
Ahead(k) == k.left \cup IF k.listed THEN {} ELSE Nested

\* What call k has established of download d.
Knows(k, d) ==
    /\ k.at = "copy" /\ ~k.errors => content[d] \subseteq plex[d] \cup Ahead(k)
    /\ k.at = "remove" => content[d] \subseteq plex[d]
    /\ k.at = "delete" => d \in purged

\* A call is about one download.
Sole(k) == \A d, e \in k.of : d = e

CopyInv ==
    \A c \in Transfers : /\ Sole(transferCall[c])
                         /\ \A d \in transferCall[c].of : d \in purged
                              \/ Knows(transferCall[c], d)

TransferInv == FilesType /\ FinishedInv /\ CopyInv /\ Transfer!TransferKeepsAll

-----------------------------------------------------------------------------
LEMMA TransferInitInv == Transfer!Init => TransferInv
  BY DEF Transfer!Init, TransferInv, FilesType, FinishedInv, CopyInv, Sole,
     Transfer!TransferKeepsAll, Transfer!Idle

\* A download that finishes is one that nobody knows of.
LEMMA FinishStep ==
    ASSUME TransferInv, NEW d \in Downloads, Transfer!Finish(d)
    PROVE  TransferInv'
  <1> USE DEF TransferInv, FilesType
  <1>1. /\ UNCHANGED <<plex, transferCall, whole, purged>>
        /\ staged' = staged \cup {d}
        /\ stagedFiles' = [stagedFiles EXCEPT ![d] = Files]
        /\ content' = [content EXCEPT ![d] = Files]
        /\ content[d] = {}
    BY DEF Transfer!Finish
  <1>2. \/ d \notin whole /\ \A c \in Transfers : d \notin transferCall[c].of
        \/ Files = {}
    BY <1>1 DEF FinishedInv
  <1>3. \A x \in Downloads \ {d} : content'[x] = content[x] /\ stagedFiles'[x] = stagedFiles[x]
    BY <1>1
  <1>4. FilesType' /\ content'[d] = Files /\ stagedFiles'[d] = Files
    BY <1>1
  <1>5. FinishedInv'
    BY <1>1, <1>3, <1>4 DEF FinishedInv
  <1>6. CopyInv'
    BY <1>1, <1>2, <1>3, <1>4 DEF CopyInv, Sole, Knows
  <1>7. Transfer!TransferKeepsAll'
    BY <1>1, <1>2, <1>3, <1>4 DEF Transfer!TransferKeepsAll
  <1>8. QED
    BY <1>4, <1>5, <1>6, <1>7

\* What every other step is: call c goes on, nothing leaves the library, and of a download
\* that no purge took a file is missing only where the library has it.
LEMMA CallStep ==
    ASSUME TransferInv, NEW c \in Transfers, FilesType',
           UNCHANGED content, staged' \subseteq staged, purged \subseteq purged',
           \A x \in Transfers \ {c} : transferCall'[x] = transferCall[x],
           \A d \in Downloads : plex[d] \subseteq plex'[d],
           Sole(transferCall[c])',
           \A d \in transferCall'[c].of : d \in staged \/ d \in transferCall[c].of,
           \A d \in transferCall'[c].of : d \in purged' \/ Knows(transferCall[c], d)',
           \A d \in Downloads \ purged' : content[d] \subseteq stagedFiles'[d] \cup plex'[d],
           \A d \in whole' \ whole : /\ d \in staged
                                     /\ d \in purged' \/ content[d] \subseteq plex'[d]
    PROVE  TransferInv'
  <1> USE DEF TransferInv, FilesType
  <1>1. FinishedInv'
    <2>1. ASSUME NEW d \in Downloads, content[d] # Files
          PROVE  d \notin staged' /\ d \notin whole'
                   /\ \A x \in Transfers : d \notin transferCall'[x].of
      <3>1. d \notin staged /\ d \notin whole /\ \A x \in Transfers : d \notin transferCall[x].of
        BY <2>1 DEF FinishedInv
      <3>2. \A x \in Transfers : d \notin transferCall'[x].of
        BY <3>1
      <3>3. QED
        BY <3>1, <3>2
    <2>2. QED
      BY <2>1 DEF FinishedInv
  <1>2. CopyInv'
    <2>1. ASSUME NEW x \in Transfers, NEW d \in transferCall'[x].of
          PROVE  d \in purged' \/ Knows(transferCall[x], d)'
      <3>1. CASE x = c
        BY <3>1, <2>1
      <3>2. CASE x # c
        <4>1. transferCall'[x] = transferCall[x] /\ d \in Downloads
          BY <3>2, <2>1
        <4>2. d \in purged \/ Knows(transferCall[x], d)
          BY <4>1, <2>1 DEF CopyInv
        <4>3. QED
          BY <4>1, <4>2 DEF Knows, Ahead
      <3>3. QED
        BY <3>1, <3>2
    <2>2. \A x \in Transfers : Sole(transferCall[x])'
      BY DEF CopyInv, Sole
    <2>3. QED
      BY <2>1, <2>2 DEF CopyInv
  <1>3. Transfer!TransferKeepsAll'
    BY DEF Transfer!TransferKeepsAll
  <1>4. QED
    BY <1>1, <1>2, <1>3

\* A directory is emptied by a purge, which owns it, or by a transfer that copied all of it.
LEMMA UnlinkStep ==
    ASSUME TransferInv, NEW d \in Downloads, Transfer!Unlink(d), UNCHANGED <<plex, content>>,
           d \in purged \/ content[d] \subseteq plex[d]
    PROVE  /\ stagedFiles' \in [Downloads -> SUBSET Files]
           /\ staged' \subseteq staged
           /\ d \in staged
           /\ \A x \in Downloads \ purged : content[x] \subseteq stagedFiles'[x] \cup plex'[x]
  <1> USE DEF TransferInv, FilesType
  <1>1. /\ d \in staged
        /\ staged' \subseteq staged
        /\ \/ stagedFiles' = stagedFiles
           \/ \E f \in stagedFiles[d] : stagedFiles' = [stagedFiles EXCEPT ![d] = @ \ {f}]
    BY DEF Transfer!Unlink
  <1>2. /\ stagedFiles' \in [Downloads -> SUBSET Files]
        /\ \A x \in Downloads \ {d} : stagedFiles'[x] = stagedFiles[x]
    BY <1>1
  <1>3. QED
    BY <1>1, <1>2 DEF Transfer!TransferKeepsAll

-----------------------------------------------------------------------------
LEMMA RenameStep ==
    ASSUME TransferInv, NEW c \in Transfers, NEW d \in Downloads, Transfer!Rename(c, d)
    PROVE  TransferInv'
  <1> USE DEF TransferInv, FilesType
  <1>1. /\ UNCHANGED <<transferCall, content, purged>>
        /\ d \in staged /\ staged' = staged \ {d} /\ transferCall[c] = Transfer!Idle
        /\ plex' = [plex EXCEPT ![d] = @ \cup stagedFiles[d]]
        /\ stagedFiles' = [stagedFiles EXCEPT ![d] = {}]
        /\ whole' = whole \cup {d}
    BY DEF Transfer!Rename, Transfer!MayMove
  <1>2. /\ plex'[d] = plex[d] \cup stagedFiles[d]
        /\ \A x \in Downloads \ {d} : plex'[x] = plex[x] /\ stagedFiles'[x] = stagedFiles[x]
    BY <1>1
  <1>3. FilesType'
    BY <1>1
  <1>4. \A x \in Downloads \ purged : /\ content[x] \subseteq stagedFiles'[x] \cup plex'[x]
                                      /\ x = d => content[x] \subseteq plex'[x]
    BY <1>1, <1>2 DEF Transfer!TransferKeepsAll
  <1>5. transferCall'[c].of = {}
    BY <1>1 DEF Transfer!Idle
  <1>6. \A x \in Downloads : plex[x] \subseteq plex'[x]
    BY <1>2
  <1>7. Sole(transferCall[c])'
    BY <1>5 DEF Sole
  <1>8. QED
    BY <1>1, <1>3, <1>4, <1>5, <1>6, <1>7, CallStep

LEMMA BeginCopyStep ==
    ASSUME TransferInv, NEW c \in Transfers, NEW d \in Downloads, Transfer!BeginCopy(c, d)
    PROVE  TransferInv'
  <1> DEFINE k == [Transfer!Idle EXCEPT !.at = "copy", !.of = {d},
        !.left = stagedFiles[d] \ Nested]
  <1> USE DEF TransferInv, FilesType
  <1>1. /\ UNCHANGED <<staged, stagedFiles, plex, content, whole, purged>>
        /\ d \in staged /\ transferCall' = [transferCall EXCEPT ![c] = k]
    BY DEF Transfer!BeginCopy, Transfer!MayMove, Transfer!Set
  <1>2. /\ k.at = "copy" /\ k.of = {d} /\ k.left = stagedFiles[d] \ Nested
        /\ k.listed = FALSE /\ k.errors = FALSE
        /\ k \in [at : {"idle", "copy", "remove", "purge", "delete"}, of : SUBSET Downloads,
                  left : SUBSET Files, listed : BOOLEAN, errors : BOOLEAN]
    BY DEF Transfer!Idle
  <1>3. FilesType' /\ transferCall'[c] = k
          /\ \A x \in Transfers \ {c} : transferCall'[x] = transferCall[x]
    BY <1>1, <1>2
  <1>4. Sole(transferCall[c])' /\ (d \in purged' \/ Knows(transferCall[c], d)')
    BY <1>1, <1>2, <1>3 DEF Sole, Knows, Ahead, Transfer!TransferKeepsAll
  <1>5. QED
    BY <1>1, <1>2, <1>3, <1>4, CallStep DEF Transfer!TransferKeepsAll

TransferRecord == [at : {"idle", "copy", "remove", "purge", "delete"}, of : SUBSET Downloads,
               left : SUBSET Files, listed : BOOLEAN, errors : BOOLEAN]

\* A call that goes on and touches no file.
LEMMA OwnStep ==
    ASSUME TransferInv, NEW c \in Transfers, NEW STATE k, k \in TransferRecord,
           Transfer!Set(c, k), Sole(k),
           UNCHANGED <<staged, stagedFiles, plex, content, whole>>,
           purged \subseteq purged',
           \A d \in k.of : d \in staged \/ d \in transferCall[c].of,
           \A d \in k.of : \/ d \in purged'
                           \/ Knows(k, d)
    PROVE  TransferInv'
  <1> USE DEF TransferInv, FilesType
  <1>1. transferCall' = [transferCall EXCEPT ![c] = k]
    BY DEF Transfer!Set
  <1>2. FilesType' /\ transferCall'[c] = k
          /\ \A x \in Transfers \ {c} : transferCall'[x] = transferCall[x]
    BY <1>1 DEF TransferRecord
  <1>3. Sole(transferCall[c])' /\ \A d \in transferCall'[c].of : d \in purged'
          \/ Knows(transferCall[c], d)'
    BY <1>2 DEF Sole, Knows, Ahead
  <1>4. \A d \in Downloads \ purged' : content[d] \subseteq stagedFiles'[d] \cup plex'[d]
    BY DEF Transfer!TransferKeepsAll
  <1>5. QED
    BY <1>2, <1>3, <1>4, CallStep

LEMMA ListNestedStep ==
    ASSUME TransferInv, NEW c \in Transfers, Transfer!ListNested(c)
    PROVE  TransferInv'
  <1> USE DEF TransferInv, FilesType
  <1>1. PICK d \in transferCall[c].of :
          Transfer!Set(c, [transferCall[c] EXCEPT !.listed = TRUE,
                                 !.left = @ \cup (stagedFiles[d] \cap Nested),
                                 !.errors = @ \/ d \notin staged])
    BY DEF Transfer!ListNested
  <1> DEFINE k == [transferCall[c] EXCEPT !.listed = TRUE,
                                  !.left = @ \cup (stagedFiles[d] \cap Nested),
                                  !.errors = @ \/ d \notin staged]
  <1>2. /\ transferCall[c].at = "copy" /\ ~transferCall[c].listed /\ d \in Downloads
        /\ UNCHANGED <<staged, stagedFiles, plex, content, whole, purged>>
    BY <1>1 DEF Transfer!ListNested
  <1>3. /\ k \in TransferRecord /\ k.at = "copy" /\ k.of = transferCall[c].of /\ k.listed
        /\ k.left = transferCall[c].left \cup (stagedFiles[d] \cap Nested)
        /\ ~k.errors => ~transferCall[c].errors
    BY <1>2 DEF TransferRecord
  <1> HIDE DEF k
  <1>4. Sole(k) /\ \A x \in k.of : x = d
    BY <1>3 DEF CopyInv, Sole
  <1>5. d \in purged \/ Knows(k, d)
    BY <1>2, <1>3 DEF CopyInv, Knows, Ahead, Transfer!TransferKeepsAll
  <1>6. Transfer!Set(c, k)
    BY <1>1 DEF k
  <1>7. QED
    BY <1>2, <1>3, <1>4, <1>5, <1>6, OwnStep

\* A file that is copied is in the library; one that is not is an error.
LEMMA CopyFileStep ==
    ASSUME TransferInv, NEW c \in Transfers, Transfer!CopyFile(c)
    PROVE  TransferInv'
  <1> USE DEF TransferInv, FilesType
  <1>1. PICK d \in transferCall[c].of, f \in transferCall[c].left :
          /\ plex' = IF f \in stagedFiles[d] THEN [plex EXCEPT ![d] = @ \cup {f}]
                        ELSE plex
          /\ Transfer!Set(c,
               [transferCall[c] EXCEPT !.left = @ \ {f}, !.errors = @ \/ f \notin stagedFiles[d]])
    BY DEF Transfer!CopyFile
  <1> DEFINE k == [transferCall[c] EXCEPT !.left = @ \ {f},
        !.errors = @ \/ f \notin stagedFiles[d]]
  <1>2. /\ transferCall[c].at = "copy" /\ d \in Downloads /\ f \in Files
        /\ UNCHANGED <<staged, stagedFiles, content, whole, purged>>
    BY <1>1 DEF Transfer!CopyFile
  <1>3. /\ k \in TransferRecord /\ k.at = "copy" /\ k.of = transferCall[c].of
        /\ k.listed = transferCall[c].listed /\ k.left = transferCall[c].left \ {f}
        /\ ~k.errors => ~transferCall[c].errors /\ f \in stagedFiles[d]
    BY <1>2 DEF TransferRecord
  <1>4. transferCall' = [transferCall EXCEPT ![c] = k]
    BY <1>1 DEF Transfer!Set
  <1> HIDE DEF k
  <1>5. /\ plex' \in [Downloads -> SUBSET Files]
        /\ \A x \in Downloads : plex[x] \subseteq plex'[x]
        /\ f \in stagedFiles[d] => f \in plex'[d]
    BY <1>1, <1>2
  <1>6. FilesType' /\ transferCall'[c] = k
          /\ \A x \in Transfers \ {c} : transferCall'[x] = transferCall[x]
    BY <1>2, <1>3, <1>4, <1>5 DEF TransferRecord
  <1>7. Sole(transferCall[c])' /\ \A x \in transferCall'[c].of : x = d
    BY <1>3, <1>6 DEF CopyInv, Sole
  <1>8. d \in purged' \/ Knows(transferCall[c], d)'
    <2>1. d \in purged \/ Knows(transferCall[c], d)
      BY DEF CopyInv
    <2>2. QED
      BY <1>2, <1>3, <1>5, <1>6, <2>1 DEF Knows, Ahead
  <1>9. \A x \in Downloads \ purged' : content[x] \subseteq stagedFiles'[x] \cup plex'[x]
    BY <1>2, <1>5 DEF Transfer!TransferKeepsAll
  <1>10. QED
    BY <1>2, <1>3, <1>5, <1>6, <1>7, <1>8, <1>9, CallStep

LEMMA CopyFailsStep ==
    ASSUME TransferInv, NEW c \in Transfers, Transfer!CopyFails(c)
    PROVE  TransferInv'
  <1> USE DEF TransferInv, FilesType
  <1>1. PICK f \in transferCall[c].left :
          Transfer!Set(c, [transferCall[c] EXCEPT !.left = @ \ {f}, !.errors = TRUE])
    BY DEF Transfer!CopyFails
  <1> DEFINE k == [transferCall[c] EXCEPT !.left = @ \ {f}, !.errors = TRUE]
  <1>2. transferCall[c].at = "copy" /\ UNCHANGED <<staged, stagedFiles, plex, content, whole,
          purged>>
    BY DEF Transfer!CopyFails
  <1>3. k \in TransferRecord /\ k.at = "copy" /\ k.of = transferCall[c].of /\ k.errors
    BY <1>2 DEF TransferRecord
  <1>4. Transfer!Set(c, k)
    BY <1>1
  <1> HIDE DEF k
  <1>5. Sole(k) /\ \A d \in k.of : Knows(k, d)
    BY <1>3 DEF CopyInv, Sole, Knows
  <1>6. QED
    BY <1>2, <1>3, <1>4, <1>5, OwnStep

LEMMA IdleRecord == Transfer!Idle \in TransferRecord /\ Transfer!Idle.at = "idle"
  /\ Transfer!Idle.of = {}
  BY DEF Transfer!Idle, TransferRecord

\* A call that comes to rest knows nothing any more.
LEMMA RestStep ==
    ASSUME TransferInv, NEW c \in Transfers, NEW STATE k,
           k \in TransferRecord, k.of = {}, Transfer!Set(c, k),
           UNCHANGED <<staged, stagedFiles, plex, content, whole, purged>>
    PROVE  TransferInv'
  <1>1. Sole(k)
    BY DEF Sole
  <1>2. QED
    BY <1>1, OwnStep

LEMMA PurgeRecord ==
    LET k == [Transfer!Idle EXCEPT !.at = "purge"] IN k \in TransferRecord /\ k.of = {}
  BY DEF Transfer!Idle, TransferRecord

\* Every list has been worked off and nothing has failed: the library has everything.
LEMMA EndCopyStep ==
    ASSUME TransferInv, NEW c \in Transfers, Transfer!EndCopy(c)
    PROVE  TransferInv'
  <1> USE DEF TransferInv, FilesType
  <1> DEFINE k == [transferCall[c] EXCEPT !.at = "remove"]
  <1>1. /\ transferCall[c].at = "copy" /\ transferCall[c].left = {} /\ transferCall[c].listed
        /\ Transfer!Set(c, IF transferCall[c].errors THEN Transfer!Idle ELSE k)
        /\ UNCHANGED <<staged, stagedFiles, plex, content, whole, purged>>
    BY DEF Transfer!EndCopy
  <1>2. CASE transferCall[c].errors
    BY <1>1, <1>2, IdleRecord, RestStep
  <1>3. CASE ~transferCall[c].errors
    <2>1. k \in TransferRecord /\ k.at = "remove" /\ k.of = transferCall[c].of
      BY DEF TransferRecord
    <2>2. Transfer!Set(c, k)
      BY <1>1, <1>3
    <2> HIDE DEF k
    <2>3. Sole(k)
      BY <2>1 DEF CopyInv, Sole
    <2>4. ASSUME NEW d \in k.of
          PROVE  d \in purged' \/ Knows(k, d)
      BY <1>1, <1>3, <2>1 DEF CopyInv, Knows, Ahead
    <2>5. QED
      BY <1>1, <2>1, <2>2, <2>3, <2>4, OwnStep
  <1>4. QED
    BY <1>2, <1>3

LEMMA RemoveSourceStep ==
    ASSUME TransferInv, NEW c \in Transfers, Transfer!RemoveSource(c)
    PROVE  TransferInv'
  <1> USE DEF TransferInv, FilesType
  <1>1. PICK d \in transferCall[c].of :
          /\ Transfer!Unlink(d)
          /\ IF staged' # staged THEN Transfer!Set(c, Transfer!Idle) /\ whole' = whole \cup {d}
                                 ELSE UNCHANGED <<transferCall, whole>>
    BY DEF Transfer!RemoveSource
  <1>2. transferCall[c].at = "remove" /\ d \in Downloads /\ UNCHANGED <<plex, content, purged>>
    BY <1>1 DEF Transfer!RemoveSource
  <1>3. d \in purged \/ content[d] \subseteq plex[d]
    BY <1>2 DEF CopyInv, Knows
  <1>4. /\ stagedFiles' \in [Downloads -> SUBSET Files]
        /\ staged' \subseteq staged
        /\ d \in staged
        /\ \A x \in Downloads \ purged : content[x] \subseteq stagedFiles'[x] \cup plex'[x]
    BY <1>1, <1>2, <1>3, UnlinkStep
  <1>5. /\ transferCall' \in [Transfers -> TransferRecord]
        /\ \A x \in Transfers \ {c} : transferCall'[x] = transferCall[x]
        /\ transferCall'[c] = Transfer!Idle \/ transferCall'[c] = transferCall[c]
    BY <1>1, IdleRecord DEF Transfer!Set, TransferRecord
  <1>6. whole' = whole \/ whole' = whole \cup {d}
    BY <1>1
  <1>7. FilesType'
    BY <1>2, <1>4, <1>5 DEF TransferRecord
  <1>8. /\ Sole(transferCall[c])'
        /\ \A x \in transferCall'[c].of : /\ x \in transferCall[c].of
                                          /\ x \in purged' \/ Knows(transferCall[c], x)'
    BY <1>2, <1>5, IdleRecord DEF CopyInv, Sole, Knows, Ahead
  <1>9. QED
    BY <1>2, <1>3, <1>4, <1>5, <1>6, <1>7, <1>8, CallStep

LEMMA DeleteItemStep ==
    ASSUME TransferInv, NEW c \in Transfers, Transfer!DeleteItem(c)
    PROVE  TransferInv'
  <1> USE DEF TransferInv, FilesType
  <1> DEFINE k == [Transfer!Idle EXCEPT !.at = "purge"]
  <1>1. PICK d \in transferCall[c].of : Transfer!Unlink(d)
    BY DEF Transfer!DeleteItem
  <1>2. /\ transferCall[c].at = "delete" /\ d \in Downloads
        /\ UNCHANGED <<plex, content, whole, purged>>
        /\ Transfer!Set(c, IF staged' # staged THEN k ELSE transferCall[c])
    BY <1>1 DEF Transfer!DeleteItem
  <1>3. d \in purged
    BY <1>2 DEF CopyInv, Knows
  <1>4. /\ stagedFiles' \in [Downloads -> SUBSET Files]
        /\ staged' \subseteq staged
        /\ \A x \in Downloads \ purged : content[x] \subseteq stagedFiles'[x] \cup plex'[x]
    BY <1>1, <1>2, <1>3, UnlinkStep
  <1>5. k \in TransferRecord /\ k.of = {}
    BY PurgeRecord
  <1> HIDE DEF k
  <1>6. /\ transferCall' \in [Transfers -> TransferRecord]
        /\ \A x \in Transfers \ {c} : transferCall'[x] = transferCall[x]
        /\ transferCall'[c] = k \/ transferCall'[c] = transferCall[c]
    BY <1>2, <1>5 DEF Transfer!Set, TransferRecord
  <1>7. FilesType'
    BY <1>2, <1>4, <1>6 DEF TransferRecord
  <1>8. /\ Sole(transferCall[c])'
        /\ \A x \in transferCall'[c].of : /\ x \in transferCall[c].of
                                          /\ x \in purged' \/ Knows(transferCall[c], x)'
    BY <1>2, <1>5, <1>6 DEF CopyInv, Sole, Knows, Ahead
  <1>9. QED
    BY <1>2, <1>4, <1>6, <1>7, <1>8, CallStep

LEMMA PurgeItemStep ==
    ASSUME TransferInv, NEW c \in Transfers, NEW d \in Downloads, Transfer!PurgeItem(c, d)
    PROVE  TransferInv'
  <1> USE DEF TransferInv, FilesType
  <1> DEFINE k == [Transfer!Idle EXCEPT !.at = "delete", !.of = {d}]
  <1>1. /\ d \in staged /\ purged' = purged \cup {d} /\ Transfer!Set(c, k)
        /\ UNCHANGED <<staged, stagedFiles, plex, content, whole>>
    BY DEF Transfer!PurgeItem
  <1>2. k \in TransferRecord /\ k.of = {d}
    BY DEF Transfer!Idle, TransferRecord
  <1> HIDE DEF k
  <1>3. Sole(k)
    BY <1>2 DEF Sole
  <1>4. QED
    BY <1>1, <1>2, <1>3, OwnStep

\* The steps that only let calls begin to purge, or end.
LEMMA QuietStep ==
    ASSUME TransferInv, NEW c \in Transfers,
           Transfer!SourceGone(c) \/ Transfer!BeginPurge(c) \/ Transfer!EndPurge(c)
    PROVE  TransferInv'
  <1>1. UNCHANGED <<staged, stagedFiles, plex, content, whole, purged>>
    BY DEF Transfer!SourceGone, Transfer!BeginPurge, Transfer!EndPurge
  <1>2. Transfer!Set(c, Transfer!Idle) \/ Transfer!Set(c, [Transfer!Idle EXCEPT !.at = "purge"])
    BY DEF Transfer!SourceGone, Transfer!BeginPurge, Transfer!EndPurge
  <1>3. CASE Transfer!Set(c, Transfer!Idle)
    BY <1>1, <1>3, IdleRecord, RestStep
  <1>4. CASE Transfer!Set(c, [Transfer!Idle EXCEPT !.at = "purge"])
    BY <1>1, <1>4, PurgeRecord, RestStep
  <1>5. QED
    BY <1>2, <1>3, <1>4

\* After a crash nobody knows anything, and the files are where they were.
LEMMA CrashStep == TransferInv /\ Transfer!Crash => TransferInv'
  <1> SUFFICES ASSUME TransferInv, Transfer!Crash PROVE TransferInv'
    OBVIOUS
  <1> USE DEF TransferInv, FilesType
  <1>1. /\ transferCall' = [c \in Transfers |-> Transfer!Idle]
        /\ UNCHANGED <<staged, stagedFiles, plex, content, whole, purged>>
    BY DEF Transfer!Crash
  <1>2. FilesType' /\ \A c \in Transfers : transferCall'[c].of = {}
    BY <1>1, IdleRecord DEF TransferRecord
  <1>3. FinishedInv' /\ CopyInv' /\ Transfer!TransferKeepsAll'
    BY <1>1, <1>2 DEF FinishedInv, CopyInv, Sole, Transfer!TransferKeepsAll
  <1>4. QED
    BY <1>2, <1>3

\* Neither what grows stale nor a stutter is anything the invariant looks at.
LEMMA StillStep ==
    ASSUME TransferInv, UNCHANGED <<staged, stagedFiles, plex, transferCall, content, whole,
           purged>>
    PROVE  TransferInv'
  BY DEF TransferInv, FilesType, FinishedInv, CopyInv, Sole, Knows, Ahead,
     Transfer!TransferKeepsAll

LEMMA TransferInvStep == TransferInv /\ [Transfer!Next]_(Transfer!vars) => TransferInv'
  <1> SUFFICES ASSUME TransferInv, [Transfer!Next]_(Transfer!vars) PROVE TransferInv'
    OBVIOUS
  <1>1. ASSUME NEW d \in Downloads, Transfer!Finish(d) PROVE TransferInv'
    BY <1>1, FinishStep
  <1>2. ASSUME NEW d \in Downloads, Transfer!Grow(d) PROVE TransferInv'
    BY <1>2, StillStep DEF Transfer!Grow
  <1>3. ASSUME NEW d \in Downloads, NEW c \in Transfers, Transfer!Rename(c, d) PROVE TransferInv'
    BY <1>3, RenameStep
  <1>4. ASSUME NEW d \in Downloads, NEW c \in Transfers, Transfer!BeginCopy(c, d)
        PROVE TransferInv'
    BY <1>4, BeginCopyStep
  <1>5. ASSUME NEW d \in Downloads, NEW c \in Transfers, Transfer!PurgeItem(c, d)
        PROVE TransferInv'
    BY <1>5, PurgeItemStep
  <1>6. ASSUME NEW c \in Transfers, Transfer!ListNested(c) PROVE TransferInv'
    BY <1>6, ListNestedStep
  <1>7. ASSUME NEW c \in Transfers, Transfer!CopyFile(c) PROVE TransferInv'
    BY <1>7, CopyFileStep
  <1>8. ASSUME NEW c \in Transfers, Transfer!CopyFails(c) PROVE TransferInv'
    BY <1>8, CopyFailsStep
  <1>9. ASSUME NEW c \in Transfers, Transfer!EndCopy(c) PROVE TransferInv'
    BY <1>9, EndCopyStep
  <1>10. ASSUME NEW c \in Transfers, Transfer!RemoveSource(c) PROVE TransferInv'
    BY <1>10, RemoveSourceStep
  <1>11. ASSUME NEW c \in Transfers, Transfer!DeleteItem(c) PROVE TransferInv'
    BY <1>11, DeleteItemStep
  <1>12. ASSUME NEW c \in Transfers,
                Transfer!SourceGone(c) \/ Transfer!BeginPurge(c) \/ Transfer!EndPurge(c)
         PROVE TransferInv'
    BY <1>12, QuietStep
  <1>13. CASE Transfer!Crash
    BY <1>13, CrashStep
  <1>14. CASE UNCHANGED Transfer!vars
    BY <1>14, StillStep DEF Transfer!vars
  <1>15. QED
    BY <1>1, <1>2, <1>3, <1>4, <1>5, <1>6, <1>7, <1>8, <1>9, <1>10, <1>11, <1>12,
       <1>13, <1>14 DEF Transfer!Next

\* transfer_to_plex and purge_completed: unless a purge took it, every file of a download
\* is in the staging area or in the library, and in the library once a transfer said ok.
THEOREM TransferKeepsAllTheorem == Spec => []TransferKeepsAll
<1>1. Transfer!Init => TransferInv
  BY TransferInitInv, ServicesAssumption DEF ServicesAssumption
<1>2. TransferInv /\ [Transfer!Next]_(Transfer!vars) => TransferInv'
  BY TransferInvStep, ServicesAssumption DEF ServicesAssumption
<1>3. TransferInv => TransferKeepsAll
  BY DEF TransferInv, TransferKeepsAll
<1> QED
  BY <1>1, <1>2, <1>3, TransferPart, PTL DEF Transfer!Spec

-----------------------------------------------------------------------------
(* Startup.                                                                *)
(* SettingsArrive is not inductive: a file is truncated before it is       *)
(* written. What a wizard that overlaps no other has in memory makes up    *)
(* for it (WizardHolds); the addresses of the services have defaults       *)
(* wherever they are read (ServicesInv), and only a wizard that made the   *)
(* file private marks the setup complete (PrivateInv).                     *)

LEMMA StartPart == Spec => Start!Spec
<1>1. [Next]_vars => [Start!Next]_(Start!vars)
  BY PartSteps DEF startVars, Start!vars
<1> QED
  BY <1>1, PartInits, PTL DEF Spec, Start!Spec

SettingValue == {"",
  "default"} \cup UNION {{some[f] : f \in DOMAIN some} : some \in Environs \cup Answers}

WizardAt == {"idle", "gather", "open env", "write env", "chmod", "open yaml", "write yaml",
  "mark"}

GatewayAt == {"down", "redis", "pool", "bridge", "runner", "up"}

WizardRecord == [at : WizardAt, auto : BOOLEAN, environ : [Start!Field -> SettingValue],
  config : [Start!Field -> SettingValue]]

GatewayRecord == [at : GatewayAt, environ : [Start!Field -> SettingValue], database : BOOLEAN,
                  configured : BOOLEAN, bus : BOOLEAN, pool : BOOLEAN, bridge : BOOLEAN,
                  runner : BOOLEAN, status : {"none", "ready", "degraded"}]

WizardTypeOK ==
    /\ env \in [is : {"absent", "empty", "there"}, values : [Start!Field -> SettingValue],
                private : BOOLEAN]
    /\ yaml \in [is : {"empty", "there"}, url : SettingValue]
    /\ complete \in BOOLEAN
    /\ wizard \in [Wizards -> WizardRecord]
    /\ gateway \in GatewayRecord
    /\ redisUp \in BOOLEAN
    /\ started \in [{"wizards", "starts", "faults"} -> Nat]
    /\ kept \in SUBSET Start!Field
    /\ wizardOverlaps \in BOOLEAN

-----------------------------------------------------------------------------
\* A wizard that marks the setup complete has made the file private.
PrivateInv ==
    /\ complete => env.private
    /\ \A w \in Wizards : wizard[w].at \in {"open yaml", "write yaml", "mark"} => env.private

\* The addresses of the services have defaults: whatever a wizard gathers has them, and
\* so has a file that was written and a gateway that was given it.
ServicesInv ==
    /\ \A w \in Wizards, s \in Start!Services : wizard[w].at # "idle" => wizard[w].config[s] # ""
    /\ \A s \in Start!Services : env.is = "there" => env.values[s] # ""
    /\ \A s \in Start!Services : gateway.configured => gateway.environ[s] # ""

\* What a configured gateway has made of the addresses so far.
GatewayInv ==
    /\ ~redisUp => started.faults > 0
    /\ gateway.configured /\ gateway.at \in {"pool", "bridge", "runner", "up"} =>
          gateway.bus \/ started.faults > 0
    /\ gateway.configured /\ gateway.at \in {"runner", "up"} => gateway.bridge

OneWizard ==
    \A v, w \in Wizards : wizard[v] # Start!NoWizard /\ wizard[w] # Start!NoWizard => v = w

\* The files hold every setting that was kept, and name one bridge.
FilesWhole ==
    /\ \A f \in kept : env.values[f] # ""
    /\ complete => yaml.url = env.values["OPENCLAW_WS_URL"]

\* A single wizard has every kept setting in its _config.  It has written the environment
\* file at "chmod", and the configuration at "mark"; until it truncates the first, the
\* files are whole.
WizardHolds(w) ==
    /\ \A f \in kept : wizard[w].config[f] # ""
    /\ wizard[w].at \in {"gather", "open env"} => FilesWhole
    /\ wizard[w].at \in {"chmod", "open yaml", "write yaml", "mark"} =>
          env.values = wizard[w].config
    /\ wizard[w].at = "mark" => yaml.url = env.values["OPENCLAW_WS_URL"]

SettingsInv ==
    ~wizardOverlaps =>
        /\ OneWizard
        /\ started.faults = 0 =>
              /\ \A w \in Wizards : wizard[w].at # "idle" => WizardHolds(w)
              /\ (\A w \in Wizards : wizard[w] = Start!NoWizard) => FilesWhole

IdleWizards == \A w \in Wizards : wizard[w].at = "idle" => wizard[w] = Start!NoWizard

StartInv == WizardTypeOK /\ IdleWizards /\ PrivateInv /\ ServicesInv /\ GatewayInv /\ SettingsInv

-----------------------------------------------------------------------------
(* The operators on values.                                                *)

LEMMA FieldFacts ==
    /\ Start!Services \subseteq Start!Field
    /\ "OPENCLAW_WS_URL" \in Start!Services /\ "REDIS_URL" \in Start!Services
    /\ "OPENCLAW_WS_URL" \in Start!Field
  BY DEF Start!Services, Start!Field

LEMMA NothingType == Start!Nothing \in [Start!Field -> SettingValue]
  BY DEF Start!Nothing, SettingValue

LEMMA OfType ==
  ASSUME NEW some \in Environs \cup Answers
  PROVE  Start!Of(some) \in [Start!Field -> SettingValue]
<1>1. ASSUME NEW f \in DOMAIN some
      PROVE  some[f] \in SettingValue
  <2>1. some[f] \in {some[g] : g \in DOMAIN some}
    OBVIOUS
  <2> QED
    BY <2>1 DEF SettingValue
<1> QED
  BY <1>1 DEF Start!Of, SettingValue

\* What was set in the file stays set, and the services have defaults.
LEMMA LoadFacts ==
  ASSUME WizardTypeOK
  PROVE  /\ Start!LoadExistingEnv \in [Start!Field -> SettingValue]
         /\ \A f \in Start!Field : env.values[f] # "" => Start!LoadExistingEnv[f] # ""
         /\ \A s \in Start!Services : Start!LoadExistingEnv[s] # ""
<1>1. Start!SetupConfig \in [Start!Field -> SettingValue]
  BY DEF Start!SetupConfig, SettingValue
<1>2. env.values \in [Start!Field -> SettingValue]
  BY DEF WizardTypeOK
<1> QED
  BY <1>1, <1>2, FieldFacts DEF Start!LoadExistingEnv, Start!Or, Start!SetupConfig

\* A prompt never loses a value.
LEMMA GatheredFacts ==
  ASSUME WizardTypeOK, NEW w \in Wizards, NEW typed \in [Start!Field -> SettingValue]
  PROVE  /\ Start!Gathered(w, typed) \in [Start!Field -> SettingValue]
         /\ \A f \in Start!Field : wizard[w].config[f] # "" => Start!Gathered(w, typed)[f] # ""
<1>1. wizard[w].config \in [Start!Field -> SettingValue]
        /\ wizard[w].environ \in [Start!Field -> SettingValue]
  BY DEF WizardTypeOK, WizardRecord
<1>2. \A f \in Start!Field : /\ Start!Prompt(w, typed, f) \in SettingValue
                             /\ wizard[w].config[f] # "" => Start!Prompt(w, typed, f) # ""
  BY <1>1 DEF Start!Prompt, Start!Or, SettingValue
<1> HIDE DEF SettingValue
<1> QED
  BY <1>1, <1>2 DEF Start!Gathered

-----------------------------------------------------------------------------
LEMMA StartInitInv == Start!Init => StartInv
<1> SUFFICES ASSUME Start!Init PROVE StartInv
  OBVIOUS
<1>1. WizardTypeOK
  BY NothingType
  DEF Start!Init, WizardTypeOK, WizardRecord, GatewayRecord, WizardAt, GatewayAt, Start!NoWizard,
    Start!Down,
     Start!Limits, SettingValue
<1>2. IdleWizards
  BY DEF Start!Init, IdleWizards
<1>3. PrivateInv
  BY DEF Start!Init, PrivateInv, Start!NoWizard
<1>4. ServicesInv /\ GatewayInv
  BY DEF Start!Init, ServicesInv, GatewayInv, Start!NoWizard, Start!Down
<1>5. SettingsInv
  BY DEF Start!Init, SettingsInv, OneWizard, FilesWhole, Start!NoWizard
<1> QED
  BY <1>1, <1>2, <1>3, <1>4, <1>5 DEF StartInv

LEMMA SpendFacts ==
  ASSUME WizardTypeOK, NEW b \in {"wizards", "starts", "faults"}, Start!Spend(b)
  PROVE  /\ started' \in [{"wizards", "starts", "faults"} -> Nat]
         /\ b = "faults" => started'.faults > 0
         /\ b # "faults" => started'.faults = started.faults
  BY DEF WizardTypeOK, Start!Spend

LEMMA GotoFacts ==
  ASSUME WizardTypeOK, NEW w \in Wizards, NEW at \in WizardAt, Start!Goto(w, at)
  PROVE  /\ wizard' \in [Wizards -> WizardRecord]
         /\ wizard'[w].at = at
         /\ wizard'[w].config = wizard[w].config
         /\ \A v \in Wizards \ {w} : wizard'[v] = wizard[v]
<1>1. wizard' = [wizard EXCEPT ![w] = [wizard[w] EXCEPT !.at = at]]
  BY DEF Start!Goto
<1>2. wizard \in [Wizards -> WizardRecord]
  BY DEF WizardTypeOK
<1>3. [wizard[w] EXCEPT !.at = at] \in WizardRecord
  BY <1>2 DEF WizardRecord
<1>4. wizard'[w] = [wizard[w] EXCEPT !.at = at] /\ wizard[w] \in WizardRecord
  BY <1>1, <1>2
<1>5. wizard'[w].at = at /\ wizard'[w].config = wizard[w].config
  BY <1>4 DEF WizardRecord
<1> QED
  BY <1>1, <1>2, <1>3, <1>5

LEMMA StartTypeStep ==
  ASSUME WizardTypeOK, [Start!Next]_(Start!vars)
  PROVE  WizardTypeOK'
<1> USE DEF WizardTypeOK
<1>0. Start!NoWizard \in WizardRecord /\ Start!Down \in GatewayRecord
  BY NothingType DEF Start!NoWizard, Start!Down, WizardRecord, GatewayRecord, WizardAt, GatewayAt
<1>v. "" \in SettingValue /\ Start!Nothing \in [Start!Field -> SettingValue]
  BY NothingType DEF SettingValue
<1>1. ASSUME NEW w \in Wizards, NEW auto \in BOOLEAN, NEW some \in Environs,
             Start!Run(w, auto, some)
      PROVE  WizardTypeOK'
  <2>1. [at |-> "gather", auto |-> auto, environ |-> Start!Of(some),
          config |-> Start!LoadExistingEnv]
           \in WizardRecord
    BY OfType, LoadFacts DEF WizardRecord, WizardAt
  <2>2. wizard' \in [Wizards -> WizardRecord]
    BY <1>1, <2>1 DEF Start!Run
  <2>3. started' \in [{"wizards", "starts", "faults"} -> Nat] /\ wizardOverlaps' \in BOOLEAN
    BY <1>1, SpendFacts DEF Start!Run
  <2> QED
    BY <1>1, <2>2, <2>3 DEF Start!Run
<1>2. ASSUME NEW w \in Wizards, NEW some \in Answers, Start!Gather(w, some)
      PROVE  WizardTypeOK'
  <2>1. Start!Gathered(w, Start!Of(some)) \in [Start!Field -> SettingValue]
    BY OfType, GatheredFacts
  <2>2. wizard' = [wizard EXCEPT ![w].at = "open env",
          ![w].config = Start!Gathered(w, Start!Of(some))]
    BY <1>2 DEF Start!Gather
  <2>3. wizard' \in [Wizards -> WizardRecord]
    <3>0. wizard[w] \in WizardRecord
      OBVIOUS
    <3>1. [wizard[w] EXCEPT !.at = "open env", !.config = Start!Gathered(w, Start!Of(some))]
            \in WizardRecord
      BY <2>1, <3>0, Zenon DEF WizardRecord, WizardAt
    <3>2. wizard' = [wizard EXCEPT ![w] =
                       [wizard[w] EXCEPT !.at = "open env",
                         !.config = Start!Gathered(w, Start!Of(some))]]
      BY <2>2
    <3> QED
      BY <3>1, <3>2
  <2> QED
    BY <1>2, <2>3 DEF Start!Gather
<1>3. ASSUME NEW w \in Wizards,
             Start!OpenEnv(w) \/ Start!WriteEnv(w) \/ Start!Chmod(w) \/ Start!OpenYaml(w)
               \/ Start!WriteYaml(w)
      PROVE  WizardTypeOK'
  <2>1. \E at \in WizardAt : Start!Goto(w, at)
    BY <1>3 DEF Start!OpenEnv, Start!WriteEnv, Start!Chmod, Start!OpenYaml, Start!WriteYaml,
       WizardAt
  <2>2. wizard' \in [Wizards -> WizardRecord]
    BY <2>1, GotoFacts
  <2>3. wizard[w].config \in [Start!Field -> SettingValue]
          /\ wizard[w].config["OPENCLAW_WS_URL"] \in SettingValue
    BY FieldFacts DEF WizardRecord
  <2>4. /\ env' \in [is : {"absent", "empty", "there"}, values : [Start!Field -> SettingValue],
                     private : BOOLEAN]
        /\ yaml' \in [is : {"empty", "there"}, url : SettingValue]
    <3>1. CASE Start!OpenEnv(w)
      BY <3>1, <1>v DEF Start!OpenEnv
    <3>2. CASE Start!WriteEnv(w)
      BY <3>2, <2>3 DEF Start!WriteEnv
    <3>3. CASE Start!Chmod(w)
      BY <3>3 DEF Start!Chmod
    <3>4. CASE Start!OpenYaml(w)
      BY <3>4, <1>v DEF Start!OpenYaml
    <3>5. CASE Start!WriteYaml(w)
      BY <3>5, <2>3 DEF Start!WriteYaml
    <3> QED
      BY <1>3, <3>1, <3>2, <3>3, <3>4, <3>5
  <2>5. UNCHANGED <<complete, gateway, redisUp, started, kept, wizardOverlaps>>
    BY <1>3 DEF Start!OpenEnv, Start!WriteEnv, Start!Chmod, Start!OpenYaml, Start!WriteYaml
  <2> QED
    BY <2>2, <2>4, <2>5
<1>4. ASSUME NEW w \in Wizards, Start!MarkComplete(w) \/ Start!Cancel(w) \/ Start!WizardDies(w)
      PROVE  WizardTypeOK'
  <2>1. wizard' \in [Wizards -> WizardRecord]
    BY <1>4, <1>0 DEF Start!MarkComplete, Start!Cancel, Start!WizardDies
  <2>2. started' \in [{"wizards", "starts", "faults"} -> Nat]
    BY <1>4, SpendFacts DEF Start!MarkComplete, Start!Cancel, Start!WizardDies
  <2>3. complete' \in BOOLEAN /\ kept' \in SUBSET Start!Field
    BY <1>4 DEF Start!MarkComplete, Start!Cancel, Start!WizardDies
  <2>4. UNCHANGED <<env, yaml, gateway, redisUp, wizardOverlaps>>
    BY <1>4 DEF Start!MarkComplete, Start!Cancel, Start!WizardDies
  <2> QED
    BY <2>1, <2>2, <2>3, <2>4
<1>5. ASSUME NEW sourced \in BOOLEAN, NEW database \in BOOLEAN,
             Start!StartGateway(sourced, database)
      PROVE  WizardTypeOK'
  <2>1. env.values \in [Start!Field -> SettingValue]
          /\ Start!Nothing \in [Start!Field -> SettingValue]
    BY <1>v
  <2>2. gateway' \in GatewayRecord
    <3>1. gateway' = [Start!Down EXCEPT !.at = "redis", !.database = database,
                        !.environ = IF sourced THEN env.values ELSE Start!Nothing,
                        !.configured = sourced /\ complete /\ env.is = "there"]
      BY <1>5 DEF Start!StartGateway
    <3>2. /\ (IF sourced THEN env.values ELSE Start!Nothing) \in [Start!Field -> SettingValue]
          /\ (sourced /\ complete /\ env.is = "there") \in BOOLEAN
      BY <2>1
    <3> HIDE DEF WizardTypeOK
    <3> QED
      BY <1>0, <3>1, <3>2 DEF GatewayRecord, GatewayAt
  <2>3. started' \in [{"wizards", "starts", "faults"} -> Nat]
    BY <1>5, SpendFacts DEF Start!StartGateway
  <2> QED
    BY <1>5, <2>2, <2>3 DEF Start!StartGateway
<1>6. ASSUME Start!ConnectRedis \/ Start!ConnectPool \/ Start!StartBridge \/ Start!StartRunner
             \/ Start!Readiness \/ Start!StopGateway
      PROVE  WizardTypeOK'
  <2>1. gateway' \in GatewayRecord
    <3>1. CASE Start!ConnectRedis
      BY <3>1, FieldFacts DEF Start!ConnectRedis, GatewayRecord, GatewayAt
    <3>2. CASE Start!ConnectPool
      BY <3>2 DEF Start!ConnectPool, GatewayRecord, GatewayAt
    <3>3. CASE Start!StartBridge
      BY <3>3 DEF Start!StartBridge, GatewayRecord, GatewayAt
    <3>4. CASE Start!StartRunner
      BY <3>4 DEF Start!StartRunner, GatewayRecord, GatewayAt
    <3>5. CASE Start!Readiness
      BY <3>5 DEF Start!Readiness, GatewayRecord
    <3>6. CASE Start!StopGateway
      BY <3>6, <1>0 DEF Start!StopGateway
    <3> QED
      BY <1>6, <3>1, <3>2, <3>3, <3>4, <3>5, <3>6
  <2>2. UNCHANGED <<env, yaml, complete, wizard, redisUp, started, kept, wizardOverlaps>>
    BY <1>6 DEF Start!ConnectRedis, Start!ConnectPool, Start!StartBridge, Start!StartRunner,
       Start!Readiness, Start!StopGateway
  <2> QED
    BY <2>1, <2>2
<1>7. CASE Start!RedisFails \/ Start!RedisRecovers
  BY <1>7, SpendFacts DEF Start!RedisFails, Start!RedisRecovers
<1>8. CASE UNCHANGED Start!vars
  BY <1>8 DEF Start!vars
<1> QED
  BY <1>1, <1>2, <1>3, <1>4, <1>5, <1>6, <1>7, <1>8 DEF Start!Next

-----------------------------------------------------------------------------
\* What each step of a wizard does to the wizards.
LEMMA WizardRuns ==
  ASSUME StartInv, NEW w \in Wizards, NEW auto \in BOOLEAN, NEW some \in Environs,
         Start!Run(w, auto, some)
  PROVE  /\ wizard[w] = Start!NoWizard
         /\ wizard'[w].at = "gather" /\ wizard'[w].config = Start!LoadExistingEnv
         /\ \A v \in Wizards \ {w} : wizard'[v] = wizard[v]
  BY DEF StartInv, WizardTypeOK, WizardRecord, Start!Run

LEMMA WizardGathers ==
  ASSUME StartInv, NEW w \in Wizards, NEW some \in Answers, Start!Gather(w, some)
  PROVE  /\ wizard[w].at = "gather" /\ wizard'[w].at = "open env"
         /\ wizard'[w].config = Start!Gathered(w, Start!Of(some))
         /\ \A v \in Wizards \ {w} : wizard'[v] = wizard[v]
<1>1. wizard' = [wizard EXCEPT ![w].at = "open env",
        ![w].config = Start!Gathered(w, Start!Of(some))]
  BY DEF Start!Gather
<1>2. wizard[w].at = "gather"
  BY DEF Start!Gather
<1> QED
  BY <1>1, <1>2 DEF StartInv, WizardTypeOK, WizardRecord

LEMMA WizardWrites ==
  ASSUME StartInv, NEW w \in Wizards,
         Start!OpenEnv(w) \/ Start!WriteEnv(w) \/ Start!Chmod(w) \/ Start!OpenYaml(w)
           \/ Start!WriteYaml(w)
  PROVE  /\ wizard[w].at # "idle" /\ wizard'[w].at # "idle"
         /\ wizard'[w].config = wizard[w].config
         /\ \A v \in Wizards \ {w} : wizard'[v] = wizard[v]
<1>1. ASSUME NEW at \in WizardAt \ {"idle"}, Start!Goto(w, at)
      PROVE  /\ wizard'[w].at # "idle" /\ wizard'[w].config = wizard[w].config
             /\ \A v \in Wizards \ {w} : wizard'[v] = wizard[v]
  BY <1>1, GotoFacts DEF StartInv
<1>2. /\ wizard[w].at # "idle"
      /\ \E at \in WizardAt \ {"idle"} : Start!Goto(w, at)
  BY DEF Start!OpenEnv, Start!WriteEnv, Start!Chmod, Start!OpenYaml, Start!WriteYaml, WizardAt
<1> QED
  BY <1>1, <1>2

LEMMA WizardLeaves ==
  ASSUME StartInv, NEW w \in Wizards,
         Start!MarkComplete(w) \/ Start!Cancel(w) \/ Start!WizardDies(w)
  PROVE  /\ wizard[w].at # "idle" /\ wizard'[w] = Start!NoWizard
         /\ \A v \in Wizards \ {w} : wizard'[v] = wizard[v]
  BY DEF StartInv, WizardTypeOK, WizardRecord, Start!MarkComplete, Start!Cancel, Start!WizardDies

LEMMA WizardsIdleStep ==
  ASSUME StartInv, [Start!Next]_(Start!vars)
  PROVE  IdleWizards'
<1>t. StartInv /\ IdleWizards
  BY DEF StartInv
<1> USE DEF IdleWizards
<1>1. ASSUME NEW w \in Wizards,
             \/ \E auto \in BOOLEAN, some \in Environs : Start!Run(w, auto, some)
             \/ \E some \in Answers : Start!Gather(w, some)
             \/ Start!OpenEnv(w) \/ Start!WriteEnv(w) \/ Start!Chmod(w)
             \/ Start!OpenYaml(w) \/ Start!WriteYaml(w) \/ Start!MarkComplete(w)
             \/ Start!Cancel(w) \/ Start!WizardDies(w)
      PROVE  IdleWizards'
  <2>1. wizard'[w].at # "idle" \/ wizard'[w] = Start!NoWizard
    BY <1>t, <1>1, WizardRuns, WizardGathers, WizardWrites, WizardLeaves
  <2>2. \A v \in Wizards \ {w} : wizard'[v] = wizard[v]
    BY <1>t, <1>1, WizardRuns, WizardGathers, WizardWrites, WizardLeaves
  <2> QED
    BY <1>t, <2>1, <2>2
<1>2. CASE UNCHANGED wizard
  BY <1>t, <1>2
<1> QED
  BY <1>1, <1>2
  DEF Start!Next, Start!vars, Start!StartGateway, Start!ConnectRedis, Start!ConnectPool,
    Start!StartBridge, Start!StartRunner,
     Start!Readiness, Start!StopGateway, Start!RedisFails, Start!RedisRecovers

LEMMA PrivateStep ==
  ASSUME StartInv, [Start!Next]_(Start!vars)
  PROVE  PrivateInv'
<1>t. StartInv /\ WizardTypeOK /\ PrivateInv
  BY DEF StartInv
<1> USE DEF PrivateInv
<1>0. \A w \in Wizards : Start!NoWizard.at = "idle"
  BY DEF Start!NoWizard
<1>1. ASSUME NEW w \in Wizards, NEW auto \in BOOLEAN, NEW some \in Environs,
             Start!Run(w, auto, some)
      PROVE  PrivateInv'
  <2>1. wizard'[w].at = "gather" /\ \A v \in Wizards \ {w} : wizard'[v] = wizard[v]
    BY <1>1, <1>t, WizardRuns
  <2>2. UNCHANGED <<env, complete>>
    BY <1>1 DEF Start!Run
  <2> QED
    BY <1>t, <2>1, <2>2
<1>2. ASSUME NEW w \in Wizards, NEW some \in Answers, Start!Gather(w, some)
      PROVE  PrivateInv'
  <2>1. wizard'[w].at = "open env" /\ \A v \in Wizards \ {w} : wizard'[v] = wizard[v]
    BY <1>2, <1>t, WizardGathers
  <2>2. UNCHANGED <<env, complete>>
    BY <1>2 DEF Start!Gather
  <2> QED
    BY <1>t, <2>1, <2>2
<1>3. ASSUME NEW w \in Wizards, Start!OpenEnv(w)
      PROVE  PrivateInv'
  BY <1>3, <1>t, GotoFacts DEF Start!OpenEnv, WizardTypeOK, WizardAt
<1>4. ASSUME NEW w \in Wizards, Start!WriteEnv(w)
      PROVE  PrivateInv'
  BY <1>4, <1>t, GotoFacts DEF Start!WriteEnv, WizardTypeOK, WizardAt
<1>5. ASSUME NEW w \in Wizards, Start!Chmod(w)
      PROVE  PrivateInv'
  BY <1>5, <1>t, GotoFacts DEF Start!Chmod, WizardTypeOK, WizardAt
<1>6. ASSUME NEW w \in Wizards, Start!OpenYaml(w) \/ Start!WriteYaml(w)
      PROVE  PrivateInv'
  BY <1>6, <1>t, GotoFacts DEF Start!OpenYaml, Start!WriteYaml, WizardTypeOK, WizardAt
<1>7. ASSUME NEW w \in Wizards, Start!MarkComplete(w) \/ Start!Cancel(w) \/ Start!WizardDies(w)
      PROVE  PrivateInv'
  <2>1. wizard'[w].at = "idle" /\ \A v \in Wizards \ {w} : wizard'[v] = wizard[v]
    BY <1>0, <1>7, <1>t, WizardLeaves
  <2>2. env' = env /\ (wizard[w].at = "mark" \/ complete' = complete)
    BY <1>7 DEF Start!MarkComplete, Start!Cancel, Start!WizardDies
  <2>3. complete' => env'.private
    <3>1. CASE wizard[w].at = "mark"
      BY <1>t, <2>2, <3>1
    <3>2. CASE complete' = complete
      BY <1>t, <2>2, <3>2
    <3> QED
      BY <1>t, <2>2, <3>1, <3>2
  <2>4. ASSUME NEW v \in Wizards, wizard'[v].at \in {"open yaml", "write yaml", "mark"}
        PROVE  env'.private
    <3>1. v # w
      BY <2>1, <2>4
    <3>2. wizard[v].at \in {"open yaml", "write yaml", "mark"}
      BY <2>1, <2>4, <3>1
    <3> QED
      BY <1>t, <2>2, <3>2
  <2> QED
    BY <2>3, <2>4
<1>8. CASE UNCHANGED <<env, complete, wizard>>
  BY <1>t, <1>8
<1> QED
  BY <1>1, <1>2, <1>3, <1>4, <1>5, <1>6, <1>7, <1>8
  DEF Start!Next, Start!vars, Start!StartGateway, Start!ConnectRedis,
     Start!ConnectPool, Start!StartBridge, Start!StartRunner, Start!Readiness, Start!StopGateway,
       Start!RedisFails, Start!RedisRecovers

LEMMA ServicesStepInv ==
  ASSUME StartInv, [Start!Next]_(Start!vars)
  PROVE  ServicesInv'
<1> USE DEF StartInv, ServicesInv
<1>t. WizardTypeOK
  OBVIOUS
<1>0. Start!NoWizard.at = "idle" /\ ~Start!Down.configured
  BY DEF Start!NoWizard, Start!Down
<1>1. ASSUME NEW w \in Wizards, NEW auto \in BOOLEAN, NEW some \in Environs,
             Start!Run(w, auto, some)
      PROVE  ServicesInv'
  <2>1. \A s \in Start!Services : wizard'[w].config[s] # ""
    BY <1>1, WizardRuns, LoadFacts
  <2>2. \A v \in Wizards \ {w} : wizard'[v] = wizard[v]
    BY <1>1, WizardRuns
  <2>3. UNCHANGED <<env, gateway>>
    BY <1>1 DEF Start!Run
  <2> QED
    BY <2>1, <2>2, <2>3
<1>2. ASSUME NEW w \in Wizards, NEW some \in Answers, Start!Gather(w, some)
      PROVE  ServicesInv'
  <2>1. wizard[w].at = "gather" /\ wizard'[w].config = Start!Gathered(w, Start!Of(some))
    BY <1>2, WizardGathers
  <2>2. \A s \in Start!Services : wizard'[w].config[s] # ""
    BY <2>1, OfType, GatheredFacts, FieldFacts
  <2>3. \A v \in Wizards \ {w} : wizard'[v] = wizard[v]
    BY <1>2, WizardGathers
  <2>4. UNCHANGED <<env, gateway>>
    BY <1>2 DEF Start!Gather
  <2> QED
    BY <2>2, <2>3, <2>4
<1>3. ASSUME NEW w \in Wizards,
             Start!OpenEnv(w) \/ Start!WriteEnv(w) \/ Start!Chmod(w) \/ Start!OpenYaml(w)
               \/ Start!WriteYaml(w)
      PROVE  ServicesInv'
  <2>1. \A s \in Start!Services : env'.is = "there" => env'.values[s] # ""
    <3>1. CASE Start!OpenEnv(w)
      BY <3>1 DEF Start!OpenEnv
    <3>2. CASE Start!WriteEnv(w)
      <4>1. wizard[w].at # "idle"
              /\ env' = [env EXCEPT !.is = "there", !.values = wizard[w].config]
        BY <3>2 DEF Start!WriteEnv
      <4>2. env'.values = wizard[w].config
        BY <4>1, <1>t DEF WizardTypeOK
      <4> QED
        BY <4>1, <4>2
    <3>3. CASE Start!Chmod(w)
      <4>1. env'.is = env.is /\ env'.values = env.values
        BY <3>3, <1>t DEF Start!Chmod, WizardTypeOK
      <4> QED
        BY <4>1
    <3>4. CASE Start!OpenYaml(w) \/ Start!WriteYaml(w)
      BY <3>4 DEF Start!OpenYaml, Start!WriteYaml
    <3> QED
      BY <1>3, <3>1, <3>2, <3>3, <3>4
  <2>2. \A s \in Start!Services : wizard'[w].config[s] # ""
    BY <1>3, WizardWrites
  <2>3. \A v \in Wizards \ {w} : wizard'[v] = wizard[v]
    BY <1>3, WizardWrites
  <2>4. UNCHANGED gateway
    BY <1>3 DEF Start!OpenEnv, Start!WriteEnv, Start!Chmod, Start!OpenYaml, Start!WriteYaml
  <2> QED
    BY <2>1, <2>2, <2>3, <2>4
<1>4. ASSUME NEW w \in Wizards, Start!MarkComplete(w) \/ Start!Cancel(w) \/ Start!WizardDies(w)
      PROVE  ServicesInv'
  <2>1. wizard'[w].at = "idle" /\ \A v \in Wizards \ {w} : wizard'[v] = wizard[v]
    BY <1>0, <1>4, WizardLeaves
  <2>2. UNCHANGED <<env, gateway>>
    BY <1>4 DEF Start!MarkComplete, Start!Cancel, Start!WizardDies
  <2> QED
    BY <2>1, <2>2
<1>5. ASSUME NEW sourced \in BOOLEAN, NEW database \in BOOLEAN,
             Start!StartGateway(sourced, database)
      PROVE  ServicesInv'
  <2>1. /\ gateway'.configured => sourced /\ env.is = "there"
        /\ sourced => gateway'.environ = env.values
    BY <1>5 DEF Start!StartGateway, Start!Down
  <2> QED
    BY <1>5, <2>1 DEF Start!StartGateway
<1>6. ASSUME Start!ConnectRedis \/ Start!ConnectPool \/ Start!StartBridge \/ Start!StartRunner
             \/ Start!Readiness \/ Start!StopGateway
      PROVE  ServicesInv'
  <2>1. /\ gateway'.configured => gateway.configured
        /\ gateway'.configured => gateway'.environ = gateway.environ
    BY <1>0, <1>6
    DEF Start!ConnectRedis, Start!ConnectPool, Start!StartBridge, Start!StartRunner,
      Start!Readiness, Start!StopGateway,
       WizardTypeOK, GatewayRecord
  <2>2. UNCHANGED <<env, wizard>>
    BY <1>6 DEF Start!ConnectRedis, Start!ConnectPool, Start!StartBridge, Start!StartRunner,
       Start!Readiness, Start!StopGateway
  <2> QED
    BY <2>1, <2>2
<1>7. CASE UNCHANGED <<env, wizard, gateway>>
  BY <1>7
<1> QED
  BY <1>1, <1>2, <1>3, <1>4, <1>5, <1>6, <1>7
  DEF Start!Next, Start!vars, Start!RedisFails, Start!RedisRecovers

LEMMA GatewayStep ==
  ASSUME StartInv, [Start!Next]_(Start!vars)
  PROVE  GatewayInv'
<1> USE DEF StartInv, GatewayInv
<1>t. WizardTypeOK
  OBVIOUS
<1>1. ASSUME NEW w \in Wizards,
             \/ \E auto \in BOOLEAN, some \in Environs : Start!Run(w, auto, some)
             \/ \E some \in Answers : Start!Gather(w, some)
             \/ Start!OpenEnv(w) \/ Start!WriteEnv(w) \/ Start!Chmod(w)
             \/ Start!OpenYaml(w) \/ Start!WriteYaml(w) \/ Start!MarkComplete(w)
             \/ Start!Cancel(w) \/ Start!WizardDies(w)
      PROVE  GatewayInv'
  <2>1. UNCHANGED <<gateway, redisUp>>
    BY <1>1 DEF Start!Run, Start!Gather, Start!OpenEnv, Start!WriteEnv, Start!Chmod,
       Start!OpenYaml, Start!WriteYaml, Start!MarkComplete, Start!Cancel,
       Start!WizardDies
  <2>2. started.faults > 0 => started'.faults > 0
    BY <1>1, SpendFacts
    DEF Start!Run, Start!Gather, Start!OpenEnv, Start!WriteEnv, Start!Chmod, Start!OpenYaml,
      Start!WriteYaml, Start!MarkComplete,
       Start!Cancel, Start!WizardDies, WizardTypeOK
  <2> QED
    BY <2>1, <2>2
<1>2. ASSUME NEW sourced \in BOOLEAN, NEW database \in BOOLEAN,
             Start!StartGateway(sourced, database)
      PROVE  GatewayInv'
  <2>1. gateway'.at = "redis" /\ redisUp' = redisUp
    BY <1>2 DEF Start!StartGateway, Start!Down
  <2>2. started'.faults = started.faults
    BY <1>2, SpendFacts DEF Start!StartGateway
  <2> QED
    BY <2>1, <2>2
<1>3. CASE Start!ConnectRedis
  <2>1. gateway.configured => gateway.environ["REDIS_URL"] # ""
    BY FieldFacts DEF ServicesInv
  <2> QED
    BY <1>3, <2>1 DEF Start!ConnectRedis, WizardTypeOK, GatewayRecord
<1>4. CASE Start!ConnectPool
  BY <1>4 DEF Start!ConnectPool, WizardTypeOK, GatewayRecord
<1>5. CASE Start!StartBridge
  <2>1. gateway.configured => gateway.environ["OPENCLAW_WS_URL"] # ""
    BY FieldFacts DEF ServicesInv
  <2> QED
    BY <1>5, <2>1 DEF Start!StartBridge, WizardTypeOK, GatewayRecord
<1>6. CASE Start!StartRunner
  BY <1>6 DEF Start!StartRunner, WizardTypeOK, GatewayRecord
<1>7. CASE Start!Readiness
  BY <1>7 DEF Start!Readiness, WizardTypeOK, GatewayRecord
<1>8. CASE Start!StopGateway
  BY <1>8 DEF Start!StopGateway, Start!Down
<1>9. CASE Start!RedisFails
  BY <1>9, SpendFacts DEF Start!RedisFails
<1>10. CASE Start!RedisRecovers
  BY <1>10 DEF Start!RedisRecovers
<1>11. CASE UNCHANGED Start!vars
  BY <1>11 DEF Start!vars
<1> QED
  BY <1>1, <1>2, <1>3, <1>4, <1>5, <1>6, <1>7, <1>8, <1>9, <1>10, <1>11 DEF Start!Next

-----------------------------------------------------------------------------
\* A step of a wizard that overlaps no other leaves the others where they are: idle.
LEMMA WizardAlone ==
  ASSUME StartInv, ~wizardOverlaps, NEW w \in Wizards, wizard[w].at # "idle"
  PROVE  \A v \in Wizards \ {w} : wizard[v] = Start!NoWizard
<1>1. wizard[w] # Start!NoWizard
  BY DEF Start!NoWizard
<1> QED
  BY <1>1 DEF StartInv, SettingsInv, OneWizard

\* It is enough to look at the wizard that takes the step.
LEMMA SettingsFromOne ==
  ASSUME NEW w \in Wizards,
         \A v \in Wizards \ {w} : wizard'[v] = Start!NoWizard,
         started'.faults = 0 /\ wizard'[w].at # "idle" => WizardHolds(w)',
         started'.faults = 0 /\ wizard'[w] = Start!NoWizard => FilesWhole'
  PROVE  SettingsInv'
<1>1. OneWizard'
  BY DEF OneWizard
<1>2. Start!NoWizard.at = "idle"
  BY DEF Start!NoWizard
<1>3. ASSUME started'.faults = 0
      PROVE  \A v \in Wizards : wizard'[v].at # "idle" => WizardHolds(v)'
  BY <1>2, <1>3
<1> QED
  BY <1>1, <1>3 DEF SettingsInv

LEMMA SettingsStep ==
  ASSUME StartInv, [Start!Next]_(Start!vars)
  PROVE  SettingsInv'
<1>t. WizardTypeOK /\ IdleWizards /\ SettingsInv
  BY DEF StartInv
<1>0. Start!NoWizard.at = "idle"
  BY DEF Start!NoWizard
<1>1. ASSUME NEW w \in Wizards, NEW auto \in BOOLEAN, NEW some \in Environs,
             Start!Run(w, auto, some)
      PROVE  SettingsInv'
  <2> SUFFICES ASSUME ~wizardOverlaps' PROVE SettingsInv'
    BY DEF SettingsInv
  <2>1. ~wizardOverlaps /\ \A v \in Wizards \ {w} : wizard[v] = Start!NoWizard
    BY <1>1 DEF Start!Run
  <2>2. /\ wizard[w] = Start!NoWizard /\ wizard'[w].at = "gather"
        /\ wizard'[w].config = Start!LoadExistingEnv
        /\ \A v \in Wizards \ {w} : wizard'[v] = Start!NoWizard
    BY <1>1, <2>1, WizardRuns
  <2>3. UNCHANGED <<env, yaml, complete, kept>> /\ started'.faults = started.faults
    BY <1>1, <1>t, SpendFacts DEF Start!Run
  <2>4. started.faults = 0 => FilesWhole
    BY <1>t, <2>1, <2>2 DEF SettingsInv
  <2>5. ASSUME started'.faults = 0
        PROVE  WizardHolds(w)'
    <3>1. FilesWhole /\ FilesWhole'
      BY <2>3, <2>4, <2>5 DEF FilesWhole
    <3>2. \A f \in kept' : wizard'[w].config[f] # ""
      BY <1>t, <2>2, <2>3, <3>1, LoadFacts DEF FilesWhole, WizardTypeOK
    <3> QED
      BY <2>2, <3>1, <3>2 DEF WizardHolds
  <2> QED
    BY <1>0, <2>2, <2>5, SettingsFromOne
<1>2. ASSUME NEW w \in Wizards, NEW some \in Answers, Start!Gather(w, some)
      PROVE  SettingsInv'
  <2> SUFFICES ASSUME ~wizardOverlaps' PROVE SettingsInv'
    BY DEF SettingsInv
  <2>1. UNCHANGED <<env, yaml, complete, started, kept, wizardOverlaps>>
    BY <1>2 DEF Start!Gather
  <2>2. /\ wizard[w].at = "gather" /\ wizard'[w].at = "open env"
        /\ wizard'[w].config = Start!Gathered(w, Start!Of(some))
        /\ \A v \in Wizards \ {w} : wizard'[v] = wizard[v]
    BY <1>2, WizardGathers
  <2>3. \A v \in Wizards \ {w} : wizard'[v] = Start!NoWizard
    BY <2>1, <2>2, WizardAlone
  <2>4. ASSUME started'.faults = 0
        PROVE  WizardHolds(w)'
    <3>1. WizardHolds(w)
      BY <1>t, <2>1, <2>2, <2>4 DEF SettingsInv
    <3>2. FilesWhole'
      BY <2>1, <2>2, <3>1 DEF WizardHolds, FilesWhole
    <3>3. \A f \in kept : wizard'[w].config[f] # ""
      <4>1. \A f \in kept : f \in Start!Field /\ wizard[w].config[f] # ""
        BY <1>t, <3>1 DEF WizardHolds, WizardTypeOK
      <4>2. \A f \in Start!Field : wizard[w].config[f] # ""
              => Start!Gathered(w, Start!Of(some))[f] # ""
        BY <1>t, OfType, GatheredFacts
      <4> QED
        BY <2>2, <4>1, <4>2
    <3> QED
      BY <2>1, <2>2, <3>2, <3>3 DEF WizardHolds
  <2> QED
    BY <1>0, <2>2, <2>3, <2>4, SettingsFromOne
<1>3. ASSUME NEW w \in Wizards,
             Start!OpenEnv(w) \/ Start!WriteEnv(w) \/ Start!Chmod(w) \/ Start!OpenYaml(w)
               \/ Start!WriteYaml(w)
      PROVE  SettingsInv'
  <2> SUFFICES ASSUME ~wizardOverlaps' PROVE SettingsInv'
    BY DEF SettingsInv
  <2>1. UNCHANGED <<complete, started, kept, wizardOverlaps>>
    BY <1>3 DEF Start!OpenEnv, Start!WriteEnv, Start!Chmod, Start!OpenYaml, Start!WriteYaml
  <2>2. /\ wizard[w].at # "idle" /\ wizard'[w].at # "idle"
        /\ wizard'[w].config = wizard[w].config
        /\ \A v \in Wizards \ {w} : wizard'[v] = wizard[v]
    BY <1>3, WizardWrites
  <2>3. \A v \in Wizards \ {w} : wizard'[v] = Start!NoWizard
    BY <2>1, <2>2, WizardAlone
  <2>4. ASSUME started'.faults = 0
        PROVE  WizardHolds(w)'
    <3>1. WizardHolds(w)
      BY <1>t, <2>1, <2>2, <2>4 DEF SettingsInv
    <3>2. \A f \in kept' : wizard'[w].config[f] # ""
      BY <2>1, <2>2, <3>1 DEF WizardHolds
    <3>3. CASE Start!OpenEnv(w)
      <4>1. wizard'[w].at = "write env"
        BY <1>t, <3>3, GotoFacts DEF Start!OpenEnv, WizardAt
      <4> QED
        BY <3>2, <4>1 DEF WizardHolds
    <3>4. CASE Start!WriteEnv(w)
      <4>1. wizard'[w].at = "chmod"
              /\ env' = [env EXCEPT !.is = "there", !.values = wizard[w].config]
        BY <1>t, <3>4, GotoFacts DEF Start!WriteEnv, WizardAt
      <4>2. env'.values = wizard'[w].config
        BY <1>t, <2>2, <4>1 DEF WizardTypeOK
      <4> QED
        BY <3>2, <4>1, <4>2 DEF WizardHolds
    <3>5. CASE Start!Chmod(w)
      <4>1. wizard[w].at = "chmod" /\ wizard'[w].at = "open yaml"
        BY <1>t, <3>5, GotoFacts DEF Start!Chmod, WizardAt
      <4>2. env'.values = env.values
        BY <1>t, <3>5 DEF Start!Chmod, WizardTypeOK
      <4> QED
        BY <2>2, <3>1, <3>2, <4>1, <4>2 DEF WizardHolds
    <3>6. CASE Start!OpenYaml(w)
      <4>1. wizard[w].at = "open yaml" /\ wizard'[w].at = "write yaml" /\ env' = env
        BY <1>t, <3>6, GotoFacts DEF Start!OpenYaml, WizardAt
      <4> QED
        BY <2>2, <3>1, <3>2, <4>1 DEF WizardHolds
    <3>7. CASE Start!WriteYaml(w)
      <4>1. /\ wizard[w].at = "write yaml" /\ wizard'[w].at = "mark" /\ env' = env
            /\ yaml'.url = wizard[w].config["OPENCLAW_WS_URL"]
        BY <1>t, <3>7, GotoFacts DEF Start!WriteYaml, WizardAt
      <4> QED
        BY <2>2, <3>1, <3>2, <4>1 DEF WizardHolds
    <3> QED
      BY <1>3, <3>3, <3>4, <3>5, <3>6, <3>7
  <2> QED
    BY <1>0, <2>2, <2>3, <2>4, SettingsFromOne
<1>4. ASSUME NEW w \in Wizards, Start!MarkComplete(w) \/ Start!Cancel(w) \/ Start!WizardDies(w)
      PROVE  SettingsInv'
  <2> SUFFICES ASSUME ~wizardOverlaps' PROVE SettingsInv'
    BY DEF SettingsInv
  <2>1. UNCHANGED <<env, yaml, wizardOverlaps>>
    BY <1>4 DEF Start!MarkComplete, Start!Cancel, Start!WizardDies
  <2>2. /\ wizard[w].at # "idle" /\ wizard'[w] = Start!NoWizard
        /\ \A v \in Wizards \ {w} : wizard'[v] = wizard[v]
    BY <1>4, WizardLeaves
  <2>3. \A v \in Wizards \ {w} : wizard'[v] = Start!NoWizard
    BY <2>1, <2>2, WizardAlone
  <2>4. ASSUME started'.faults = 0
        PROVE  FilesWhole'
    <3>1. ~Start!WizardDies(w)
      BY <1>t, <2>4, SpendFacts DEF Start!WizardDies
    <3>2. started' = started
      BY <1>4, <3>1 DEF Start!MarkComplete, Start!Cancel
    <3>3. WizardHolds(w)
      BY <1>t, <2>1, <2>2, <2>4, <3>2 DEF SettingsInv
    <3>4. CASE Start!MarkComplete(w)
      <4>1. /\ wizard[w].at = "mark"
            /\ kept' = kept \cup {f \in Start!Field : wizard[w].config[f] # ""}
        BY <3>4 DEF Start!MarkComplete
      <4> QED
        BY <2>1, <3>3, <4>1 DEF WizardHolds, FilesWhole
    <3>5. CASE Start!Cancel(w)
      <4>1. wizard[w].at = "gather" /\ UNCHANGED <<complete, kept>>
        BY <3>5 DEF Start!Cancel
      <4> QED
        BY <2>1, <3>3, <4>1 DEF WizardHolds, FilesWhole
    <3> QED
      BY <1>4, <3>1, <3>4, <3>5
  <2> QED
    BY <1>0, <2>2, <2>3, <2>4, SettingsFromOne
<1>5. ASSUME UNCHANGED <<env, yaml, complete, wizard, kept, wizardOverlaps>>,
             started.faults = started'.faults \/ started'.faults > 0
      PROVE  SettingsInv'
  <2> SUFFICES ASSUME ~wizardOverlaps' PROVE SettingsInv'
    BY DEF SettingsInv
  <2>1. OneWizard'
    BY <1>5, <1>t DEF SettingsInv, OneWizard
  <2>2. ASSUME started'.faults = 0
        PROVE  /\ \A w \in Wizards : wizard'[w].at # "idle" => WizardHolds(w)'
               /\ (\A w \in Wizards : wizard'[w] = Start!NoWizard) => FilesWhole'
    <3>1. started.faults = 0
      BY <1>5, <2>2
    <3>2. /\ \A w \in Wizards : wizard[w].at # "idle" => WizardHolds(w)
          /\ (\A w \in Wizards : wizard[w] = Start!NoWizard) => FilesWhole
      BY <1>5, <1>t, <3>1 DEF SettingsInv
    <3>3. FilesWhole' = FilesWhole
      BY <1>5 DEF FilesWhole
    <3>4. \A w \in Wizards : WizardHolds(w) => WizardHolds(w)'
      BY <1>5, <3>3 DEF WizardHolds
    <3> QED
      BY <1>5, <3>2, <3>3, <3>4
  <2> QED
    BY <2>1, <2>2 DEF SettingsInv
<1>6. ASSUME NEW sourced \in BOOLEAN, NEW database \in BOOLEAN,
             Start!StartGateway(sourced, database)
      PROVE  SettingsInv'
  BY <1>5, <1>6, <1>t, SpendFacts DEF Start!StartGateway
<1>7. CASE Start!ConnectRedis \/ Start!ConnectPool \/ Start!StartBridge \/ Start!StartRunner
        \/ Start!Readiness \/ Start!StopGateway
  BY <1>5, <1>7
  DEF Start!ConnectRedis, Start!ConnectPool, Start!StartBridge, Start!StartRunner,
    Start!Readiness, Start!StopGateway
<1>8. CASE Start!RedisFails \/ Start!RedisRecovers
  BY <1>5, <1>8, <1>t, SpendFacts DEF Start!RedisFails, Start!RedisRecovers
<1>9. CASE UNCHANGED Start!vars
  BY <1>5, <1>9 DEF Start!vars
<1> QED
  BY <1>1, <1>2, <1>3, <1>4, <1>6, <1>7, <1>8, <1>9 DEF Start!Next

LEMMA StartInvStep == StartInv /\ [Start!Next]_(Start!vars) => StartInv'
<1> SUFFICES ASSUME StartInv, [Start!Next]_(Start!vars) PROVE StartInv'
  OBVIOUS
<1>1. WizardTypeOK'
  BY StartTypeStep DEF StartInv
<1>2. IdleWizards' /\ PrivateInv' /\ ServicesInv' /\ GatewayInv' /\ SettingsInv'
  BY WizardsIdleStep, PrivateStep, ServicesStepInv, GatewayStep, SettingsStep
<1> QED
  BY <1>1, <1>2 DEF StartInv

LEMMA StartHolds == StartInv => Start!SettingsArrive
<1> SUFFICES ASSUME StartInv PROVE Start!SettingsArrive
  OBVIOUS
<1>1. Start!CompleteIsPrivate
  BY DEF StartInv, PrivateInv, Start!CompleteIsPrivate
<1>2. Start!SettingsSurvive
  BY DEF StartInv, SettingsInv, FilesWhole, Start!SettingsSurvive
<1>3. gateway.at \in {"runner", "up"} /\ gateway.configured =>
         (gateway.bus \/ started.faults > 0) /\ gateway.bridge
  BY DEF StartInv, GatewayInv
<1> QED
  BY <1>1, <1>2, <1>3 DEF Start!SettingsArrive, StartInv, WizardTypeOK, GatewayRecord, GatewayAt

\* SetupWizard and lifespan: a completed setup is private; without overlap or death no
\* setting is lost, whatever is cancelled or left blank; and a gateway that was given a
\* completed setup has its bridge, and its event bus unless Redis was down.
THEOREM SettingsArriveTheorem == Spec => []SettingsArrive
<1>1. Start!Init => StartInv
  BY StartInitInv, ServicesAssumption DEF ServicesAssumption
<1>2. StartInv /\ [Start!Next]_(Start!vars) => StartInv'
  BY StartInvStep, ServicesAssumption DEF ServicesAssumption
<1>3. StartInv => SettingsArrive
  BY StartHolds DEF SettingsArrive
<1> QED
  BY <1>1, <1>2, <1>3, StartPart, PTL DEF Start!Spec

-----------------------------------------------------------------------------
(* Hardware.                                                               *)
(* AnswersMatchMachine says what an answer means when its call is over. On *)
(* the way there, MachineInv says for each limit that the call sets what   *)
(* the command for it has made of it so far; a call has no two commands    *)
(* for one limit and none for two tools (PowerFacts, FanFacts), and while  *)
(* the last call was alone no other runs.                                  *)

LEMMA HardwarePart == Spec => Hardware!Spec
<1>1. [Next]_vars => [Hardware!Next]_(Hardware!vars)
  BY PartSteps DEF hardwareVars, Hardware!vars
<1> QED
  BY <1>1, PartInits, PTL DEF Spec, Hardware!Spec

LimitNames == Hardware!Limits \cup Fans

ToolNames == {"ryzenadj", "nvidia-smi", "nbfc"}

LimitValue == Nat \cup Speeds \cup {AutoSpeed, None}
             \cup UNION {{given[k] : k \in DOMAIN given} : given \in Explicit}

CommandRecord == UNION {[tool : ToolNames, sets : [names -> LimitValue]] :
  names \in SUBSET LimitNames}

HardwareRecord == [at : {"idle", "next", "run", "ended"}, commands : Seq(CommandRecord),
               todo : Seq(CommandRecord), left : SUBSET LimitNames, applied : SUBSET ToolNames,
               before : [LimitNames -> LimitValue] \cup {<<>>}, alone : BOOLEAN]

MachineTypeOK ==
    /\ setting \in [LimitNames -> LimitValue]
    /\ hardwareCall \in [Calls -> HardwareRecord]

-----------------------------------------------------------------------------
\* The commands of a call are of different tools and set different limits.
Apart(commands) ==
    \A i, j \in DOMAIN commands : i # j =>
        /\ commands[i].tool # commands[j].tool
        /\ DOMAIN commands[i].sets \cap DOMAIN commands[j].sets = {}

\* How many of them are over.
CommandsDone(c) == Len(hardwareCall[c].commands) - Len(hardwareCall[c].todo)

\* What is left to do is the end of the list, and none of it is reported as applied.
ProgressInv(c) ==
    /\ Apart(hardwareCall[c].commands)
    /\ Len(hardwareCall[c].todo) <= Len(hardwareCall[c].commands)
    /\ \A i \in DOMAIN hardwareCall[c].todo :
         hardwareCall[c].todo[i] = hardwareCall[c].commands[CommandsDone(c) + i]
    /\ \A i \in DOMAIN hardwareCall[c].commands : i > CommandsDone(c) =>
          hardwareCall[c].commands[i].tool \notin hardwareCall[c].applied
    /\ hardwareCall[c].at = "run"
         => hardwareCall[c].todo # <<>> /\ hardwareCall[c].left \subseteq DOMAIN Hardware!Sets(c)

\* Has the command that runs set the limit?
HasSet(c, i, k) == hardwareCall[c].at = "run" /\ i = CommandsDone(c) + 1
  /\ k \notin hardwareCall[c].left

\* What command i of a call has made of a limit that it sets.
LimitInv(c, i, k) ==
    \/ setting[k] = hardwareCall[c].commands[i].sets[k]
         /\ (i <= CommandsDone(c) \/ HasSet(c, i, k))
    \/ /\ setting[k] = hardwareCall[c].before[k]
       /\ ~HasSet(c, i, k)
       /\ hardwareCall[c].commands[i].tool \notin hardwareCall[c].applied

\* While the last call has been alone, the machine is what its commands made of it.
MachineInv(c) ==
    /\ \A d \in Calls \ {c} : ~Hardware!Running(d)
    /\ \A k \in LimitNames :
         /\ (\A i \in DOMAIN hardwareCall[c].commands :
              k \notin DOMAIN hardwareCall[c].commands[i].sets) =>
               setting[k] = hardwareCall[c].before[k]
         /\ \A i \in DOMAIN hardwareCall[c].commands :
               k \in DOMAIN hardwareCall[c].commands[i].sets => LimitInv(c, i, k)

HardwareInv ==
    /\ MachineTypeOK
    /\ \A c \in Calls : ProgressInv(c)
    /\ \A c \in Calls : last = c /\ hardwareCall[c].alone => MachineInv(c)

-----------------------------------------------------------------------------
(* The commands of a call.                                                 *)

LEMMA CommandFacts ==
  ASSUME NEW tool \in ToolNames, NEW names \in SUBSET LimitNames,
         NEW sets \in [names -> LimitValue]
  PROVE  /\ Hardware!Command(tool, sets) \in Seq(CommandRecord)
         /\ Len(Hardware!Command(tool, sets)) <= 1
         /\ \A i \in DOMAIN Hardware!Command(tool, sets) :
              Hardware!Command(tool, sets)[i].tool = tool
                /\ DOMAIN Hardware!Command(tool, sets)[i].sets = names
<1>1. [tool |-> tool, sets |-> sets] \in CommandRecord
  <2>1. [tool |-> tool, sets |-> sets] \in [tool : ToolNames, sets : [names -> LimitValue]]
    OBVIOUS
  <2> QED
    BY <2>1 DEF CommandRecord
<1> QED
  BY <1>1 DEF Hardware!Command

LEMMA PowerFacts ==
  ASSUME Hardware!HardwareAssumption, NEW profile \in DOMAIN Profiles \cup {None},
         NEW explicit \in Explicit
  PROVE  /\ Hardware!PowerCommands(profile, explicit) \in Seq(CommandRecord)
         /\ Apart(Hardware!PowerCommands(profile, explicit))
<1> DEFINE watts == Hardware!Effective(profile, explicit)
           Given(S) == [k \in {l \in S : watts[l] # None} |-> watts[k]]
           first == Hardware!Command("ryzenadj", Given(Hardware!Cpu))
           second == Hardware!Command("nvidia-smi", Given({"gpu"}))
<1>1. \A k \in Hardware!Limits : watts[k] \in LimitValue
  <2> TAKE k \in Hardware!Limits
  <2>1. CASE k \in DOMAIN explicit
    <3>1. explicit[k] \in {explicit[l] : l \in DOMAIN explicit}
      BY <2>1
    <3>2. explicit[k] \in LimitValue
      BY <3>1 DEF LimitValue
    <3> QED
      BY <2>1, <3>2 DEF Hardware!Effective
  <2>2. CASE k \notin DOMAIN explicit /\ profile = None
    BY <2>2 DEF Hardware!Effective, LimitValue
  <2>3. CASE k \notin DOMAIN explicit /\ profile # None
    BY <2>3 DEF Hardware!Effective, LimitValue, Hardware!HardwareAssumption
  <2> QED
    BY <2>1, <2>2, <2>3
<1>2. Hardware!Cpu \subseteq Hardware!Limits /\ {"gpu"} \subseteq Hardware!Limits
        /\ Hardware!Cpu \cap {"gpu"} = {} /\ Hardware!Limits \subseteq LimitNames
  BY DEF Hardware!Limits, Hardware!Cpu, LimitNames
<1> HIDE DEF watts
<1>3. \A S \in SUBSET Hardware!Limits : Given(S) \in [{l \in S : watts[l] # None} -> LimitValue]
  BY <1>1
<1>4. /\ first \in Seq(CommandRecord) /\ Len(first) <= 1
      /\ \A i \in DOMAIN first : first[i].tool = "ryzenadj"
           /\ DOMAIN first[i].sets \subseteq Hardware!Cpu
  <2> DEFINE names == {l \in Hardware!Cpu : watts[l] # None}
  <2>1. names \in SUBSET LimitNames /\ Given(Hardware!Cpu) \in [names -> LimitValue]
          /\ "ryzenadj" \in ToolNames
    BY <1>2, <1>3 DEF ToolNames
  <2> HIDE DEF Given
  <2> QED
    BY <2>1, CommandFacts
<1>5. /\ second \in Seq(CommandRecord) /\ Len(second) <= 1
      /\ \A i \in DOMAIN second :
           second[i].tool = "nvidia-smi" /\ DOMAIN second[i].sets \subseteq {"gpu"}
  <2> DEFINE names == {l \in {"gpu"} : watts[l] # None}
  <2>1. names \in SUBSET LimitNames /\ Given({"gpu"}) \in [names -> LimitValue]
          /\ "nvidia-smi" \in ToolNames
    BY <1>2, <1>3 DEF ToolNames
  <2> HIDE DEF Given
  <2> QED
    BY <2>1, CommandFacts
<1>6. Hardware!PowerCommands(profile, explicit) = first \o second
  BY DEF Hardware!PowerCommands, watts
<1> HIDE DEF first, second
<1>7. \A i \in DOMAIN (first \o second) :
         \/ i \in DOMAIN first /\ (first \o second)[i] = first[i]
         \/ i - Len(first) \in DOMAIN second /\ (first \o second)[i] = second[i - Len(first)]
  BY <1>4, <1>5
<1>8. \A i, j \in DOMAIN (first \o second) : i # j =>
         \/ (first \o second)[i].tool = "ryzenadj" /\ (first \o second)[j].tool = "nvidia-smi"
            /\ DOMAIN (first \o second)[i].sets \subseteq Hardware!Cpu
            /\ DOMAIN (first \o second)[j].sets \subseteq {"gpu"}
         \/ (first \o second)[j].tool = "ryzenadj" /\ (first \o second)[i].tool = "nvidia-smi"
            /\ DOMAIN (first \o second)[j].sets \subseteq Hardware!Cpu
            /\ DOMAIN (first \o second)[i].sets \subseteq {"gpu"}
  <2>1. \A i, j \in DOMAIN first : i = j
    BY <1>4
  <2>2. \A i, j \in DOMAIN second : i = j
    BY <1>5
  <2>3. ASSUME NEW i \in DOMAIN (first \o second), NEW j \in DOMAIN (first \o second),
               i - Len(first) \in DOMAIN second, j - Len(first) \in DOMAIN second
        PROVE  i = j
    <3>1. i \in Int /\ j \in Int /\ Len(first) \in Int
      BY <1>4, <1>5
    <3>2. i - Len(first) = j - Len(first)
      BY <2>2, <2>3
    <3> QED
      BY <3>1, <3>2
  <2> QED
    BY <1>4, <1>5, <1>7, <2>1, <2>3
<1>9. Apart(first \o second)
  BY <1>2, <1>8 DEF Apart
<1> QED
  BY <1>4, <1>5, <1>6, <1>9

LEMMA FanFacts ==
  ASSUME NEW fan \in Fans \cup {None}, NEW speed \in Speeds
  PROVE  /\ Hardware!FanCommands(fan, speed) \in Seq(CommandRecord)
         /\ Apart(Hardware!FanCommands(fan, speed))
<1> DEFINE names == IF fan = None THEN Fans ELSE {fan}
<1>1. names \in SUBSET LimitNames /\ [f \in names |-> speed] \in [names -> LimitValue]
        /\ "nbfc" \in ToolNames
  BY DEF LimitNames, ToolNames, LimitValue
<1>2. \/ Hardware!FanCommands(fan, speed) = Hardware!Command("nbfc", [f \in names |-> speed])
      \/ Hardware!FanCommands(fan, speed) = <<>>
  BY DEF Hardware!FanCommands
<1> HIDE DEF names
<1>3. Hardware!FanCommands(fan, speed) \in Seq(CommandRecord)
        /\ Len(Hardware!FanCommands(fan, speed)) <= 1
  <2>1. /\ Hardware!Command("nbfc", [f \in names |-> speed]) \in Seq(CommandRecord)
        /\ Len(Hardware!Command("nbfc", [f \in names |-> speed])) <= 1
    BY <1>1, CommandFacts
  <2>2. <<>> \in Seq(CommandRecord) /\ Len(<<>>) <= 1
    OBVIOUS
  <2>3. CASE Hardware!FanCommands(fan, speed) = <<>>
    BY <2>2, <2>3
  <2>4. CASE Hardware!FanCommands(fan, speed) = Hardware!Command("nbfc", [f \in names |-> speed])
    BY <2>1, <2>4
  <2> QED
    BY <1>2, <2>3, <2>4
<1>4. \A i, j \in DOMAIN Hardware!FanCommands(fan, speed) : i = j
  BY <1>3
<1> QED
  BY <1>3, <1>4 DEF Apart
-----------------------------------------------------------------------------
LEMMA HardwareInitInv == Hardware!HardwareAssumption /\ Hardware!Init => HardwareInv
<1> SUFFICES ASSUME Hardware!HardwareAssumption, Hardware!Init PROVE HardwareInv
  OBVIOUS
<1>1. Hardware!Idle \in HardwareRecord
  BY DEF Hardware!Idle, HardwareRecord
<1>2. MachineTypeOK
  <2>1. setting \in [LimitNames -> LimitValue]
    BY DEF Hardware!Init, LimitNames, LimitValue
  <2>2. hardwareCall \in [Calls -> HardwareRecord]
    BY <1>1 DEF Hardware!Init
  <2> QED
    BY <2>1, <2>2 DEF MachineTypeOK
<1>3. \A c \in Calls : ProgressInv(c)
  BY DEF Hardware!Init, Hardware!Idle, ProgressInv, Apart, CommandsDone
<1>4. \A c \in Calls : ~hardwareCall[c].alone
  BY DEF Hardware!Init, Hardware!Idle
<1> QED
  BY <1>2, <1>3, <1>4 DEF HardwareInv

\* The head of what is left to do is the command after those that are over.
LEMMA TodoFacts ==
  ASSUME HardwareInv, NEW c \in Calls, hardwareCall[c].todo # <<>>
  PROVE  /\ CommandsDone(c) \in Nat /\ CommandsDone(c) + 1 \in DOMAIN hardwareCall[c].commands
         /\ Head(hardwareCall[c].todo) = hardwareCall[c].commands[CommandsDone(c) + 1]
         /\ Head(hardwareCall[c].todo) \in CommandRecord
<1>1. hardwareCall[c].todo \in Seq(CommandRecord)
        /\ hardwareCall[c].commands \in Seq(CommandRecord)
  BY DEF HardwareInv, MachineTypeOK, HardwareRecord
<1>2. /\ Len(hardwareCall[c].todo) <= Len(hardwareCall[c].commands)
      /\ \A i \in DOMAIN hardwareCall[c].todo :
           hardwareCall[c].todo[i] = hardwareCall[c].commands[CommandsDone(c) + i]
  BY DEF HardwareInv, ProgressInv
<1>3. CommandsDone(c) \in Nat /\ 1 \in DOMAIN hardwareCall[c].todo
        /\ CommandsDone(c) + 1 \in DOMAIN hardwareCall[c].commands
  <2>1. /\ Len(hardwareCall[c].todo) \in Nat /\ Len(hardwareCall[c].commands) \in Nat
        /\ Len(hardwareCall[c].todo) # 0
        /\ DOMAIN hardwareCall[c].todo = 1 .. Len(hardwareCall[c].todo)
        /\ DOMAIN hardwareCall[c].commands = 1 .. Len(hardwareCall[c].commands)
    BY <1>1
  <2>2. \A m, n \in Nat : m # 0 /\ m <= n => n - m \in Nat /\ (n - m) + 1 \in 1 .. n
    OBVIOUS
  <2>3. Len(hardwareCall[c].commands) - Len(hardwareCall[c].todo) \in Nat
        /\ (Len(hardwareCall[c].commands) - Len(hardwareCall[c].todo)) + 1
             \in 1 .. Len(hardwareCall[c].commands)
    BY <1>2, <2>1, <2>2
  <2>4. CommandsDone(c) \in Nat /\ CommandsDone(c) + 1 \in DOMAIN hardwareCall[c].commands
    BY <2>1, <2>3 DEF CommandsDone
  <2>5. 1 \in DOMAIN hardwareCall[c].todo
    BY <2>1
  <2> QED
    BY <2>4, <2>5
<1>4. Head(hardwareCall[c].todo) = hardwareCall[c].todo[1]
        /\ Head(hardwareCall[c].todo) \in CommandRecord
  BY <1>1
<1> QED
  BY <1>2, <1>3, <1>4

\* A running call is the only one that the last one can be alone with: itself.
LEMMA HardwareFromOne ==
  ASSUME HardwareInv, NEW c \in Calls, Hardware!Running(c),
         last' = last, \A d \in Calls \ {c} : hardwareCall'[d] = hardwareCall[d],
         MachineTypeOK', ProgressInv(c)', hardwareCall'[c].alone = hardwareCall[c].alone,
         last = c /\ hardwareCall[c].alone =>
            \A k \in LimitNames :
              /\ (\A i \in DOMAIN hardwareCall'[c].commands :
                   k \notin DOMAIN hardwareCall'[c].commands[i].sets) =>
                    setting'[k] = hardwareCall'[c].before[k]
              /\ \A i \in DOMAIN hardwareCall'[c].commands :
                    k \in DOMAIN hardwareCall'[c].commands[i].sets => LimitInv(c, i, k)'
  PROVE  HardwareInv'
<1>1. ASSUME NEW d \in Calls \ {c}
      PROVE  ProgressInv(d)' /\ ~(last' = d /\ hardwareCall'[d].alone)
  <2>1. ProgressInv(d)'
    <3>1. ProgressInv(d)
      BY DEF HardwareInv
    <3>2. hardwareCall'[d] = hardwareCall[d]
      OBVIOUS
    <3>3. CommandsDone(d)' = CommandsDone(d) /\ Hardware!Sets(d)' = Hardware!Sets(d)
      BY <3>2 DEF CommandsDone, Hardware!Sets
    <3> QED
      BY <3>1, <3>2, <3>3 DEF ProgressInv
  <2>2. ~(last = d /\ hardwareCall[d].alone)
    BY DEF HardwareInv, MachineInv
  <2> QED
    BY <2>1, <2>2
<1>2. last = c /\ hardwareCall[c].alone => MachineInv(c)'
  <2>1. last = c /\ hardwareCall[c].alone => \A d \in Calls \ {c} : ~Hardware!Running(d)'
    BY DEF HardwareInv, MachineInv, Hardware!Running
  <2> QED
    BY <2>1 DEF MachineInv
<1> QED
  BY <1>1, <1>2 DEF HardwareInv

LEMMA HardwareBeginStep ==
  ASSUME HardwareInv, NEW c \in Calls, NEW commands \in Seq(CommandRecord), Apart(commands),
         Hardware!Begin(c, commands)
  PROVE  HardwareInv'
<1> DEFINE others == {d \in Calls \ {c} : Hardware!Running(d)}
           new == [Hardware!Idle EXCEPT !.at = "next", !.commands = commands, !.todo = commands,
                               !.before = setting, !.alone = (others = {})]
<1>t. MachineTypeOK
  BY DEF HardwareInv
<1>1. Hardware!Idle \in HardwareRecord /\ Hardware!Idle.applied = {}
  BY DEF Hardware!Idle, HardwareRecord
<1>2. /\ new \in HardwareRecord
      /\ new.at = "next" /\ new.commands = commands /\ new.todo = commands
      /\ new.applied = {} /\ new.before = setting /\ (new.alone => others = {})
  <2>1. (others = {}) \in BOOLEAN
    OBVIOUS
  <2>2. setting \in [LimitNames -> LimitValue]
    BY <1>t DEF MachineTypeOK
  <2> HIDE DEF others
  <2> QED
    BY <1>1, <2>1, <2>2 DEF HardwareRecord
<1>3. /\ hardwareCall'[c] = new /\ last' = c /\ setting' = setting
      /\ hardwareCall' \in [Calls -> HardwareRecord]
      /\ \A d \in Calls \ {c} :
           /\ hardwareCall'[d].commands = hardwareCall[d].commands
           /\ hardwareCall'[d].todo = hardwareCall[d].todo
           /\ hardwareCall'[d].at = hardwareCall[d].at
           /\ hardwareCall'[d].left = hardwareCall[d].left
           /\ hardwareCall'[d].applied = hardwareCall[d].applied
  <2>1. hardwareCall' = [d \in Calls |->
             IF d = c THEN new
             ELSE IF d \in others THEN [hardwareCall[d] EXCEPT !.alone = FALSE]
               ELSE hardwareCall[d]]
    BY DEF Hardware!Begin
  <2>2. last' = c /\ setting' = setting
    BY DEF Hardware!Begin
  <2>3. \A d \in Calls : [hardwareCall[d] EXCEPT !.alone = FALSE] \in HardwareRecord
          /\ hardwareCall[d] \in HardwareRecord
    BY <1>t DEF MachineTypeOK, HardwareRecord
  <2>4. \A d \in Calls : LET e == [hardwareCall[d] EXCEPT !.alone = FALSE]
                         IN  /\ e.commands = hardwareCall[d].commands
                           /\ e.todo = hardwareCall[d].todo
                             /\ e.at = hardwareCall[d].at /\ e.left = hardwareCall[d].left
                             /\ e.applied = hardwareCall[d].applied
    BY <1>t DEF MachineTypeOK, HardwareRecord
  <2> HIDE DEF new, others
  <2> QED
    BY <1>2, <2>1, <2>2, <2>3, <2>4
<1>4. ASSUME NEW d \in Calls
      PROVE  ProgressInv(d)'
  <2>1. CASE d = c
    <3>1. hardwareCall'[c].at = "next" /\ hardwareCall'[c].commands = commands
            /\ hardwareCall'[c].todo = commands
          /\ hardwareCall'[c].applied = {}
      BY <1>2, <1>3
    <3>2. CommandsDone(c)' = 0
      BY <3>1 DEF CommandsDone
    <3> QED
      BY <2>1, <3>1, <3>2 DEF ProgressInv
  <2>2. CASE d # c
    <3>1. ProgressInv(d)
      BY DEF HardwareInv
    <3> QED
      BY <1>3, <2>2, <3>1 DEF ProgressInv, CommandsDone, Hardware!Sets
  <2> QED
    BY <2>1, <2>2
<1>5. ASSUME hardwareCall'[c].alone
      PROVE  MachineInv(c)'
  <2>1. others = {}
    BY <1>2, <1>3, <1>5
  <2>2. \A d \in Calls \ {c} : ~Hardware!Running(d)'
    BY <1>3, <2>1 DEF Hardware!Running
  <2>3. /\ hardwareCall'[c].at = "next" /\ hardwareCall'[c].before = setting'
        /\ hardwareCall'[c].applied = {}
    BY <1>2, <1>3
  <2> QED
    BY <2>2, <2>3 DEF MachineInv, LimitInv, HasSet
<1>6. MachineTypeOK'
  BY <1>t, <1>3 DEF MachineTypeOK
<1> QED
  BY <1>3, <1>4, <1>5, <1>6 DEF HardwareInv

\* A step that does not touch the machine nor what is reported: the call only goes on to
\* another place where no command runs that has set anything.
LEMMA HardwareMoveStep ==
  ASSUME HardwareInv, NEW c \in Calls,
         Hardware!StartCommand(c) \/ Hardware!Raise(c) \/ Hardware!Answer(c)
  PROVE  HardwareInv'
<1>t. MachineTypeOK /\ ProgressInv(c)
  BY DEF HardwareInv
<1>c. hardwareCall[c] \in HardwareRecord
  BY <1>t DEF MachineTypeOK
<1>1. /\ hardwareCall[c].at = "next" /\ UNCHANGED <<setting, last>> /\ Hardware!Running(c)
      /\ \A d \in Calls \ {c} : hardwareCall'[d] = hardwareCall[d]
  BY <1>t DEF Hardware!StartCommand, Hardware!Raise, Hardware!Answer, MachineTypeOK,
     Hardware!Running
<1>2. /\ hardwareCall'[c] \in HardwareRecord
      /\ hardwareCall' = [hardwareCall EXCEPT ![c] = hardwareCall'[c]]
      /\ hardwareCall'[c].commands = hardwareCall[c].commands
      /\ hardwareCall'[c].todo = hardwareCall[c].todo
      /\ hardwareCall'[c].applied = hardwareCall[c].applied
      /\ hardwareCall'[c].before = hardwareCall[c].before
      /\ hardwareCall'[c].alone = hardwareCall[c].alone
      /\ \/ hardwareCall'[c].at = "ended"
         \/ hardwareCall'[c].at = "run" /\ hardwareCall[c].todo # <<>>
              /\ hardwareCall'[c].left = DOMAIN Hardware!Sets(c)
  <2>1. CASE Hardware!StartCommand(c)
    <3>1. DOMAIN Hardware!Sets(c) \subseteq LimitNames
      <4>1. Head(hardwareCall[c].todo) \in CommandRecord
        BY <2>1, TodoFacts DEF Hardware!StartCommand
      <4> QED
        BY <4>1 DEF Hardware!Sets, CommandRecord
    <3>2. hardwareCall'
            = [hardwareCall EXCEPT ![c]
              = [hardwareCall[c] EXCEPT !.at = "run", !.left = DOMAIN Hardware!Sets(c)]]
      BY <2>1 DEF Hardware!StartCommand
    <3>3. [hardwareCall[c] EXCEPT !.at = "run", !.left = DOMAIN Hardware!Sets(c)]
            \in HardwareRecord
      BY <1>c, <3>1 DEF HardwareRecord
    <3>4. hardwareCall'[c]
            = [hardwareCall[c] EXCEPT !.at = "run", !.left = DOMAIN Hardware!Sets(c)]
      BY <1>t, <3>2 DEF MachineTypeOK
    <3>5. hardwareCall[c].todo # <<>>
      BY <2>1 DEF Hardware!StartCommand
    <3>6. /\ hardwareCall'[c].commands = hardwareCall[c].commands
          /\ hardwareCall'[c].todo = hardwareCall[c].todo
          /\ hardwareCall'[c].applied = hardwareCall[c].applied
          /\ hardwareCall'[c].before = hardwareCall[c].before
          /\ hardwareCall'[c].alone = hardwareCall[c].alone
          /\ hardwareCall'[c].at = "run" /\ hardwareCall'[c].left = DOMAIN Hardware!Sets(c)
      BY <1>c, <3>4 DEF HardwareRecord
    <3>7. hardwareCall'[c] \in HardwareRecord
            /\ hardwareCall' = [hardwareCall EXCEPT ![c] = hardwareCall'[c]]
      BY <3>2, <3>3, <3>4
    <3> QED
      BY <3>5, <3>6, <3>7
  <2>2. CASE Hardware!Raise(c) \/ Hardware!Answer(c)
    <3>1. hardwareCall' = [hardwareCall EXCEPT ![c] = [hardwareCall[c] EXCEPT !.at = "ended"]]
      BY <2>2 DEF Hardware!Raise, Hardware!Answer
    <3>2. hardwareCall'[c] = [hardwareCall[c] EXCEPT !.at = "ended"]
      BY <1>t, <3>1 DEF MachineTypeOK
    <3> QED
      <4>1. [hardwareCall[c] EXCEPT !.at = "ended"] \in HardwareRecord
        BY <1>c DEF HardwareRecord
      <4>2. hardwareCall' = [hardwareCall EXCEPT ![c] = hardwareCall'[c]]
        BY <3>1, <3>2
      <4> QED
        BY <1>c, <3>2, <4>1, <4>2 DEF HardwareRecord
  <2> QED
    BY <2>1, <2>2
<1>3. MachineTypeOK'
  BY <1>t, <1>1, <1>2 DEF MachineTypeOK
<1>4. CommandsDone(c)' = CommandsDone(c) /\ Hardware!Sets(c)' = Hardware!Sets(c)
  BY <1>2 DEF CommandsDone, Hardware!Sets
<1>5. ProgressInv(c)'
  BY <1>t, <1>2, <1>4 DEF ProgressInv
<1>6. ASSUME last = c, hardwareCall[c].alone, NEW k \in LimitNames
      PROVE  /\ (\A i \in DOMAIN hardwareCall[c].commands :
                  k \notin DOMAIN hardwareCall[c].commands[i].sets) =>
                   setting[k] = hardwareCall[c].before[k]
             /\ \A i \in DOMAIN hardwareCall[c].commands :
                   k \in DOMAIN hardwareCall[c].commands[i].sets => LimitInv(c, i, k)'
  <2>1. MachineInv(c)
    BY <1>6 DEF HardwareInv
  <2>2. ASSUME NEW i \in DOMAIN hardwareCall[c].commands,
               k \in DOMAIN hardwareCall[c].commands[i].sets
        PROVE  LimitInv(c, i, k)'
    <3>1. LimitInv(c, i, k)
      BY <2>1, <2>2 DEF MachineInv
    <3>2. ~HasSet(c, i, k)
      BY <1>1 DEF HasSet
    <3>3. ~HasSet(c, i, k)'
      <4>1. CASE hardwareCall'[c].at = "ended"
        BY <4>1 DEF HasSet
      <4>2. CASE hardwareCall[c].todo # <<>> /\ hardwareCall'[c].left = DOMAIN Hardware!Sets(c)
        BY <1>4, <2>2, <4>2, TodoFacts DEF HasSet, Hardware!Sets
      <4> QED
        BY <1>2, <4>1, <4>2
    <3> QED
      BY <1>1, <1>2, <1>4, <3>1, <3>2, <3>3 DEF LimitInv
  <2> QED
    BY <2>1, <2>2 DEF MachineInv
<1> QED
  BY <1>1, <1>2, <1>3, <1>5, <1>6, HardwareFromOne

LEMMA HardwareApplyStep ==
  ASSUME HardwareInv, NEW c \in Calls, Hardware!Apply(c)
  PROVE  HardwareInv'
<1>t. MachineTypeOK /\ ProgressInv(c)
  BY DEF HardwareInv
<1>c. hardwareCall[c] \in HardwareRecord
  BY <1>t DEF MachineTypeOK
<1>0. hardwareCall[c].at = "run" /\ Hardware!Running(c)
  BY DEF Hardware!Apply, Hardware!Running
<1>1. PICK k0 \in hardwareCall[c].left :
         /\ setting' = [setting EXCEPT ![k0] = Hardware!Sets(c)[k0]]
         /\ hardwareCall' = [hardwareCall EXCEPT ![c].left = @ \ {k0}]
         /\ last' = last
  BY DEF Hardware!Apply
<1>h. PICK h : h = CommandsDone(c) + 1
  OBVIOUS
<1>2. /\ k0 \in LimitNames /\ h \in DOMAIN hardwareCall[c].commands
      /\ Hardware!Sets(c) = hardwareCall[c].commands[h].sets
      /\ k0 \in DOMAIN Hardware!Sets(c) /\ Hardware!Sets(c)[k0] \in LimitValue
  <2>1. hardwareCall[c].todo # <<>> /\ hardwareCall[c].left \subseteq DOMAIN Hardware!Sets(c)
    BY <1>t, <1>0 DEF ProgressInv
  <2>2. Head(hardwareCall[c].todo) \in CommandRecord
    BY <2>1, TodoFacts
  <2>3. k0 \in DOMAIN Hardware!Sets(c) /\ k0 \in LimitNames
    BY <1>c, <2>1 DEF HardwareRecord
  <2>4. Hardware!Sets(c)[k0] \in LimitValue
    BY <2>2, <2>3 DEF CommandRecord, Hardware!Sets
  <2> QED
    BY <1>h, <2>1, <2>3, <2>4, TodoFacts DEF Hardware!Sets
<1>3. /\ hardwareCall'[c] = [hardwareCall[c] EXCEPT !.left = @ \ {k0}]
      /\ \A d \in Calls \ {c} : hardwareCall'[d] = hardwareCall[d]
  BY <1>t, <1>1 DEF MachineTypeOK
<1>4. /\ hardwareCall'[c] \in HardwareRecord
      /\ hardwareCall'[c].commands = hardwareCall[c].commands
      /\ hardwareCall'[c].todo = hardwareCall[c].todo
      /\ hardwareCall'[c].applied = hardwareCall[c].applied
      /\ hardwareCall'[c].before = hardwareCall[c].before
      /\ hardwareCall'[c].alone = hardwareCall[c].alone
      /\ hardwareCall'[c].at = hardwareCall[c].at
      /\ hardwareCall'[c].left = hardwareCall[c].left \ {k0}
  BY <1>c, <1>3 DEF HardwareRecord
<1>5. MachineTypeOK'
  BY <1>t, <1>1, <1>2, <1>3, <1>4 DEF MachineTypeOK
<1>6. CommandsDone(c)' = CommandsDone(c) /\ Hardware!Sets(c)' = Hardware!Sets(c)
  BY <1>4 DEF CommandsDone, Hardware!Sets
<1>7. ProgressInv(c)'
  BY <1>t, <1>4, <1>6 DEF ProgressInv
<1>8. /\ setting'[k0] = hardwareCall[c].commands[h].sets[k0]
      /\ \A k \in LimitNames \ {k0} : setting'[k] = setting[k]
  BY <1>t, <1>1, <1>2 DEF MachineTypeOK
<1>9. ASSUME last = c, hardwareCall[c].alone, NEW k \in LimitNames
      PROVE  /\ (\A i \in DOMAIN hardwareCall[c].commands :
                  k \notin DOMAIN hardwareCall[c].commands[i].sets) =>
                   setting'[k] = hardwareCall[c].before[k]
             /\ \A i \in DOMAIN hardwareCall[c].commands :
                   k \in DOMAIN hardwareCall[c].commands[i].sets => LimitInv(c, i, k)'
  <2>1. MachineInv(c)
    BY <1>9 DEF HardwareInv
  <2>2. CASE k = k0
    <3>1. \A i \in DOMAIN hardwareCall[c].commands :
            k \in DOMAIN hardwareCall[c].commands[i].sets => i = h
      BY <1>t, <1>2, <2>2 DEF ProgressInv, Apart
    <3>2. HasSet(c, h, k)'
      BY <1>h, <1>0, <1>4, <1>6, <2>2 DEF HasSet
    <3>3. LimitInv(c, h, k)'
      BY <1>4, <1>8, <2>2, <3>2 DEF LimitInv
    <3> QED
      BY <1>2, <2>2, <3>1, <3>3
  <2>3. CASE k # k0
    <3>1. \A i \in DOMAIN hardwareCall[c].commands : HasSet(c, i, k)' = HasSet(c, i, k)
      BY <1>4, <1>6, <2>3 DEF HasSet
    <3>2. \A i \in DOMAIN hardwareCall[c].commands : LimitInv(c, i, k)' = LimitInv(c, i, k)
      BY <1>4, <1>6, <1>8, <2>3, <3>1 DEF LimitInv
    <3> QED
      BY <1>8, <2>1, <2>3, <3>2 DEF MachineInv
  <2> QED
    BY <2>2, <2>3
<1> QED
  BY <1>0, <1>1, <1>3, <1>4, <1>5, <1>7, <1>9, HardwareFromOne

LEMMA HardwareGoOnStep ==
  ASSUME HardwareInv, NEW c \in Calls, Hardware!Exits(c) \/ Hardware!CommandFails(c)
  PROVE  HardwareInv'
<1>t. MachineTypeOK /\ ProgressInv(c)
  BY DEF HardwareInv
<1>c. hardwareCall[c] \in HardwareRecord
  BY <1>t DEF MachineTypeOK
<1>0. /\ hardwareCall[c].at = "run" /\ Hardware!Running(c) /\ UNCHANGED <<setting, last>>
  BY DEF Hardware!Exits, Hardware!CommandFails, Hardware!Running
<1>1. hardwareCall[c].todo # <<>>
  BY <1>t, <1>0 DEF ProgressInv
<1>h. PICK h : h = CommandsDone(c) + 1
  OBVIOUS
<1>2. /\ h \in DOMAIN hardwareCall[c].commands
      /\ Head(hardwareCall[c].todo) = hardwareCall[c].commands[h]
      /\ Head(hardwareCall[c].todo).tool \in ToolNames
  BY <1>h, <1>1, TodoFacts DEF CommandRecord
<1>3. PICK tools \in SUBSET ToolNames :
         /\ Hardware!GoOn(c, tools)
         /\ tools = {}
              \/ (tools = {hardwareCall[c].commands[h].tool} /\ hardwareCall[c].left = {})
  BY <1>2 DEF Hardware!Exits, Hardware!CommandFails
<1>4. /\ hardwareCall'[c] = [hardwareCall[c] EXCEPT !.at = "next", !.todo = Tail(@), !.left = {},
                                   !.applied = @ \cup tools]
      /\ \A d \in Calls \ {c} : hardwareCall'[d] = hardwareCall[d]
      /\ hardwareCall' = [hardwareCall EXCEPT ![c] = hardwareCall'[c]]
  BY <1>t, <1>3 DEF MachineTypeOK, Hardware!GoOn
<1>5. /\ hardwareCall'[c].commands = hardwareCall[c].commands
      /\ hardwareCall'[c].todo = Tail(hardwareCall[c].todo)
      /\ hardwareCall'[c].applied = hardwareCall[c].applied \cup tools
      /\ hardwareCall'[c].before = hardwareCall[c].before
      /\ hardwareCall'[c].alone = hardwareCall[c].alone /\ hardwareCall'[c].at = "next"
      /\ hardwareCall'[c] \in HardwareRecord
  <2>1. Tail(hardwareCall[c].todo) \in Seq(CommandRecord)
    BY <1>c, <1>1 DEF HardwareRecord
  <2> QED
    BY <1>c, <1>4, <2>1 DEF HardwareRecord
<1>6. MachineTypeOK'
  BY <1>t, <1>0, <1>4, <1>5 DEF MachineTypeOK
<1>7. /\ CommandsDone(c)' = h /\ CommandsDone(c) \in Nat
      /\ Len(hardwareCall'[c].todo) <= Len(hardwareCall[c].commands)
      /\ \A i \in DOMAIN hardwareCall'[c].todo :
           hardwareCall'[c].todo[i] = hardwareCall[c].commands[h + i]
  <2>1. hardwareCall[c].todo \in Seq(CommandRecord)
          /\ hardwareCall[c].commands \in Seq(CommandRecord)
    BY <1>c DEF HardwareRecord
  <2>2. /\ Len(hardwareCall[c].todo) <= Len(hardwareCall[c].commands)
        /\ \A i \in DOMAIN hardwareCall[c].todo :
             hardwareCall[c].todo[i] = hardwareCall[c].commands[CommandsDone(c) + i]
    BY <1>t DEF ProgressInv
  <2>3. Len(hardwareCall'[c].todo) = Len(hardwareCall[c].todo) - 1
    BY <1>1, <1>5, <2>1
  <2>4. \A i \in DOMAIN hardwareCall'[c].todo : i + 1 \in DOMAIN hardwareCall[c].todo
                                         /\ hardwareCall'[c].todo[i] = hardwareCall[c].todo[i + 1]
    BY <1>1, <1>5, <2>1
  <2>5. CommandsDone(c)' = h /\ CommandsDone(c) \in Nat
    <3>1. Len(hardwareCall[c].todo) \in Nat /\ Len(hardwareCall[c].commands) \in Nat
      BY <2>1
    <3>2. CommandsDone(c)' = Len(hardwareCall[c].commands) - (Len(hardwareCall[c].todo) - 1)
      BY <1>5, <2>3 DEF CommandsDone
    <3>3. \A m, n \in Nat : n - (m - 1) = (n - m) + 1
      OBVIOUS
    <3>4. CommandsDone(c)' = (Len(hardwareCall[c].commands) - Len(hardwareCall[c].todo)) + 1
      BY <3>1, <3>2, <3>3
    <3>5. CommandsDone(c) \in Nat
      BY <1>1, TodoFacts
    <3> QED
      BY <1>h, <3>4, <3>5 DEF CommandsDone
  <2>6. \A i \in DOMAIN hardwareCall'[c].todo : CommandsDone(c) + (i + 1) = h + i
    <3>1. \A i \in DOMAIN hardwareCall'[c].todo : i \in Nat
      BY <1>1, <1>5, <2>1
    <3> QED
      BY <1>h, <2>5, <3>1
  <2> QED
    BY <2>1, <2>2, <2>3, <2>4, <2>5, <2>6
<1>8. \A i \in DOMAIN hardwareCall[c].commands :
         /\ i \in Nat
         /\ i # h => hardwareCall[c].commands[i].tool # hardwareCall[c].commands[h].tool
  BY <1>c, <1>t, <1>2 DEF ProgressInv, Apart, HardwareRecord
<1>9. ProgressInv(c)'
  <2>1. ASSUME NEW i \in DOMAIN hardwareCall[c].commands, i > h
        PROVE  hardwareCall[c].commands[i].tool \notin hardwareCall'[c].applied
    <3>1. i > CommandsDone(c) /\ i # h
      BY <1>h, <1>7, <1>8, <2>1
    <3> QED
      BY <1>t, <1>3, <1>5, <1>8, <3>1 DEF ProgressInv
  <2> QED
    BY <1>t, <1>5, <1>7, <2>1 DEF ProgressInv
<1>10. ASSUME last = c, hardwareCall[c].alone, NEW k \in LimitNames
       PROVE  /\ (\A i \in DOMAIN hardwareCall[c].commands :
                   k \notin DOMAIN hardwareCall[c].commands[i].sets) =>
                    setting[k] = hardwareCall[c].before[k]
              /\ \A i \in DOMAIN hardwareCall[c].commands :
                    k \in DOMAIN hardwareCall[c].commands[i].sets => LimitInv(c, i, k)'
  <2>1. MachineInv(c)
    BY <1>10 DEF HardwareInv
  <2>2. ASSUME NEW i \in DOMAIN hardwareCall[c].commands,
               k \in DOMAIN hardwareCall[c].commands[i].sets
        PROVE  LimitInv(c, i, k)'
    <3>1. LimitInv(c, i, k)
      BY <2>1, <2>2 DEF MachineInv
    <3>2. ~HasSet(c, i, k)'
      BY <1>5 DEF HasSet
    <3>3. CASE i # h
      <4>1. ~HasSet(c, i, k)
        BY <1>h, <3>3 DEF HasSet
      <4>2. i <= CommandsDone(c) => i <= h
        BY <1>h, <1>7, <1>8
      <4> QED
        BY <1>0, <1>3, <1>5, <1>7, <1>8, <3>1, <3>2, <3>3, <4>1, <4>2 DEF LimitInv
    <3>4. CASE i = h
      <4>1. HasSet(c, i, k) => setting[k] = hardwareCall[c].commands[i].sets[k]
        BY <3>1 DEF LimitInv
      <4>2. tools # {} => HasSet(c, i, k)
        BY <1>h, <1>0, <1>3, <3>4 DEF HasSet
      <4>3. h <= h
        BY <1>h, <1>7
      <4> QED
        BY <1>0, <1>5, <1>7, <3>1, <3>2, <3>4, <4>1, <4>2, <4>3 DEF LimitInv
    <3> QED
      BY <3>3, <3>4
  <2> QED
    BY <2>1, <2>2 DEF MachineInv
<1> QED
  BY <1>0, <1>4, <1>5, <1>6, <1>9, <1>10, HardwareFromOne

LEMMA HardwareInvStep == Hardware!HardwareAssumption /\ HardwareInv
  /\ [Hardware!Next]_(Hardware!vars) => HardwareInv'
<1> SUFFICES ASSUME Hardware!HardwareAssumption, HardwareInv, [Hardware!Next]_(Hardware!vars)
PROVE HardwareInv'
  OBVIOUS
<1>1. ASSUME NEW c \in Calls, Hardware!SetPowerProfile(c) \/ Hardware!SetFanCurve(c)
      PROVE  HardwareInv'
  <2>1. CASE Hardware!SetPowerProfile(c)
    BY <2>1, PowerFacts, HardwareBeginStep DEF Hardware!SetPowerProfile
  <2>2. CASE Hardware!SetFanCurve(c)
    BY <2>2, FanFacts, HardwareBeginStep DEF Hardware!SetFanCurve
  <2> QED
    BY <1>1, <2>1, <2>2
<1>2. ASSUME NEW c \in Calls, Hardware!StartCommand(c) \/ Hardware!Raise(c) \/ Hardware!Answer(c)
      PROVE  HardwareInv'
  BY <1>2, HardwareMoveStep
<1>3. ASSUME NEW c \in Calls, Hardware!Apply(c)
      PROVE  HardwareInv'
  BY <1>3, HardwareApplyStep
<1>4. ASSUME NEW c \in Calls, Hardware!Exits(c) \/ Hardware!CommandFails(c)
      PROVE  HardwareInv'
  BY <1>4, HardwareGoOnStep
<1>5. CASE UNCHANGED Hardware!vars
  <2>1. setting' = setting /\ hardwareCall' = hardwareCall /\ last' = last
    BY <1>5 DEF Hardware!vars
  <2>2. \A c \in Calls : CommandsDone(c)' = CommandsDone(c)
          /\ Hardware!Sets(c)' = Hardware!Sets(c) /\ Hardware!Running(c)' = Hardware!Running(c)
    BY <2>1 DEF CommandsDone, Hardware!Sets, Hardware!Running
  <2>3. MachineTypeOK' /\ \A c \in Calls : ProgressInv(c)'
    BY <2>1, <2>2 DEF HardwareInv, MachineTypeOK, ProgressInv
  <2>4. \A c \in Calls : MachineInv(c) => MachineInv(c)'
    BY <2>1, <2>2 DEF MachineInv, LimitInv, HasSet
  <2> QED
    BY <2>1, <2>3, <2>4 DEF HardwareInv
<1> QED
  BY <1>1, <1>2, <1>3, <1>4, <1>5 DEF Hardware!Next

LEMMA HardwareHolds == HardwareInv => Hardware!AnswersMatchMachine
<1> SUFFICES ASSUME HardwareInv,
                    NEW c \in Calls, hardwareCall[c].at = "ended", last = c,
                      hardwareCall[c].alone,
                    NEW k \in DOMAIN setting
             PROVE  \/ /\ setting[k] = hardwareCall[c].before[k]
                       /\ \A m \in Hardware!Commands(c) :
                            k \in DOMAIN m.sets /\ m.tool \in hardwareCall[c].applied
                              => setting[k] = m.sets[k]
                    \/ \E m \in Hardware!Commands(c) : k \in DOMAIN m.sets
                         /\ setting[k] = m.sets[k]
  BY DEF Hardware!AnswersMatchMachine
<1>1. MachineInv(c) /\ k \in LimitNames /\ ProgressInv(c)
  BY DEF HardwareInv, MachineTypeOK
<1>2. CASE \A i \in DOMAIN hardwareCall[c].commands :
        k \notin DOMAIN hardwareCall[c].commands[i].sets
  BY <1>1, <1>2 DEF MachineInv, Hardware!Commands
<1>3. ASSUME NEW i \in DOMAIN hardwareCall[c].commands,
             k \in DOMAIN hardwareCall[c].commands[i].sets
      PROVE  \/ /\ setting[k] = hardwareCall[c].before[k]
                /\ \A m \in Hardware!Commands(c) :
                     k \in DOMAIN m.sets /\ m.tool \in hardwareCall[c].applied
                       => setting[k] = m.sets[k]
             \/ \E m \in Hardware!Commands(c) : k \in DOMAIN m.sets /\ setting[k] = m.sets[k]
  <2>1. LimitInv(c, i, k)
    BY <1>1, <1>3 DEF MachineInv
  <2>2. CASE setting[k] = hardwareCall[c].commands[i].sets[k]
    BY <1>3, <2>2 DEF Hardware!Commands
  <2>3. CASE setting[k] = hardwareCall[c].before[k]
          /\ hardwareCall[c].commands[i].tool \notin hardwareCall[c].applied
    <3>1. \A j \in DOMAIN hardwareCall[c].commands :
            k \in DOMAIN hardwareCall[c].commands[j].sets => j = i
      BY <1>1, <1>3 DEF ProgressInv, Apart
    <3> QED
      BY <2>3, <3>1 DEF Hardware!Commands
  <2> QED
    BY <2>1, <2>2, <2>3 DEF LimitInv
<1> QED
  BY <1>2, <1>3

\* set_power_profile and set_fan_curve: after the last call, when no other overlapped with
\* it, the machine is what the answer says, whatever command or number failed.
THEOREM AnswersMatchMachineTheorem == Spec => []AnswersMatchMachine
<1>1. Hardware!Init => HardwareInv
  BY HardwareInitInv, ServicesAssumption DEF ServicesAssumption
<1>2. HardwareInv /\ [Hardware!Next]_(Hardware!vars) => HardwareInv'
  BY HardwareInvStep, ServicesAssumption DEF ServicesAssumption
<1>3. HardwareInv => AnswersMatchMachine
  BY HardwareHolds DEF AnswersMatchMachine
<1> QED
  BY <1>1, <1>2, <1>3, HardwarePart, PTL DEF Hardware!Spec

-----------------------------------------------------------------------------
(* Intake.                                                                 *)
(* OneOpenPerCorrelation is not inductive: the newer of two workflows may  *)
(* be the one that is closed when it is created. OlderClosed speaks of the *)
(* older one alone; NothingOpens carries what the classifier saw to the    *)
(* insert, and holds because the receive loop awaits one handler           *)
(* (OneHandler). A workflow that fails before its handler starts it is the *)
(* newest one, so that it opens beside no other.                           *)

LEMMA EntrancePart == Spec => Entrance!Spec
<1>1. [Next]_vars => [Entrance!Next]_(Entrance!vars)
  BY PartSteps DEF intakeVars, Entrance!vars, Entrance!clientVars
<1> QED
  BY <1>1, PartInits, PTL DEF Spec, Entrance!Spec

RowRecord == [mode : {"cooperative", "discussion"}, class : {Class[m] : m \in Messages},
              correlation : {Correlation[m] : m \in Messages}, status : Entrance!WorkflowStatus,
              fresh : BOOLEAN, again : BOOLEAN]

Ids == Nat \cup {Entrance!Newest(S) : S \in SUBSET Nat}

HandlerRecord == [of : Messages, id : Ids,
                  at : {"lookup", "fresh", "create", "start", "publish"}]

HandlingTypeOK ==
    /\ inbox \in Seq(Messages)
    /\ rows \in Seq(RowRecord)
    /\ handling \in SUBSET HandlerRecord
    /\ taken \in [{"sends", "moves", "faults"} -> Nat]

-----------------------------------------------------------------------------
\* The receive loop awaits the handler of one message before it takes the next.
OneHandler == \A g, h \in handling : g = h

\* Between the classifier's look and its insert no workflow becomes open, but one that had
\* failed.
NothingOpens(h) ==
    h.at \in {"fresh", "create"} /\ Correlation[h.of] # "none" =>
        \A i \in Entrance!Resumable(Correlation[h.of]) : rows[i].again

\* The older of two is not open, whatever becomes of the newer one, unless it was started
\* again.
OlderClosed(i, j) ==
    (/\ i < j /\ j <= i + ListLimit
     /\ rows[i].correlation = rows[j].correlation
     /\ rows[i].correlation # "none"
     /\ rows[i].status \in Entrance!OpenStatus) => rows[i].again

IntakeInv ==
    /\ HandlingTypeOK
    /\ OneHandler
    /\ \A h \in handling : NothingOpens(h)
    /\ \A h \in handling : h.at = "start" => h.id \in DOMAIN rows /\ h.id = Len(rows)
    /\ \A i, j \in DOMAIN rows : OlderClosed(i, j)
    /\ Entrance!ConversationsStart

-----------------------------------------------------------------------------
LEMMA IntakeInitInv == Entrance!IntakeAssumption /\ Entrance!Init => IntakeInv
<1> SUFFICES ASSUME Entrance!Init PROVE IntakeInv
  OBVIOUS
<1>1. HandlingTypeOK
  BY DEF Entrance!Init, HandlingTypeOK, Entrance!Limits
<1> QED
  BY <1>1 DEF Entrance!Init, IntakeInv, OneHandler, OlderClosed, Entrance!ConversationsStart

LEMMA IntakeSpendFacts ==
  ASSUME HandlingTypeOK, NEW b \in {"sends", "moves", "faults"}, Entrance!Spend(b)
  PROVE  /\ taken' \in [{"sends", "moves", "faults"} -> Nat]
         /\ b = "faults" => taken'.faults # 0
         /\ b # "faults" => taken'.faults = taken.faults
  BY DEF HandlingTypeOK, Entrance!Spend

\* Steps that leave the workflows and their handlers alone.
LEMMA ClientOnly ==
  ASSUME IntakeInv, UNCHANGED <<handling, rows>>, inbox' \in Seq(Messages),
         taken' \in [{"sends", "moves", "faults"} -> Nat],
         taken'.faults = 0 => taken.faults = 0
  PROVE  IntakeInv'
<1>1. HandlingTypeOK' /\ OneHandler'
  BY DEF IntakeInv, HandlingTypeOK, OneHandler
<1>2. \A h \in handling' : NothingOpens(h)'
  BY DEF IntakeInv, NothingOpens, Entrance!Resumable
<1>3. \A i, j \in DOMAIN rows' : OlderClosed(i, j)'
  BY DEF IntakeInv, OlderClosed
<1>4. Entrance!ConversationsStart'
  BY DEF IntakeInv, Entrance!ConversationsStart
<1> QED
  BY <1>1, <1>2, <1>3, <1>4 DEF IntakeInv

\* The only handler takes a step that leaves the workflows alone, and does not drop a
\* conversation that it has created.
LEMMA HandlerOnly ==
  ASSUME IntakeInv, NEW h \in handling, NEW g \in HandlerRecord,
         handling' = (handling \ {h}) \cup {g}, UNCHANGED <<inbox, rows, taken>>,
         h.at # "start", g.at # "start", NothingOpens(g)
  PROVE  IntakeInv'
<1>0. handling = {h} /\ handling' = {g}
  BY DEF IntakeInv, OneHandler
<1>1. HandlingTypeOK' /\ OneHandler'
  BY <1>0 DEF IntakeInv, HandlingTypeOK, OneHandler
<1>2. \A k \in handling' : NothingOpens(k)'
  BY <1>0 DEF NothingOpens, Entrance!Resumable
<1>3. \A i, j \in DOMAIN rows' : OlderClosed(i, j)'
  BY DEF IntakeInv, OlderClosed
<1>4. Entrance!ConversationsStart'
  BY <1>0 DEF IntakeInv, Entrance!ConversationsStart
<1> QED
  BY <1>0, <1>1, <1>2, <1>3, <1>4 DEF IntakeInv

LEMMA IntakeLookUpStep ==
  ASSUME IntakeInv, NEW h \in handling, Entrance!LookUp(h)
  PROVE  IntakeInv'
<1> DEFINE found == IF Correlation[h.of] = "none" THEN {}
      ELSE Entrance!Resumable(Correlation[h.of])
<1>1. h \in HandlerRecord /\ h.at = "lookup" /\ UNCHANGED <<inbox, rows, taken>>
  BY DEF IntakeInv, HandlingTypeOK, Entrance!LookUp, Entrance!clientVars
<1>2. found \in SUBSET Nat
  BY DEF Entrance!Resumable, IntakeInv, HandlingTypeOK
<1>3. CASE found = {}
  <2> DEFINE g == [h EXCEPT !.at = "fresh", !.id = 0]
  <2>1. handling' = (handling \ {h}) \cup {g}
    BY <1>3 DEF Entrance!LookUp, Entrance!Proceed
  <2>2. g \in HandlerRecord /\ g.at = "fresh" /\ g.of = h.of
    BY <1>1 DEF HandlerRecord, Ids
  <2>3. NothingOpens(g)
    BY <1>3, <2>2 DEF NothingOpens
  <2> QED
    BY <1>1, <2>1, <2>2, <2>3, HandlerOnly
<1>4. CASE found # {}
  <2> DEFINE g == [h EXCEPT !.at = "publish", !.id = Entrance!Newest(found)]
  <2>1. handling' = (handling \ {h}) \cup {g}
    BY <1>4 DEF Entrance!LookUp, Entrance!Proceed
  <2>2. Entrance!Newest(found) \in Ids
    BY <1>2 DEF Ids
  <2> HIDE DEF found
  <2>3. g \in HandlerRecord /\ g.at = "publish"
    BY <1>1, <2>2 DEF HandlerRecord
  <2>4. NothingOpens(g)
    BY <2>3 DEF NothingOpens
  <2> QED
    BY <1>1, <2>1, <2>3, <2>4, HandlerOnly
<1> QED
  BY <1>3, <1>4

LEMMA LookUpFreshStep ==
  ASSUME IntakeInv, NEW h \in handling, Entrance!LookUpFresh(h)
  PROVE  IntakeInv'
<1> DEFINE found == Entrance!Fresh(Class[h.of])
<1>1. h \in HandlerRecord /\ h.at = "fresh" /\ UNCHANGED <<inbox, rows, taken>> /\ NothingOpens(h)
  BY DEF IntakeInv, HandlingTypeOK, Entrance!LookUpFresh, Entrance!clientVars
<1>2. found \in SUBSET Nat
  BY DEF Entrance!Fresh, IntakeInv, HandlingTypeOK
<1>3. CASE found = {}
  <2> DEFINE g == [h EXCEPT !.at = "create", !.id = 0]
  <2>1. handling' = (handling \ {h}) \cup {g}
    BY <1>3 DEF Entrance!LookUpFresh, Entrance!Proceed
  <2>2. g \in HandlerRecord /\ g.at = "create" /\ g.of = h.of
    BY <1>1 DEF HandlerRecord, Ids
  <2>3. NothingOpens(g)
    BY <1>1, <2>2 DEF NothingOpens
  <2> QED
    BY <1>1, <2>1, <2>2, <2>3, HandlerOnly
<1>4. CASE found # {}
  <2> DEFINE g == [h EXCEPT !.at = "publish", !.id = Entrance!Newest(found)]
  <2>1. handling' = (handling \ {h}) \cup {g}
    BY <1>4 DEF Entrance!LookUpFresh, Entrance!Proceed
  <2>2. Entrance!Newest(found) \in Ids
    BY <1>2 DEF Ids
  <2> HIDE DEF found
  <2>3. g \in HandlerRecord /\ g.at = "publish"
    BY <1>1, <2>2 DEF HandlerRecord
  <2>4. NothingOpens(g)
    BY <2>3 DEF NothingOpens
  <2> QED
    BY <1>1, <2>1, <2>3, <2>4, HandlerOnly
<1> QED
  BY <1>3, <1>4

\* The new workflow is open; every other one of its correlation that is in sight and open
\* has been started again.
LEMMA IntakeCreateStep ==
  ASSUME Entrance!IntakeAssumption, IntakeInv, NEW h \in handling, Entrance!Create(h)
  PROVE  IntakeInv'
<1>n. PICK n : n = Len(rows) + 1
  OBVIOUS
<1>a. PICK at : at = IF Type[h.of] = "conversation" THEN "start" ELSE "publish"
  OBVIOUS
<1>g. PICK g : g = [h EXCEPT !.at = at, !.id = n]
  OBVIOUS
<1>0. /\ h \in HandlerRecord /\ h.at = "create" /\ UNCHANGED <<inbox, taken>>
      /\ rows' = Append(rows, Entrance!NewRow(h.of)) /\ handling' = (handling \ {h}) \cup {g}
      /\ NothingOpens(h) /\ rows \in Seq(RowRecord) /\ ListLimit \in Nat
  BY <1>n, <1>a, <1>g
  DEF IntakeInv, HandlingTypeOK, Entrance!Create, Entrance!clientVars, Entrance!Proceed,
     Entrance!IntakeAssumption
<1>1. handling = {h} /\ handling' = {g}
  BY <1>0 DEF IntakeInv, OneHandler
<1>2. Entrance!NewRow(h.of) \in RowRecord /\ h.of \in Messages
  BY <1>0 DEF Entrance!NewRow, RowRecord, HandlerRecord, Entrance!WorkflowStatus
<1>3. /\ g \in HandlerRecord /\ g.at = at /\ g.id = n /\ n \in Nat
      /\ at \in {"start", "publish"}
  <2>1. n \in Nat
    BY <1>0, <1>n
  <2>2. at \in {"start", "publish"}
    BY <1>a
  <2>3. g \in HandlerRecord /\ g.at = at /\ g.id = n
    BY <1>0, <1>g, <2>1, <2>2 DEF HandlerRecord, Ids
  <2> QED
    BY <2>1, <2>2, <2>3
<1>4. /\ rows' \in Seq(RowRecord) /\ Len(rows') = n /\ rows'[n] = Entrance!NewRow(h.of)
      /\ n \in DOMAIN rows' /\ DOMAIN rows' = DOMAIN rows \cup {n}
      /\ \A i \in DOMAIN rows : rows'[i] = rows[i] /\ i \in Nat /\ i < n
  BY <1>n, <1>0, <1>2
<1>5. HandlingTypeOK' /\ OneHandler'
  BY <1>0, <1>1, <1>3, <1>4 DEF IntakeInv, HandlingTypeOK, OneHandler
<1>6. NothingOpens(g)'
  BY <1>3 DEF NothingOpens
<1>7. ASSUME NEW i \in DOMAIN rows', NEW j \in DOMAIN rows'
      PROVE  OlderClosed(i, j)'
  <2> SUFFICES ASSUME i < j, j <= i + ListLimit, rows'[i].correlation = rows'[j].correlation,
                      rows'[i].correlation # "none", rows'[i].status \in Entrance!OpenStatus
               PROVE  rows'[i].again
    BY DEF OlderClosed
  <2>1. i \in DOMAIN rows /\ rows'[i] = rows[i]
    BY <1>3, <1>4
  <2>2. CASE j \in DOMAIN rows
    BY <1>4, <2>1, <2>2 DEF IntakeInv, OlderClosed
  <2>3. CASE j = n
    <3>1. rows[i].correlation = Correlation[h.of]
      BY <1>4, <2>1, <2>3 DEF Entrance!NewRow
    <3>2. i > Len(rows) - ListLimit
      BY <1>n, <1>0, <1>4, <2>1, <2>3
    <3>3. i \in Entrance!Resumable(Correlation[h.of])
      BY <2>1, <3>1, <3>2 DEF Entrance!Resumable
    <3> QED
      BY <1>0, <2>1, <3>1, <3>3 DEF NothingOpens
  <2> QED
    BY <1>4, <2>2, <2>3
<1>8. Entrance!ConversationsStart'
  <2> SUFFICES ASSUME taken'.faults = 0, NEW i \in DOMAIN rows',
                      rows'[i].mode = "discussion", rows'[i].status = "created"
               PROVE  \E k \in handling' : k.id = i /\ k.at = "start"
    BY DEF Entrance!ConversationsStart
  <2>1. CASE i = n
    <3>1. Type[h.of] = "conversation"
      BY <1>4, <2>1 DEF Entrance!NewRow
    <3> QED
      BY <1>a, <1>1, <1>3, <2>1, <3>1
  <2>2. CASE i \in DOMAIN rows
    <3>1. \E k \in handling : k.id = i /\ k.at = "start"
      BY <1>0, <1>4, <2>2 DEF IntakeInv, Entrance!ConversationsStart
    <3> QED
      BY <1>0, <1>1, <3>1
  <2> QED
    BY <1>4, <2>1, <2>2
<1> QED
  BY <1>1, <1>3, <1>4, <1>5, <1>6, <1>7, <1>8 DEF IntakeInv

\* One row changes its status, along the table, and remembers that it had failed.
LEMMA RowMoves ==
  ASSUME IntakeInv, NEW i \in DOMAIN rows, NEW row \in RowRecord,
         rows' = [rows EXCEPT ![i] = row],
         row.correlation = rows[i].correlation,
         row.mode = rows[i].mode,
         rows[i].again => row.again,
         row.status \in Entrance!OpenStatus /\ rows[i].status \notin Entrance!OpenStatus
           => row.again
  PROVE  /\ rows' \in Seq(RowRecord) /\ DOMAIN rows' = DOMAIN rows /\ Len(rows') = Len(rows)
         /\ \A j \in DOMAIN rows \ {i} : rows'[j] = rows[j]
         /\ rows'[i] = row
         /\ \A j, k \in DOMAIN rows' : OlderClosed(j, k)'
         /\ \A h \in handling : NothingOpens(h)'
<1>0. rows \in Seq(RowRecord)
  BY DEF IntakeInv, HandlingTypeOK
<1>1. /\ rows' \in Seq(RowRecord) /\ DOMAIN rows' = DOMAIN rows /\ Len(rows') = Len(rows)
      /\ \A j \in DOMAIN rows \ {i} : rows'[j] = rows[j]
      /\ rows'[i] = row
  BY <1>0
<1>2. \A j \in DOMAIN rows :
         /\ rows'[j].correlation = rows[j].correlation
         /\ rows[j].again => rows'[j].again
         /\ rows'[j].status \in Entrance!OpenStatus
              => rows[j].status \in Entrance!OpenStatus \/ rows'[j].again
  BY <1>1
<1>3. ASSUME NEW j \in DOMAIN rows, NEW k \in DOMAIN rows
      PROVE  OlderClosed(j, k)'
  <2>1. OlderClosed(j, k)
    BY DEF IntakeInv
  <2> QED
    BY <1>2, <2>1 DEF OlderClosed
<1>4. ASSUME NEW h \in handling
      PROVE  NothingOpens(h)'
  <2>1. NothingOpens(h)
    BY DEF IntakeInv
  <2>2. \A j \in Entrance!Resumable(Correlation[h.of])' :
           j \in DOMAIN rows /\ (j \in Entrance!Resumable(Correlation[h.of]) \/ rows'[j].again)
    BY <1>1, <1>2 DEF Entrance!Resumable
  <2> QED
    BY <1>2, <2>1, <2>2 DEF NothingOpens, Entrance!Resumable
<1> QED
  BY <1>1, <1>3, <1>4

\* The workflow that a handler starts is the newest one: there is none after it that it
\* could be open beside, even if it had failed in the meantime.
LEMMA StartDiscussionStep ==
  ASSUME Entrance!IntakeAssumption, IntakeInv, NEW h \in handling, Entrance!StartDiscussion(h)
  PROVE  IntakeInv'
<1> DEFINE g == [h EXCEPT !.at = "publish", !.id = h.id]
<1>i. PICK i \in DOMAIN rows : i = h.id /\ i = Len(rows)
  BY DEF IntakeInv, Entrance!StartDiscussion
<1> DEFINE row == [rows[i] EXCEPT !.status = "running"]
<1>0. /\ h \in HandlerRecord /\ h.at = "start" /\ UNCHANGED <<inbox, taken>>
      /\ handling' = (handling \ {h}) \cup {g} /\ rows \in Seq(RowRecord)
  BY DEF IntakeInv, HandlingTypeOK, Entrance!StartDiscussion, Entrance!clientVars,
     Entrance!Proceed
<1>1. handling = {h} /\ handling' = {g}
  BY <1>0 DEF IntakeInv, OneHandler
<1>2. g \in HandlerRecord /\ g.at = "publish"
  BY <1>0 DEF HandlerRecord
<1>3. rows[i] \in RowRecord
  BY <1>0
<1>4. \/ rows' = rows /\ "running" \notin Entrance!valid_transitions[rows[i].status]
      \/ rows' = [rows EXCEPT ![i] = row]
  BY <1>i DEF Entrance!StartDiscussion
<1>5. /\ row \in RowRecord /\ row.status = "running"
      /\ row.correlation = rows[i].correlation /\ row.mode = rows[i].mode
  BY <1>3 DEF RowRecord, Entrance!WorkflowStatus
<1>6. /\ rows' \in Seq(RowRecord) /\ DOMAIN rows' = DOMAIN rows /\ Len(rows') = Len(rows)
      /\ \A j \in DOMAIN rows \ {i} : rows'[j] = rows[j]
      /\ rows'[i].correlation = rows[i].correlation
      /\ rows'[i].status # "created"
  <2>1. CASE rows' = rows /\ "running" \notin Entrance!valid_transitions[rows[i].status]
    BY <1>0, <2>1 DEF Entrance!valid_transitions
  <2>2. CASE rows' = [rows EXCEPT ![i] = row]
    <3> HIDE DEF row
    <3> QED
      BY <1>0, <1>5, <2>2
  <2> QED
    BY <1>4, <2>1, <2>2
<1> HIDE DEF g, row
<1>7. HandlingTypeOK' /\ OneHandler' /\ NothingOpens(g)'
  BY <1>0, <1>1, <1>2, <1>6 DEF IntakeInv, HandlingTypeOK, OneHandler, NothingOpens
<1>8. ASSUME NEW j \in DOMAIN rows, NEW k \in DOMAIN rows
      PROVE  OlderClosed(j, k)'
  <2>1. j < k => j # i
    BY <1>0, <1>i
  <2>2. OlderClosed(j, k)
    BY DEF IntakeInv
  <2> QED
    BY <1>6, <2>1, <2>2 DEF OlderClosed
<1>9. Entrance!ConversationsStart'
  <2> SUFFICES ASSUME taken'.faults = 0, NEW j \in DOMAIN rows',
                      rows'[j].mode = "discussion", rows'[j].status = "created"
               PROVE  FALSE
    BY DEF Entrance!ConversationsStart
  <2>1. j \in DOMAIN rows /\ j # i /\ rows'[j] = rows[j]
    BY <1>6
  <2>2. \E k \in handling : k.id = j /\ k.at = "start"
    BY <1>0, <2>1 DEF IntakeInv, Entrance!ConversationsStart
  <2> QED
    BY <1>1, <1>i, <2>1, <2>2
<1> QED
  BY <1>1, <1>2, <1>6, <1>7, <1>8, <1>9 DEF IntakeInv

LEMMA DropStep ==
  ASSUME IntakeInv, NEW h \in handling, Entrance!PublishMessage(h) \/ Entrance!HandlerRaises(h)
  PROVE  IntakeInv'
<1>0. handling' = {} /\ rows' = rows /\ inbox' \in Seq(Messages)
  <2>1. handling' = handling \ {h} /\ rows' = rows
    BY DEF Entrance!PublishMessage, Entrance!HandlerRaises, Entrance!clientVars
  <2>2. inbox' = inbox \/ inbox' = <<>>
    BY DEF Entrance!PublishMessage, Entrance!HandlerRaises, Entrance!clientVars
  <2>3. handling = {h} /\ inbox \in Seq(Messages)
    BY DEF IntakeInv, OneHandler, HandlingTypeOK
  <2>4. handling' = {}
    BY <2>1, <2>3
  <2>5. <<>> \in Seq(Messages)
    OBVIOUS
  <2>6. inbox' \in Seq(Messages)
    BY <2>2, <2>3, <2>5
  <2> QED
    BY <2>1, <2>4, <2>6
<1>1. /\ taken' \in [{"sends", "moves", "faults"} -> Nat]
      /\ taken'.faults = 0 => taken.faults = 0 /\ h.at = "publish"
  <2>1. CASE Entrance!PublishMessage(h)
    BY <2>1 DEF Entrance!PublishMessage, IntakeInv, HandlingTypeOK
  <2>2. CASE Entrance!HandlerRaises(h)
    BY <2>2, IntakeSpendFacts DEF Entrance!HandlerRaises, IntakeInv
  <2> QED
    BY <2>1, <2>2
<1>2. HandlingTypeOK' /\ OneHandler'
  BY <1>0, <1>1 DEF IntakeInv, HandlingTypeOK, OneHandler
<1>3. \A i, j \in DOMAIN rows' : OlderClosed(i, j)'
  BY <1>0 DEF IntakeInv, OlderClosed
<1>4. Entrance!ConversationsStart'
  BY <1>0, <1>1 DEF IntakeInv, Entrance!ConversationsStart, OneHandler
<1> QED
  BY <1>0, <1>2, <1>3, <1>4 DEF IntakeInv

LEMMA ReceiveStep ==
  ASSUME IntakeInv, Entrance!Receive
  PROVE  IntakeInv'
<1>0. /\ inbox' = Tail(inbox) /\ inbox # <<>> /\ inbox \in Seq(Messages) /\ handling = {}
      /\ UNCHANGED <<rows, taken>>
      /\ handling' = {} \/ handling' = {Entrance!Handler(Head(inbox))}
  BY DEF IntakeInv, HandlingTypeOK, Entrance!Receive
<1>1. inbox' \in Seq(Messages) /\ Head(inbox) \in Messages
  BY <1>0
<1>2. /\ Entrance!Handler(Head(inbox)) \in HandlerRecord
      /\ Entrance!Handler(Head(inbox)).at \in {"lookup", "publish"}
  BY <1>1 DEF Entrance!Handler, HandlerRecord, Entrance!Entry, Ids
<1>3. HandlingTypeOK' /\ OneHandler'
  BY <1>0, <1>1, <1>2 DEF IntakeInv, HandlingTypeOK, OneHandler
<1>4. \A h \in handling' : NothingOpens(h)' /\ h.at # "start"
  BY <1>0, <1>2 DEF NothingOpens
<1>5. \A i, j \in DOMAIN rows' : OlderClosed(i, j)'
  BY <1>0 DEF IntakeInv, OlderClosed
<1>6. Entrance!ConversationsStart'
  BY <1>0 DEF IntakeInv, Entrance!ConversationsStart
<1> QED
  BY <1>3, <1>4, <1>5, <1>6 DEF IntakeInv

LEMMA RowStep ==
  ASSUME IntakeInv, NEW i \in DOMAIN rows, Entrance!Progress(i) \/ Entrance!Age(i)
  PROVE  IntakeInv'
<1>0. /\ UNCHANGED <<inbox, handling>> /\ rows \in Seq(RowRecord) /\ rows[i] \in RowRecord
  <2>1. UNCHANGED <<inbox, handling>>
    BY DEF Entrance!Progress, Entrance!Age, Entrance!clientVars
  <2>2. rows \in Seq(RowRecord)
    BY DEF IntakeInv, HandlingTypeOK
  <2> QED
    BY <2>1, <2>2
<1>1. /\ taken' \in [{"sends", "moves", "faults"} -> Nat] /\ taken'.faults = taken.faults
  BY IntakeSpendFacts DEF Entrance!Progress, Entrance!Age, IntakeInv, HandlingTypeOK
<1>2. PICK row \in RowRecord :
         /\ rows' = [rows EXCEPT ![i] = row]
         /\ row.correlation = rows[i].correlation /\ row.mode = rows[i].mode
         /\ rows[i].again => row.again
         /\ row.status \in Entrance!OpenStatus /\ rows[i].status \notin Entrance!OpenStatus
              => row.again
         /\ row.status = "created" => rows[i].status = "created"
  <2>1. CASE Entrance!Progress(i)
    <3>1. PICK s \in Entrance!valid_transitions[rows[i].status] :
             rows' = [rows EXCEPT ![i].status = s, ![i].fresh = (s = "completed"),
                                  ![i].again = @ \/ rows[i].status = "failed"]
      BY <2>1 DEF Entrance!Progress
    <3>2. /\ s \in Entrance!WorkflowStatus /\ s # "created"
          /\ s \in Entrance!OpenStatus /\ rows[i].status \notin Entrance!OpenStatus
               => rows[i].status = "failed"
      BY <1>0 DEF Entrance!valid_transitions, RowRecord, Entrance!WorkflowStatus,
         Entrance!OpenStatus
    <3>3. /\ (s = "completed") \in BOOLEAN
          /\ (rows[i].again \/ rows[i].status = "failed") \in BOOLEAN
      OBVIOUS
    <3>4. ASSUME NEW fresh \in BOOLEAN, NEW again \in BOOLEAN
          PROVE  LET row == [rows[i] EXCEPT !.status = s, !.fresh = fresh, !.again = again]
                 IN  /\ row \in RowRecord
                     /\ row.correlation = rows[i].correlation /\ row.mode = rows[i].mode
                     /\ row.status = s /\ row.again = again
      BY <1>0, <3>2 DEF RowRecord
    <3> DEFINE row == [rows[i] EXCEPT !.status = s, !.fresh = (s = "completed"),
                                      !.again = (rows[i].again \/ rows[i].status = "failed")]
    <3>5. rows' = [rows EXCEPT ![i] = row]
      BY <3>1
    <3>6. /\ row \in RowRecord
          /\ row.correlation = rows[i].correlation /\ row.mode = rows[i].mode
          /\ row.status = s /\ row.again = (rows[i].again \/ rows[i].status = "failed")
      BY <3>3, <3>4
    <3> HIDE DEF row
    <3> QED
      BY <3>2, <3>5, <3>6
  <2>2. CASE Entrance!Age(i)
    <3> DEFINE row == [rows[i] EXCEPT !.fresh = FALSE]
    <3>1. rows' = [rows EXCEPT ![i] = row]
      BY <2>2 DEF Entrance!Age
    <3>2. /\ row \in RowRecord
          /\ row.correlation = rows[i].correlation /\ row.mode = rows[i].mode
          /\ row.status = rows[i].status /\ row.again = rows[i].again
      BY <1>0 DEF RowRecord
    <3> HIDE DEF row
    <3> QED
      BY <3>1, <3>2
  <2> QED
    BY <2>1, <2>2
<1>3. /\ rows' \in Seq(RowRecord) /\ DOMAIN rows' = DOMAIN rows /\ Len(rows') = Len(rows)
      /\ \A j \in DOMAIN rows \ {i} : rows'[j] = rows[j]
      /\ rows'[i] = row
      /\ \A j, k \in DOMAIN rows' : OlderClosed(j, k)'
      /\ \A h \in handling : NothingOpens(h)'
  BY <1>2, RowMoves
<1>4. HandlingTypeOK' /\ OneHandler'
  BY <1>0, <1>1, <1>3 DEF IntakeInv, HandlingTypeOK, OneHandler
<1>5. \A h \in handling' : NothingOpens(h)'
  BY <1>0, <1>3
<1>6. Entrance!ConversationsStart'
  <2>1. \A j \in DOMAIN rows' : rows'[j].mode = "discussion" /\ rows'[j].status = "created" =>
           rows[j].mode = "discussion" /\ rows[j].status = "created"
    BY <1>2, <1>3
  <2> QED
    BY <1>0, <1>1, <1>3, <2>1 DEF IntakeInv, Entrance!ConversationsStart
<1> QED
  BY <1>0, <1>3, <1>4, <1>5, <1>6 DEF IntakeInv

LEMMA IntakeInvStep == Entrance!IntakeAssumption /\ IntakeInv /\ [Entrance!Next]_(Entrance!vars)
  => IntakeInv'
<1> SUFFICES ASSUME Entrance!IntakeAssumption, IntakeInv, [Entrance!Next]_(Entrance!vars)
PROVE IntakeInv'
  OBVIOUS
<1>t. inbox \in Seq(Messages) /\ taken \in [{"sends", "moves", "faults"} -> Nat] /\ HandlingTypeOK
  BY DEF IntakeInv, HandlingTypeOK
<1>1. ASSUME NEW h \in handling,
             Entrance!LookUp(h) \/ Entrance!LookUpFresh(h) \/ Entrance!Create(h)
               \/ Entrance!StartDiscussion(h) \/ Entrance!PublishMessage(h)
               \/ Entrance!HandlerRaises(h)
      PROVE  IntakeInv'
  BY <1>1, IntakeLookUpStep, LookUpFreshStep, IntakeCreateStep, StartDiscussionStep, DropStep
<1>2. CASE Entrance!Connect \/ Entrance!ConnectFails \/ Entrance!Wake \/ Entrance!NoticeEnd
        \/ Entrance!NoticeBreak \/ Entrance!ServerStarts
  <2>1. UNCHANGED <<inbox, handling, rows, taken>>
    BY <1>2 DEF Entrance!Connect, Entrance!ConnectFails, Entrance!Wake, Entrance!NoticeEnd,
       Entrance!NoticeBreak, Entrance!ServerStarts
  <2> QED
    BY <1>t, <2>1, ClientOnly
<1>3. CASE Entrance!Receive
  BY <1>3, ReceiveStep
<1>4. ASSUME NEW m \in Messages, Entrance!SendFrame(m)
      PROVE  IntakeInv'
  BY <1>t, <1>4, IntakeSpendFacts, ClientOnly DEF Entrance!SendFrame
<1>5. ASSUME NEW how \in {"ended", "broken"}, Entrance!EndSession(how)
      PROVE  IntakeInv'
  BY <1>t, <1>5, IntakeSpendFacts, ClientOnly DEF Entrance!EndSession
<1>6. CASE Entrance!ServerStops
  BY <1>t, <1>6, IntakeSpendFacts, ClientOnly DEF Entrance!ServerStops
<1>7. ASSUME NEW i \in DOMAIN rows, Entrance!Progress(i) \/ Entrance!Age(i)
      PROVE  IntakeInv'
  BY <1>7, RowStep
<1>8. CASE UNCHANGED Entrance!vars
  BY <1>t, <1>8, ClientOnly DEF Entrance!vars, Entrance!clientVars
<1> QED
  BY <1>1, <1>2, <1>3, <1>4, <1>5, <1>6, <1>7, <1>8
  DEF Entrance!Next, Entrance!ClientStep, Entrance!HandlerStep

LEMMA IntakeHolds == IntakeInv => Entrance!RequestsArrive
<1> SUFFICES ASSUME IntakeInv PROVE Entrance!RequestsArrive
  OBVIOUS
<1>1. Entrance!OneOpenPerCorrelation
  BY DEF IntakeInv, OlderClosed, Entrance!OneOpenPerCorrelation
<1> QED
  BY <1>1 DEF IntakeInv, Entrance!RequestsArrive

\* SessionClassifier behind the receive loop: no two open workflows of one correlation in
\* sight of each other unless one was started again after a failure, and no conversation
\* is created and left without its discussion.
THEOREM RequestsArriveTheorem == Spec => []RequestsArrive
<1>1. Entrance!Init => IntakeInv
  BY IntakeInitInv, ServicesAssumption DEF ServicesAssumption
<1>2. IntakeInv /\ [Entrance!Next]_(Entrance!vars) => IntakeInv'
  BY IntakeInvStep, ServicesAssumption DEF ServicesAssumption
<1>3. IntakeInv => RequestsArrive
  BY IntakeHolds DEF RequestsArrive
<1> QED
  BY <1>1, <1>2, <1>3, EntrancePart, PTL DEF Entrance!Spec

-----------------------------------------------------------------------------
(* Post-processing.                                                        *)
(* WholeInOnePlace is not inductive: between the look at the place of a    *)
(* file and the end of its copy, the place must stay free (FreePlaceInv),  *)
(* which holds because a run that overlaps no other is alone               *)
(* (OneRunAtWork). That only faults leave a copy beside its original is    *)
(* counted (SpareInv): a run that is alone either removes the original of  *)
(* its last copy or has spent a fault on leaving it. CountedIsTried needs  *)
(* what the watch is about to count: what it has counted is tried or still *)
(* in its hands (CountInv).                                                *)

LEMMA PostPart == Spec => Post!Spec
<1>1. [Next]_vars => [Post!Next]_(Post!vars)
  BY PartSteps DEF postVars, Post!vars
<1> QED
  BY <1>1, PartInits, PTL DEF Spec, Post!Spec

PostRecord == [at : {"idle", "fetch", "next", "file", "move", "copy", "unlink"}, count : Nat,
              todo : Seq(Jobs), dir : SUBSET Jobs, left : SUBSET JobFiles,
              item : JobFiles \cup {None}, moved : BOOLEAN]

ShelfTypeOK ==
    /\ history \in Seq(Jobs)
    /\ jobFolder \in [Jobs -> SUBSET JobFiles]
    /\ jobDirs \in SUBSET Jobs
    /\ mangas \in [Post!Places -> JobFiles \cup {None}]
    /\ unfinished \in SUBSET Post!Places
    /\ doubled \in SUBSET Post!Places
    /\ lastCount \in Nat
    /\ postRun \in [Post!Runs -> PostRecord]
    /\ got \in SUBSET JobFiles
    /\ unheard \in BOOLEAN
    /\ postOverlaps \in BOOLEAN

-----------------------------------------------------------------------------
\* A file in a folder was unpacked there, and one in the library was unpacked.
FoldersInv ==
    /\ \A d \in Jobs : \A f \in jobFolder[d] : Job[f] = d /\ f \in got
    /\ \A p \in Post!Places : mangas[p] # None => mangas[p] \in got

\* A run that is at the files of a download has it in hand, and an idle one has nothing.
HandInv(r) ==
    /\ postRun[r].at = "idle" => postRun[r] = Post!Idle
    /\ postRun[r].at \in {"file", "move", "copy", "unlink"} => postRun[r].todo # <<>>
    /\ postRun[r].at \in {"move", "copy", "unlink"} => postRun[r].item \in JobFiles

OneRunAtWork == \A q, r \in Post!Runs : postRun[q] # Post!Idle /\ postRun[r] # Post!Idle => q = r

\* A file that is in its folder is whole nowhere else, and one that is not is whole in one
\* place of the library.
PlaceInv(f) ==
    /\ f \in jobFolder[Job[f]] => \A p \in Post!Places \ (unfinished \cup doubled) : mangas[p] # f
    /\ f \notin jobFolder[Job[f]] =>
          \E p \in Post!Places \ (unfinished \cup doubled) :
            \A q \in Post!Places \ (unfinished \cup doubled) : mangas[q] = f <=> q = p

\* Nobody takes the place that a run has found free, or the file that it copies.
FreePlaceInv(r) ==
    /\ postRun[r].at \in {"copy", "unlink"} => Post!InFolder(r)
    /\ postRun[r].at = "move" => mangas[Post!Place(r, postRun[r].item)] = None
    /\ postRun[r].at \in {"copy", "unlink"}
         => mangas[Post!Place(r, postRun[r].item)] = postRun[r].item
    /\ postRun[r].at = "copy" => Post!Place(r, postRun[r].item) \in unfinished
    /\ postRun[r].at = "unlink" => Post!Place(r, postRun[r].item) \in doubled \ unfinished

MovesInv == OneRunAtWork /\ (\A f \in got : PlaceInv(f)) /\ (\A r \in Post!Runs : FreePlaceInv(r))

\* The oldest so many jobs of the history.
Oldest(n) == {history[i] : i \in {j \in DOMAIN history : Len(history) - j < n}}

ToDo(r) == {postRun[r].todo[i] : i \in DOMAIN postRun[r].todo}

\* What the watch has counted was processed, or it is about to be.
CountInv ==
    /\ lastCount <= Len(history) /\ postRun["watch"].count <= Len(history)
    /\ ~unheard /\ Len(history) <= Limit =>
          /\ Oldest(lastCount) \subseteq tried
          /\ postRun["watch"].at \in {"next", "file", "move", "copy", "unlink"} =>
                Oldest(postRun["watch"].count) \subseteq tried \cup ToDo("watch")

PostInv ==
    /\ ShelfTypeOK
    /\ FoldersInv
    /\ \A r \in Post!Runs : HandInv(r)
    /\ ~postOverlaps => MovesInv
    /\ CountInv

-----------------------------------------------------------------------------
LEMMA IdleFacts ==
    /\ Post!Idle \in PostRecord /\ Post!Idle.at = "idle" /\ Post!Idle.count = 0
    /\ [Post!Idle EXCEPT !.at = "fetch"] \in PostRecord
    /\ \A n \in Nat : [Post!Idle EXCEPT !.at = "fetch", !.count = n] \in PostRecord
<1>1. Post!Idle \in PostRecord /\ Post!Idle.at = "idle" /\ Post!Idle.count = 0
  BY DEF Post!Idle, PostRecord
<1> QED
  BY <1>1 DEF PostRecord

LEMMA PostInitInv == Post!PostAssumption /\ Post!Init => PostInv
<1> SUFFICES ASSUME Post!PostAssumption, Post!Init PROVE PostInv
  OBVIOUS
<1>1. ShelfTypeOK
  <2>1. jobFolder \in [Jobs -> SUBSET JobFiles]
          /\ mangas \in [Post!Places -> JobFiles \cup {None}]
    BY DEF Post!Init
  <2>2. postRun \in [Post!Runs -> PostRecord]
    BY IdleFacts DEF Post!Init
  <2>3. /\ history \in Seq(Jobs) /\ jobDirs \in SUBSET Jobs
        /\ unfinished \in SUBSET Post!Places /\ doubled \in SUBSET Post!Places
        /\ lastCount \in Nat /\ got \in SUBSET JobFiles
    BY DEF Post!Init
  <2>4. unheard \in BOOLEAN /\ postOverlaps \in BOOLEAN
    BY DEF Post!Init
  <2> QED
    BY <2>1, <2>2, <2>3, <2>4 DEF ShelfTypeOK
<1>2. FoldersInv
  BY DEF Post!Init, FoldersInv
<1>3. \A r \in Post!Runs : HandInv(r) /\ FreePlaceInv(r)
  BY IdleFacts DEF Post!Init, HandInv, FreePlaceInv
<1>4. MovesInv
  BY <1>3 DEF Post!Init, MovesInv, OneRunAtWork
<1>5. CountInv
  <2>1. history = <<>> /\ lastCount = 0 /\ postRun["watch"] = Post!Idle
    BY DEF Post!Init, Post!Runs
  <2>2. Len(history) = 0 /\ DOMAIN history = {}
    BY <2>1
  <2>3. Oldest(lastCount) = {}
    BY <2>2 DEF Oldest
  <2>4. postRun["watch"].at = "idle" /\ postRun["watch"].count = 0
    BY <2>1, IdleFacts
  <2>5. lastCount <= Len(history) /\ postRun["watch"].count <= Len(history)
    BY <2>1, <2>2, <2>4
  <2> QED
    BY <2>3, <2>4, <2>5 DEF CountInv
<1> QED
  BY <1>1, <1>2, <1>3, <1>4, <1>5 DEF PostInv

LEMMA SlotsFacts ==
  ASSUME Post!PostAssumption, ShelfTypeOK
  PROVE  /\ Post!Slots \in Seq(Jobs) /\ Len(Post!Slots) \in Nat /\ Len(Post!Slots) <= Len(history)
         /\ Len(history) <= Limit => Post!Slots = history
<1>1. history \in Seq(Jobs) /\ Limit \in Nat
  BY DEF ShelfTypeOK, Post!PostAssumption
<1>2. CASE Len(history) < Limit
  BY <1>1, <1>2 DEF Post!Slots
<1>3. CASE ~(Len(history) < Limit)
  BY <1>1, <1>3 DEF Post!Slots
<1> QED
  BY <1>2, <1>3

\* The download in hand is a job, and its files have their places.
LEMMA SlotFacts ==
  ASSUME ShelfTypeOK, NEW r \in Post!Runs, postRun[r].todo # <<>>
  PROVE  /\ Post!Slot(r) \in Jobs /\ Tail(postRun[r].todo) \in Seq(Jobs)
         /\ \A f \in JobFiles : Post!Place(r, f) \in Post!Places
         /\ ToDo(r) = {Post!Slot(r)} \cup {Tail(postRun[r].todo)[i] :
              i \in DOMAIN Tail(postRun[r].todo)}
<1>1. postRun[r].todo \in Seq(Jobs)
  BY DEF ShelfTypeOK, PostRecord
<1>2. Post!Slot(r) = postRun[r].todo[1] /\ Post!Slot(r) \in Jobs
        /\ Tail(postRun[r].todo) \in Seq(Jobs)
  BY <1>1 DEF Post!Slot
<1>3. \A f \in JobFiles : Post!Place(r, f) \in Post!Places
  BY <1>2 DEF Post!Place, Post!Places
<1>4. /\ \A i \in DOMAIN Tail(postRun[r].todo) :
            i + 1 \in DOMAIN postRun[r].todo /\ Tail(postRun[r].todo)[i] = postRun[r].todo[i + 1]
      /\ \A i \in DOMAIN postRun[r].todo : i # 1 =>
            /\ i - 1 \in DOMAIN Tail(postRun[r].todo)
            /\ Tail(postRun[r].todo)[i - 1] = postRun[r].todo[i]
      /\ 1 \in DOMAIN postRun[r].todo
  BY <1>1
<1>5. ToDo(r) = {Post!Slot(r)} \cup {Tail(postRun[r].todo)[i] :
        i \in DOMAIN Tail(postRun[r].todo)}
  <2> DEFINE rest == {Tail(postRun[r].todo)[i] : i \in DOMAIN Tail(postRun[r].todo)}
  <2>1. ASSUME NEW i \in DOMAIN postRun[r].todo
        PROVE  postRun[r].todo[i] \in {Post!Slot(r)} \cup rest
    <3>1. CASE i = 1
      BY <1>2, <3>1
    <3>2. CASE i # 1
      BY <1>4, <3>2
    <3> QED
      BY <3>1, <3>2
  <2>2. ASSUME NEW i \in DOMAIN Tail(postRun[r].todo)
        PROVE  Tail(postRun[r].todo)[i] \in ToDo(r)
    BY <1>4 DEF ToDo
  <2>3. Post!Slot(r) \in ToDo(r)
    BY <1>2, <1>4 DEF ToDo
  <2> QED
    BY <2>1, <2>2, <2>3 DEF ToDo
<1> QED
  BY <1>2, <1>3, <1>5

LEMMA SetFacts ==
  ASSUME ShelfTypeOK, NEW r \in Post!Runs, NEW k \in PostRecord, Post!Set(r, k)
  PROVE  /\ postRun' \in [Post!Runs -> PostRecord] /\ postRun'[r] = k
         /\ \A q \in Post!Runs \ {r} : postRun'[q] = postRun[q]
  BY DEF ShelfTypeOK, Post!Set

LEMMA NextSlotFacts ==
  ASSUME ShelfTypeOK, NEW r \in Post!Runs, postRun[r].todo # <<>>
  PROVE  /\ Post!NextSlot(r) \in PostRecord /\ Post!NextSlot(r).at = "next"
         /\ Post!NextSlot(r).count = postRun[r].count
         /\ Post!NextSlot(r).todo = Tail(postRun[r].todo)
<1>1. postRun[r] \in PostRecord /\ Tail(postRun[r].todo) \in Seq(Jobs)
  BY SlotFacts DEF ShelfTypeOK
<1> QED
  BY <1>1 DEF Post!NextSlot, PostRecord
-----------------------------------------------------------------------------
(* What is on the shelves.                                                 *)

\* Steps that move no file.
LEMMA PlacesStay ==
  ASSUME PostInv, UNCHANGED <<jobFolder, mangas, unfinished, doubled, got>>
  PROVE  FoldersInv' /\ (~postOverlaps => \A f \in got' : PlaceInv(f)')
<1>1. FoldersInv'
  BY DEF PostInv, FoldersInv
<1>2. ~postOverlaps => \A f \in got' : PlaceInv(f)'
  BY DEF PostInv, MovesInv, PlaceInv
<1> QED
  BY <1>1, <1>2

\* A run that was not idle and overlaps no other takes a step: the others stay idle.
LEMMA OthersIdle ==
  ASSUME PostInv, ~postOverlaps, NEW r \in Post!Runs, postRun[r].at # "idle",
         NEW k \in PostRecord, Post!Set(r, k)
  PROVE  /\ OneRunAtWork'
         /\ \A q \in Post!Runs \ {r} : postRun'[q] = Post!Idle /\ FreePlaceInv(q)'
<1>1. /\ \A q \in Post!Runs \ {r} : postRun[q] = Post!Idle
  BY IdleFacts DEF PostInv, MovesInv, OneRunAtWork
<1>2. \A q \in Post!Runs \ {r} : postRun'[q] = Post!Idle
  BY <1>1, SetFacts DEF PostInv
<1> QED
  BY <1>2, IdleFacts DEF OneRunAtWork, FreePlaceInv

\* Runs that move nothing.
LEMMA ReadsStep ==
  ASSUME PostInv, NEW r \in Post!Runs, postRun[r].at # "idle", NEW k \in PostRecord,
         Post!Set(r, k),
         Post!ReadsOnly, postOverlaps' = postOverlaps, ShelfTypeOK', CountInv', HandInv(r)',
         k.at \notin {"copy", "unlink"},
         k.at = "move" /\ ~postOverlaps => mangas[Post!Place(r, k.item)'] = None
  PROVE  PostInv'
<1>1. /\ UNCHANGED <<jobFolder, mangas, unfinished, doubled, got>>
  BY DEF Post!ReadsOnly
<1>2. postRun'[r] = k /\ \A q \in Post!Runs \ {r} : postRun'[q] = postRun[q]
  BY SetFacts DEF PostInv
<1>3. \A q \in Post!Runs : HandInv(q)'
  BY <1>2 DEF PostInv, HandInv
<1>4. ~postOverlaps => FreePlaceInv(r)'
  BY <1>1, <1>2 DEF FreePlaceInv
<1>5. ~postOverlaps => MovesInv'
  BY <1>1, <1>4, OthersIdle, PlacesStay DEF MovesInv
<1> QED
  BY <1>1, <1>3, <1>5, PlacesStay DEF PostInv

\* A run begins: if it is the only one, nothing is on its way to the library.
LEMMA BeginFacts ==
  ASSUME PostInv, NEW r \in Post!Runs, postRun[r] = Post!Idle, NEW k \in PostRecord,
         k.at = "fetch",
         Post!Begin(r, k), Post!ReadsOnly, ShelfTypeOK', CountInv'
  PROVE  PostInv'
<1>1. UNCHANGED <<jobFolder, mangas, unfinished, doubled, got>>
  BY DEF Post!ReadsOnly
<1>2. postRun'[r] = k /\ \A q \in Post!Runs \ {r} : postRun'[q] = postRun[q]
  BY SetFacts DEF PostInv, Post!Begin
<1>3. \A q \in Post!Runs : HandInv(q)'
  BY <1>2 DEF PostInv, HandInv
<1>4. ASSUME ~postOverlaps'
      PROVE  MovesInv'
  <2>1. ~postOverlaps /\ \A q \in Post!Runs \ {r} : postRun[q] = Post!Idle
    BY <1>4 DEF Post!Begin
  <2>2. OneRunAtWork' /\ \A q \in Post!Runs : FreePlaceInv(q)'
    BY <1>2, <2>1, IdleFacts DEF OneRunAtWork, FreePlaceInv
  <2> QED
    BY <1>1, <2>1, <2>2, PlacesStay DEF MovesInv
<1> QED
  BY <1>1, <1>3, <1>4, PlacesStay DEF PostInv

-----------------------------------------------------------------------------
(* What the watch has counted.                                             *)

\* Steps that the watch does not notice.
LEMMA CountStays ==
  ASSUME PostInv, UNCHANGED <<history, lastCount>>, postRun'["watch"] = postRun["watch"],
         tried \subseteq tried', unheard \in BOOLEAN, unheard => unheard'
  PROVE  CountInv'
<1>1. Oldest(lastCount)' = Oldest(lastCount) /\ ToDo("watch")' = ToDo("watch")
      /\ Oldest(postRun["watch"].count)' = Oldest(postRun["watch"].count)
  BY DEF Oldest, ToDo
<1> QED
  BY <1>1 DEF PostInv, CountInv

\* The watch goes to where it has no downloads in hand.
LEMMA WatchRests ==
  ASSUME PostInv, UNCHANGED history, lastCount' \in {lastCount, 0} \/ lastCount' <= Len(history),
         lastCount' \in Nat, postRun'["watch"].at \in {"idle", "fetch"},
         postRun'["watch"].count <= Len(history),
         ~unheard' /\ Len(history) <= Limit => Oldest(lastCount') \subseteq tried'
  PROVE  CountInv'
<1>1. lastCount' <= Len(history)
  <2>1. history \in Seq(Jobs) /\ lastCount <= Len(history)
    BY DEF PostInv, ShelfTypeOK, CountInv
  <2> QED
    BY <2>1
<1>2. Oldest(lastCount)' = Oldest(lastCount')
  BY DEF Oldest
<1> QED
  BY <1>1, <1>2 DEF CountInv

LEMMA OldestNone ==
  ASSUME ShelfTypeOK
  PROVE  Oldest(0) = {}
<1>1. history \in Seq(Jobs)
  BY DEF ShelfTypeOK
<1>2. \A j \in DOMAIN history : ~(Len(history) - j < 0)
  BY <1>1
<1> QED
  BY <1>2 DEF Oldest

LEMMA OldestGrows ==
  ASSUME ShelfTypeOK, NEW m \in Nat, NEW n \in Nat, m <= n
  PROVE  Oldest(m) \subseteq Oldest(n)
<1>1. history \in Seq(Jobs)
  BY DEF ShelfTypeOK
<1>2. \A j \in DOMAIN history : Len(history) - j < m => Len(history) - j < n
  BY <1>1
<1> QED
  BY <1>2 DEF Oldest

LEMMA OldestInHistory == \A n : Oldest(n) \subseteq {history[i] : i \in DOMAIN history}
  BY DEF Oldest

\* A step of a run that has downloads in hand, which keeps them or has tried them.
LEMMA CountGoesOn ==
  ASSUME PostInv, NEW r \in Post!Runs, NEW k \in PostRecord, Post!Set(r, k),
         UNCHANGED <<history, lastCount, unheard>>,
         postRun[r].at \in {"next", "file", "move", "copy", "unlink"}, k.count = postRun[r].count,
         tried \subseteq tried', ToDo(r) \subseteq tried' \cup ToDo(r)'
  PROVE  CountInv'
<1>t. ShelfTypeOK /\ "watch" \in Post!Runs
  BY DEF PostInv, Post!Runs
<1>1. CASE r # "watch"
  <2>1. postRun'["watch"] = postRun["watch"]
    BY <1>t, <1>1, SetFacts
  <2>2. unheard \in BOOLEAN
    BY <1>t DEF ShelfTypeOK
  <2> QED
    BY <2>1, <2>2, CountStays
<1>2. CASE r = "watch"
  <2>1. postRun'["watch"].count = postRun["watch"].count
    BY <1>t, <1>2, SetFacts
  <2>2. Oldest(lastCount)' = Oldest(lastCount)
        /\ Oldest(postRun["watch"].count)' = Oldest(postRun["watch"].count)
    BY <2>1 DEF Oldest
  <2> QED
    BY <1>2, <2>1, <2>2 DEF PostInv, CountInv
<1> QED
  BY <1>1, <1>2

-----------------------------------------------------------------------------
(* The steps.                                                              *)

LEMMA ReadsType ==
  ASSUME ShelfTypeOK, NEW r \in Post!Runs, NEW k \in PostRecord, Post!Set(r, k), Post!ReadsOnly,
         lastCount' \in Nat, unheard' \in BOOLEAN, postOverlaps' \in BOOLEAN
  PROVE  ShelfTypeOK'
  BY SetFacts DEF ShelfTypeOK, Post!ReadsOnly

LEMMA UnpackFileStep ==
  ASSUME Post!PostAssumption, PostInv, NEW f \in JobFiles, Post!Unpack(f)
  PROVE  PostInv'
<1>0. /\ f \notin got /\ got' = got \cup {f} /\ jobDirs' = jobDirs \cup {Job[f]}
      /\ jobFolder' = [jobFolder EXCEPT ![Job[f]] = @ \cup {f}]
      /\ UNCHANGED <<history, mangas, unfinished, doubled, lastCount, postRun, tried, unheard,
           postOverlaps>>
      /\ Job[f] \in Jobs /\ \A g \in JobFiles : Job[g] \in Jobs
  BY DEF Post!Unpack, Post!PostAssumption
<1>t. ShelfTypeOK
  BY DEF PostInv
<1>1. /\ jobFolder' \in [Jobs -> SUBSET JobFiles]
      /\ jobFolder'[Job[f]] = jobFolder[Job[f]] \cup {f}
      /\ \A d \in Jobs : d # Job[f] => jobFolder'[d] = jobFolder[d]
  BY <1>0, <1>t DEF ShelfTypeOK
<1>2. ShelfTypeOK'
  BY <1>0, <1>t, <1>1 DEF ShelfTypeOK
<1>3. FoldersInv'
  BY <1>0, <1>1 DEF PostInv, FoldersInv
<1>4. \A r \in Post!Runs : HandInv(r)'
  BY <1>0 DEF PostInv, HandInv
<1>5. CountInv'
  BY <1>0, <1>t, CountStays DEF ShelfTypeOK
<1>6. ASSUME ~postOverlaps
      PROVE  MovesInv'
  <2>1. MovesInv
    BY <1>6 DEF PostInv
  <2>2. OneRunAtWork' /\ \A r \in Post!Runs : FreePlaceInv(r)'
    <3>1. \A d \in Jobs : jobFolder[d] \subseteq jobFolder'[d]
      BY <1>1
    <3>2. \A r \in Post!Runs : postRun[r].dir \in SUBSET Jobs
      BY <1>t DEF ShelfTypeOK, PostRecord
    <3>3. \A r \in Post!Runs : Post!InFolder(r) => Post!InFolder(r)'
      BY <1>0, <3>1, <3>2 DEF Post!InFolder
    <3> QED
      BY <1>0, <2>1, <3>3 DEF MovesInv, OneRunAtWork, FreePlaceInv, Post!Place, Post!Slot
  <2>3. PlaceInv(f)'
    <3>1. \A p \in Post!Places : mangas[p] # f
      BY <1>0, <1>t DEF PostInv, FoldersInv, Post!PostAssumption, ShelfTypeOK
    <3> QED
      BY <1>0, <1>1, <3>1 DEF PlaceInv
  <2>4. ASSUME NEW g \in got
        PROVE  PlaceInv(g)'
    <3>1. PlaceInv(g) /\ g # f /\ g \in JobFiles /\ Job[g] \in Jobs
      BY <1>0, <1>t, <2>1 DEF MovesInv, ShelfTypeOK
    <3>2. g \in jobFolder'[Job[g]] <=> g \in jobFolder[Job[g]]
      BY <1>1, <3>1
    <3> QED
      BY <1>0, <3>1, <3>2 DEF PlaceInv
  <2> QED
    BY <1>0, <2>2, <2>3, <2>4 DEF MovesInv
<1> QED
  BY <1>0, <1>2, <1>3, <1>4, <1>5, <1>6 DEF PostInv

LEMMA FinishJobStep ==
  ASSUME Post!PostAssumption, PostInv, NEW j \in Jobs, Post!Finish(j)
  PROVE  PostInv'
<1>0. /\ history' = <<j>> \o history
      /\ UNCHANGED <<jobFolder, jobDirs, mangas, unfinished, doubled, lastCount, postRun,
           postUsed, got, tried, unheard, postOverlaps>>
  BY DEF Post!Finish
<1>t. ShelfTypeOK /\ history \in Seq(Jobs)
  BY DEF PostInv, ShelfTypeOK
<1>1. /\ history' \in Seq(Jobs) /\ Len(history') = Len(history) + 1
      /\ \A i \in DOMAIN history' : i # 1 =>
            i - 1 \in DOMAIN history /\ history'[i] = history[i - 1]
  BY <1>0, <1>t
<1>2. ShelfTypeOK'
  BY <1>0, <1>1, <1>t DEF ShelfTypeOK
<1>3. FoldersInv' /\ \A r \in Post!Runs : HandInv(r)'
  BY <1>0 DEF PostInv, FoldersInv, HandInv
<1>4. ~postOverlaps => MovesInv'
  BY <1>0 DEF PostInv, MovesInv, OneRunAtWork, PlaceInv, FreePlaceInv, Post!Place, Post!Slot,
     Post!InFolder
<1>5. ASSUME NEW n \in Nat, n <= Len(history)
      PROVE  Oldest(n)' \subseteq Oldest(n)
  <2>1. ASSUME NEW i \in DOMAIN history', Len(history') - i < n
        PROVE  history'[i] \in Oldest(n)
    <3>1. i \in Nat /\ Len(history) \in Nat
      BY <1>1, <1>t
    <3>2. i # 1
      BY <1>1, <1>5, <2>1, <3>1
    <3>3. i - 1 \in DOMAIN history /\ Len(history) - (i - 1) < n
      BY <1>1, <2>1, <3>1, <3>2
    <3> QED
      BY <1>1, <3>2, <3>3 DEF Oldest
  <2> QED
    BY <2>1 DEF Oldest
<1>6. CountInv'
  <2>1. /\ lastCount \in Nat /\ postRun["watch"].count \in Nat /\ Len(history) \in Nat
    BY <1>t DEF ShelfTypeOK, PostRecord, Post!Runs
  <2>2. lastCount <= Len(history) /\ postRun["watch"].count <= Len(history)
    BY DEF PostInv, CountInv
  <2>3. lastCount' <= Len(history') /\ postRun'["watch"].count <= Len(history')
    BY <1>0, <1>1, <2>1, <2>2
  <2>4. /\ Oldest(lastCount)' \subseteq Oldest(lastCount)
        /\ Oldest(postRun["watch"].count)' \subseteq Oldest(postRun["watch"].count)
    BY <1>0, <1>5, <2>1, <2>2
  <2>5. Len(history') <= Limit => Len(history) <= Limit
    BY <1>1, <2>1 DEF Post!PostAssumption
  <2>6. ToDo("watch")' = ToDo("watch")
    BY <1>0 DEF ToDo
  <2> QED
    BY <1>0, <2>3, <2>4, <2>5, <2>6 DEF PostInv, CountInv
<1> QED
  BY <1>0, <1>2, <1>3, <1>4, <1>6 DEF PostInv

LEMMA WakeStep ==
  ASSUME Post!PostAssumption, PostInv, NEW r \in Post!Runs, Post!Wake(r) \/ Post!StartByHand(r)
  PROVE  PostInv'
<1>t. ShelfTypeOK /\ CountInv
  BY DEF PostInv
<1>s. /\ Post!Slots \in Seq(Jobs) /\ Len(Post!Slots) \in Nat /\ Len(Post!Slots) <= Len(history)
      /\ lastCount \in Nat /\ Len(history) \in Nat
  BY <1>t, SlotsFacts DEF ShelfTypeOK
<1>0. postRun[r] = Post!Idle /\ Post!ReadsOnly /\ UNCHANGED <<tried, unheard, history>>
  BY DEF Post!Wake, Post!StartByHand, Post!ReadsOnly
<1>1. ASSUME NEW k \in PostRecord, k.at = "fetch", k.count <= Len(history), Post!Begin(r, k),
             UNCHANGED lastCount
      PROVE  PostInv'
  <2>1. postOverlaps' \in BOOLEAN /\ unheard' \in BOOLEAN /\ Post!Set(r, k)
    BY <1>0, <1>1, <1>t DEF Post!Begin, ShelfTypeOK
  <2>2. ShelfTypeOK'
    BY <1>0, <1>1, <1>s, <1>t, <2>1, ReadsType
  <2>3. CountInv'
    <3>1. CASE r # "watch"
      <4>1. postRun'["watch"] = postRun["watch"]
        BY <1>t, <2>1, <3>1, SetFacts DEF Post!Runs
      <4> QED
        BY <1>0, <1>1, <1>t, <4>1, CountStays DEF ShelfTypeOK
    <3>2. CASE r = "watch"
      <4>1. postRun'["watch"].at = "fetch" /\ postRun'["watch"].count <= Len(history)
        BY <1>1, <1>t, <2>1, <3>2, SetFacts
      <4> QED
        BY <1>0, <1>1, <1>s, <1>t, <4>1, WatchRests DEF CountInv
    <3> QED
      BY <3>1, <3>2
  <2> QED
    BY <1>0, <1>1, <2>2, <2>3, BeginFacts
<1>2. CASE Post!StartByHand(r)
  <2> DEFINE k == [Post!Idle EXCEPT !.at = "fetch"]
  <2>1. k \in PostRecord /\ k.at = "fetch" /\ k.count = 0
    BY IdleFacts DEF PostRecord
  <2>2. Post!Begin(r, k) /\ UNCHANGED lastCount
    BY <1>2 DEF Post!StartByHand
  <2> HIDE DEF k
  <2>3. k.count <= Len(history)
    BY <1>s, <2>1
  <2> QED
    BY <1>1, <2>1, <2>2, <2>3
<1>3. CASE Post!Wake(r) /\ Len(Post!Slots) > lastCount
  <2> DEFINE k == [Post!Idle EXCEPT !.at = "fetch", !.count = Len(Post!Slots)]
  <2>1. k \in PostRecord /\ k.at = "fetch" /\ k.count = Len(Post!Slots)
    BY <1>s, IdleFacts DEF PostRecord
  <2>2. Post!Begin(r, k) /\ UNCHANGED lastCount
    BY <1>3 DEF Post!Wake
  <2> HIDE DEF k
  <2> QED
    BY <1>1, <1>s, <2>1, <2>2
<1>4. CASE Post!Wake(r) /\ ~(Len(Post!Slots) > lastCount)
  <2>1. lastCount' = Len(Post!Slots) /\ UNCHANGED <<postRun, postOverlaps>>
    BY <1>4 DEF Post!Wake
  <2>2. /\ UNCHANGED <<history, jobFolder, jobDirs, mangas, unfinished, doubled, got>>
    BY <1>0 DEF Post!ReadsOnly
  <2>3. ShelfTypeOK'
    BY <1>0, <1>s, <1>t, <2>1, <2>2 DEF ShelfTypeOK
  <2>4. CountInv'
    <3>1. r = "watch" /\ postRun'["watch"].at = "idle" /\ postRun'["watch"].count <= Len(history)
      BY <1>0, <1>4, <1>t, <2>1, IdleFacts DEF Post!Wake, CountInv
    <3>2. Oldest(Len(Post!Slots)) \subseteq Oldest(lastCount)
      BY <1>4, <1>s, <1>t, OldestGrows
    <3> QED
      BY <1>0, <1>s, <1>t, <2>1, <3>1, <3>2, WatchRests DEF CountInv
  <2>5. (\A q \in Post!Runs : HandInv(q)') /\ (~postOverlaps => MovesInv')
    BY <2>1, <2>2
    DEF PostInv, HandInv, MovesInv, OneRunAtWork, PlaceInv, FreePlaceInv, Post!Place, Post!Slot,
      Post!InFolder
  <2> QED
    BY <2>1, <2>2, <2>3, <2>4, <2>5, PlacesStay DEF PostInv
<1> QED
  BY <1>2, <1>3, <1>4

LEMMA WakeUnheardStep ==
  ASSUME PostInv, NEW r \in Post!Runs, Post!WakeUnheard(r)
  PROVE  PostInv'
<1>0. /\ r = "watch" /\ postRun[r] = Post!Idle /\ lastCount' = 0
      /\ UNCHANGED <<postRun, tried, unheard, postOverlaps, history, jobFolder, jobDirs, mangas,
           unfinished, doubled, got>>
  BY DEF Post!WakeUnheard, Post!ReadsOnly
<1>1. ShelfTypeOK /\ ShelfTypeOK' /\ CountInv
  BY <1>0 DEF PostInv, ShelfTypeOK
<1>2. CountInv'
  BY <1>0, <1>1, IdleFacts, OldestNone, WatchRests DEF CountInv
<1>3. (\A q \in Post!Runs : HandInv(q)') /\ (~postOverlaps => MovesInv')
  BY <1>0 DEF PostInv, HandInv, MovesInv, OneRunAtWork, PlaceInv, FreePlaceInv, Post!Place,
     Post!Slot, Post!InFolder
<1> QED
  BY <1>0, <1>1, <1>2, <1>3, PlacesStay DEF PostInv

LEMMA FetchStep ==
  ASSUME Post!PostAssumption, PostInv, NEW r \in Post!Runs, Post!Fetch(r) \/ Post!FetchFails(r)
  PROVE  PostInv'
<1>t. ShelfTypeOK /\ postRun[r] \in PostRecord /\ CountInv
  BY DEF PostInv, ShelfTypeOK
<1>s. /\ Post!Slots \in Seq(Jobs) /\ (Len(history) <= Limit => Post!Slots = history)
      /\ lastCount \in Nat /\ "watch" \in Post!Runs
  BY <1>t, SlotsFacts DEF ShelfTypeOK, Post!Runs
<1>0. /\ postRun[r].at = "fetch" /\ Post!ReadsOnly /\ UNCHANGED <<history, lastCount, tried,
           postOverlaps>>
      /\ unheard' \in BOOLEAN /\ postOverlaps' \in BOOLEAN /\ (unheard => unheard')
  BY <1>t DEF Post!Fetch, Post!FetchFails, Post!ReadsOnly, ShelfTypeOK
<1>1. ASSUME NEW k \in PostRecord, k.at = "next", k.count = postRun[r].count, Post!Set(r, k),
             ~unheard' => k.todo = Post!Slots
      PROVE  PostInv'
  <2>1. postRun'[r] = k /\ \A q \in Post!Runs \ {r} : postRun'[q] = postRun[q]
    BY <1>1, <1>t, SetFacts
  <2>2. ShelfTypeOK'
    BY <1>0, <1>1, <1>s, <1>t, ReadsType
  <2>3. CountInv'
    <3>1. CASE r # "watch"
      <4>1. postRun'["watch"] = postRun["watch"]
        BY <1>s, <2>1, <3>1
      <4>2. unheard \in BOOLEAN
        BY <1>t DEF ShelfTypeOK
      <4> QED
        BY <1>0, <4>1, <4>2, CountStays
    <3>2. CASE r = "watch"
      <4>1. postRun'["watch"] = k /\ postRun'["watch"].count = postRun["watch"].count
        BY <1>1, <2>1, <3>2
      <4>2. ~unheard' /\ Len(history) <= Limit =>
               ToDo("watch")' = {history[i] : i \in DOMAIN history}
        BY <1>1, <1>s, <4>1 DEF ToDo
      <4>3. Oldest(lastCount)' = Oldest(lastCount)
            /\ Oldest(postRun["watch"].count)' = Oldest(postRun["watch"].count)
        BY <1>0, <4>1 DEF Oldest
      <4>4. Oldest(postRun["watch"].count) \subseteq {history[i] : i \in DOMAIN history}
        BY OldestInHistory
      <4> QED
        BY <1>0, <1>t, <4>1, <4>2, <4>3, <4>4 DEF CountInv, ShelfTypeOK
    <3> QED
      BY <3>1, <3>2
  <2>4. HandInv(r)'
    BY <1>1, <2>1 DEF HandInv
  <2> QED
    BY <1>0, <1>1, <2>2, <2>3, <2>4, ReadsStep
<1>2. CASE Post!Fetch(r)
  <2> DEFINE k == [postRun[r] EXCEPT !.at = "next", !.todo = Post!Slots]
  <2>1. k \in PostRecord /\ k.at = "next" /\ k.count = postRun[r].count /\ k.todo = Post!Slots
    BY <1>s, <1>t DEF PostRecord
  <2>2. Post!Set(r, k)
    BY <1>2 DEF Post!Fetch
  <2> HIDE DEF k
  <2> QED
    BY <1>1, <2>1, <2>2
<1>3. CASE Post!FetchFails(r)
  <2> DEFINE k == [postRun[r] EXCEPT !.at = "next"]
  <2>1. k \in PostRecord /\ k.at = "next" /\ k.count = postRun[r].count
    BY <1>t DEF PostRecord
  <2>2. Post!Set(r, k) /\ unheard'
    BY <1>3 DEF Post!FetchFails
  <2> HIDE DEF k
  <2> QED
    BY <1>1, <2>1, <2>2
<1> QED
  BY <1>2, <1>3

\* A run looks at the download that it has in hand, or is done with it.
LEMMA ReadsOn ==
  ASSUME PostInv, NEW r \in Post!Runs, NEW k \in PostRecord, Post!Set(r, k), Post!ReadsOnly,
         UNCHANGED <<lastCount, unheard, postOverlaps>>, postRun[r].at \in {"next", "file"},
         k.at \in {"next", "file", "move"}, k.count = postRun[r].count, tried \subseteq tried',
         ToDo(r) \subseteq tried' \cup {k.todo[i] : i \in DOMAIN k.todo},
         k.at \in {"file", "move"} => k.todo # <<>>,
         k.at = "move" => k.item \in JobFiles,
         k.at = "move" => mangas[<<Folder[Head(k.todo)], Name[k.item]>>] = None
  PROVE  PostInv'
<1>t. ShelfTypeOK
  BY DEF PostInv
<1>1. postRun'[r] = k
  BY <1>t, SetFacts
<1>2. ShelfTypeOK'
  BY <1>t, ReadsType DEF ShelfTypeOK
<1>3. CountInv'
  <2>1. ToDo(r)' = {k.todo[i] : i \in DOMAIN k.todo}
    BY <1>1 DEF ToDo
  <2>2. UNCHANGED history
    BY DEF Post!ReadsOnly
  <2> QED
    BY <2>1, <2>2, CountGoesOn
<1>4. HandInv(r)'
  BY <1>1 DEF HandInv
<1>5. k.at = "move" => mangas[Post!Place(r, k.item)'] = None
  BY <1>1 DEF Post!Place, Post!Slot
<1> QED
  BY <1>2, <1>3, <1>4, <1>5, ReadsStep

LEMMA FindStep ==
  ASSUME PostInv, NEW r \in Post!Runs, Post!FindFiles(r)
  PROVE  PostInv'
<1>t. ShelfTypeOK /\ postRun[r] \in PostRecord
  BY DEF PostInv, ShelfTypeOK
<1>1. PICK d \in Post!Candidates(Post!Slot(r)) :
         Post!Set(r, [postRun[r] EXCEPT !.at = "file", !.dir = {d}, !.left = jobFolder[d]])
  BY DEF Post!FindFiles
<1>2. d \in Jobs /\ jobFolder[d] \in SUBSET JobFiles
  <2>1. Post!Slot(r) \in Jobs
    BY <1>t, SlotFacts DEF Post!FindFiles
  <2> QED
    BY <1>t, <2>1 DEF Post!Candidates, ShelfTypeOK
<1> DEFINE k == [postRun[r] EXCEPT !.at = "file", !.dir = {d}, !.left = jobFolder[d]]
<1>3. k \in PostRecord /\ k.at = "file" /\ k.count = postRun[r].count /\ k.todo = postRun[r].todo
  BY <1>2, <1>t DEF PostRecord
<1>4. Post!Set(r, k)
  BY <1>1
<1> HIDE DEF k
<1>5. ToDo(r) \subseteq tried' \cup {k.todo[i] : i \in DOMAIN k.todo}
  BY <1>3 DEF ToDo
<1> QED
  BY <1>3, <1>4, <1>5, ReadsOn DEF Post!FindFiles

LEMMA NoDirectoryStep ==
  ASSUME PostInv, NEW r \in Post!Runs, Post!NoDirectory(r)
  PROVE  PostInv'
<1>t. ShelfTypeOK /\ postRun[r].todo # <<>>
  BY DEF PostInv, Post!NoDirectory
<1> DEFINE k == Post!NextSlot(r)
<1>1. k \in PostRecord /\ k.at = "next" /\ k.count = postRun[r].count
        /\ k.todo = Tail(postRun[r].todo)
  BY <1>t, NextSlotFacts
<1>2. Post!Set(r, k)
  BY DEF Post!NoDirectory
<1> HIDE DEF k
<1>3. ToDo(r) \subseteq tried' \cup {k.todo[i] : i \in DOMAIN k.todo}
  BY <1>1, <1>t, SlotFacts DEF Post!NoDirectory
<1> QED
  BY <1>1, <1>2, <1>3, ReadsOn DEF Post!NoDirectory

LEMMA CheckStep ==
  ASSUME PostInv, NEW r \in Post!Runs, Post!CheckFile(r)
  PROVE  PostInv'
<1>t. ShelfTypeOK /\ postRun[r] \in PostRecord /\ postRun[r].todo # <<>>
  BY DEF PostInv, ShelfTypeOK, HandInv, Post!CheckFile
<1>0. postRun[r].at = "file" /\ Post!ReadsOnly /\ UNCHANGED <<lastCount, tried, unheard,
        postOverlaps>>
  BY DEF Post!CheckFile
<1>1. PICK f \in postRun[r].left :
         Post!Set(r, IF mangas[Post!Place(r, f)] # None
                THEN [postRun[r] EXCEPT !.left = @ \ {f}]
                ELSE [postRun[r] EXCEPT !.at = "move", !.item = f])
  BY DEF Post!CheckFile
<1>2. f \in JobFiles
  BY <1>t DEF PostRecord
<1>3. CASE mangas[Post!Place(r, f)] # None
  <2> DEFINE k == [postRun[r] EXCEPT !.left = @ \ {f}]
  <2>1. k \in PostRecord /\ k.at = "file" /\ k.count = postRun[r].count
          /\ k.todo = postRun[r].todo
    BY <1>0, <1>t DEF PostRecord
  <2>2. Post!Set(r, k)
    BY <1>1, <1>3
  <2> HIDE DEF k
  <2>3. ToDo(r) \subseteq tried' \cup {k.todo[i] : i \in DOMAIN k.todo}
    BY <2>1 DEF ToDo
  <2> QED
    BY <1>0, <1>t, <2>1, <2>2, <2>3, ReadsOn
<1>4. CASE mangas[Post!Place(r, f)] = None
  <2> DEFINE k == [postRun[r] EXCEPT !.at = "move", !.item = f]
  <2>1. /\ k \in PostRecord /\ k.at = "move" /\ k.count = postRun[r].count
        /\ k.todo = postRun[r].todo /\ k.item = f
    BY <1>2, <1>t DEF PostRecord
  <2>2. Post!Set(r, k)
    BY <1>1, <1>4
  <2> HIDE DEF k
  <2>3. ToDo(r) \subseteq tried' \cup {k.todo[i] : i \in DOMAIN k.todo}
    BY <2>1 DEF ToDo
  <2>4. mangas[<<Folder[Head(k.todo)], Name[k.item]>>] = None
    BY <1>4, <2>1 DEF Post!Place, Post!Slot
  <2> QED
    BY <1>0, <1>2, <1>t, <2>1, <2>2, <2>3, <2>4, ReadsOn
<1> QED
  BY <1>3, <1>4

\* A run is over, or is cut off.
LEMMA IdleStep ==
  ASSUME PostInv, NEW r \in Post!Runs, Post!EndRun(r) \/ Post!MoveRaises(r) \/ Post!Killed(r)
  PROVE  PostInv'
<1>t. ShelfTypeOK /\ CountInv /\ postRun[r] \in PostRecord /\ "watch" \in Post!Runs
  BY DEF PostInv, ShelfTypeOK, Post!Runs
<1>0. /\ Post!Set(r, Post!Idle) /\ Post!ReadsOnly /\ UNCHANGED <<history, tried, unheard,
           postOverlaps>>
      /\ unheard' \in BOOLEAN /\ postOverlaps' \in BOOLEAN /\ postRun[r] # Post!Idle
  BY <1>t, IdleFacts DEF Post!EndRun, Post!MoveRaises, Post!Killed, Post!ReadsOnly, ShelfTypeOK
<1>1. CASE postRun[r].at # "idle"
  <2>1. /\ postRun'[r] = Post!Idle /\ \A q \in Post!Runs \ {r} : postRun'[q] = postRun[q]
    BY <1>0, <1>t, IdleFacts, SetFacts
  <2>n. lastCount \in Nat /\ postRun["watch"].count \in Nat /\ Len(history) \in Nat
    BY <1>t DEF ShelfTypeOK, PostRecord
  <2>2. /\ lastCount' \in Nat /\ (r # "watch" => lastCount' = lastCount)
        /\ r = "watch" => \/ lastCount' \in {lastCount, 0}
                          \/ /\ lastCount' = postRun["watch"].count
                             /\ postRun["watch"].at = "next" /\ postRun["watch"].todo = <<>>
    BY <2>n DEF Post!EndRun, Post!MoveRaises, Post!Killed
  <2>3. ShelfTypeOK'
    BY <1>0, <1>t, <2>2, IdleFacts, ReadsType
  <2>4. CASE r # "watch"
    <3>1. postRun'["watch"] = postRun["watch"] /\ lastCount' = lastCount
      BY <1>t, <2>1, <2>2, <2>4
    <3>2. CountInv'
      BY <1>0, <1>t, <3>1, CountStays DEF ShelfTypeOK
    <3> QED
      BY <1>0, <1>1, <2>1, <2>3, <3>2, IdleFacts, ReadsStep DEF HandInv
  <2>5. CASE r = "watch"
    <3>1. postRun'["watch"].at = "idle" /\ postRun'["watch"].count = 0
      BY <2>1, <2>5, IdleFacts
    <3>2. ~unheard /\ Len(history) <= Limit => Oldest(lastCount') \subseteq tried
      <4>1. CASE lastCount' = lastCount
        BY <1>t, <4>1 DEF CountInv
      <4>2. CASE lastCount' = 0
        BY <1>t, <4>2, OldestNone
      <4>3. CASE lastCount' = postRun["watch"].count /\ postRun["watch"].at = "next"
                 /\ postRun["watch"].todo = <<>>
        <5>1. ToDo("watch") = {}
          BY <4>3 DEF ToDo
        <5> QED
          BY <1>t, <4>3, <5>1 DEF CountInv
      <4> QED
        BY <2>2, <2>5, <4>1, <4>2, <4>3
    <3>3. lastCount' <= Len(history) /\ postRun'["watch"].count <= Len(history)
      BY <1>t, <2>2, <2>5, <2>n, <3>1 DEF CountInv
    <3>4. CountInv'
      BY <1>0, <2>2, <3>1, <3>2, <3>3, WatchRests
    <3> QED
      BY <1>0, <1>1, <2>1, <2>3, <3>4, IdleFacts, ReadsStep DEF HandInv
  <2> QED
    BY <2>4, <2>5
<1>2. CASE postRun[r].at = "idle"
  BY <1>0, <1>2 DEF PostInv, HandInv
<1> QED
  BY <1>1, <1>2

-----------------------------------------------------------------------------
(* The moves.                                                              *)

\* A run that moves overlaps nobody or is not spoken of.
LEMMA MoveFacts ==
  ASSUME Post!PostAssumption, PostInv, NEW r \in Post!Runs,
         postRun[r].at \in {"move", "copy", "unlink"}
  PROVE  /\ postRun[r] \in PostRecord /\ postRun[r].item \in JobFiles /\ postRun[r].todo # <<>>
         /\ Post!Place(r, postRun[r].item) \in Post!Places /\ Job[postRun[r].item] \in Jobs
         /\ Post!InFolder(r)
              => postRun[r].item \in jobFolder[Job[postRun[r].item]] /\ postRun[r].item \in got
<1>1. postRun[r] \in PostRecord /\ postRun[r].item \in JobFiles /\ postRun[r].todo # <<>>
  BY DEF PostInv, ShelfTypeOK, HandInv
<1>2. Post!Place(r, postRun[r].item) \in Post!Places /\ Job[postRun[r].item] \in Jobs
  BY <1>1, SlotFacts DEF PostInv, Post!PostAssumption
<1>3. Post!InFolder(r)
        => postRun[r].item \in jobFolder[Job[postRun[r].item]] /\ postRun[r].item \in got
  BY <1>1 DEF Post!InFolder, PostInv, FoldersInv, PostRecord
<1> QED
  BY <1>1, <1>2, <1>3

LEMMA BeginMoveStep ==
  ASSUME Post!PostAssumption, PostInv, NEW r \in Post!Runs, Post!BeginMove(r)
  PROVE  PostInv'
<1> DEFINE f == postRun[r].item
           place == Post!Place(r, f)
           k == [postRun[r] EXCEPT !.at = "copy"]
<1>t. ShelfTypeOK
  BY DEF PostInv
<1>0. /\ postRun[r].at = "move" /\ Post!InFolder(r) /\ mangas' = [mangas EXCEPT ![place] = f]
      /\ unfinished' = unfinished \cup {place} /\ Post!Set(r, k)
      /\ UNCHANGED <<history, jobFolder, jobDirs, doubled, lastCount, got, tried, unheard,
           postOverlaps>>
  BY DEF Post!BeginMove
<1>1. /\ postRun[r] \in PostRecord /\ f \in JobFiles /\ postRun[r].todo # <<>>
      /\ place \in Post!Places
      /\ f \in jobFolder[Job[f]] /\ f \in got /\ Job[f] \in Jobs
  BY <1>0, MoveFacts
<1>2. /\ k \in PostRecord /\ k.at = "copy" /\ k.count = postRun[r].count
      /\ k.todo = postRun[r].todo
      /\ k.item = f /\ k.dir = postRun[r].dir
  BY <1>1 DEF PostRecord
<1> HIDE DEF k
<1>3. postRun' \in [Post!Runs -> PostRecord] /\ postRun'[r] = k
        /\ \A q \in Post!Runs \ {r} : postRun'[q] = postRun[q]
  BY <1>0, <1>2, <1>t, SetFacts
<1>4. /\ mangas' \in [Post!Places -> JobFiles \cup {None}] /\ mangas'[place] = f
      /\ \A p \in Post!Places : p # place => mangas'[p] = mangas[p]
  BY <1>0, <1>1, <1>t DEF ShelfTypeOK
<1>5. ShelfTypeOK'
  BY <1>0, <1>1, <1>3, <1>4, <1>t DEF ShelfTypeOK
<1>6. FoldersInv'
  BY <1>0, <1>1, <1>4 DEF PostInv, FoldersInv
<1>7. \A q \in Post!Runs : HandInv(q)'
  BY <1>1, <1>2, <1>3 DEF PostInv, HandInv
<1>8. CountInv'
  <2>1. ToDo(r) \subseteq tried' \cup ToDo(r)'
    BY <1>2, <1>3 DEF ToDo
  <2> QED
    BY <1>0, <1>2, <2>1, CountGoesOn
<1>9. ASSUME ~postOverlaps
      PROVE  MovesInv'
  <2>1. MovesInv
    BY <1>9 DEF PostInv
  <2>2. OneRunAtWork' /\ \A q \in Post!Runs \ {r} : FreePlaceInv(q)'
    BY <1>0, <1>2, <1>9, OthersIdle
  <2>3. Post!Place(r, f)' = place
    BY <1>2, <1>3 DEF Post!Place, Post!Slot
  <2>4. FreePlaceInv(r)'
    <3>1. postRun'[r].at = "copy" /\ postRun'[r].item = f /\ postRun'[r].todo = postRun[r].todo
      BY <1>2, <1>3
    <3>2. Post!Place(r, postRun[r].item)' = place
      BY <3>1 DEF Post!Place, Post!Slot
    <3>3. Post!InFolder(r)'
      BY <1>0, <1>2, <1>3 DEF Post!InFolder
    <3> QED
      BY <1>0, <1>4, <3>1, <3>2, <3>3 DEF FreePlaceInv
  <2>5. mangas[place] = None
    BY <1>0, <2>1 DEF MovesInv, FreePlaceInv
  <2>6. ASSUME NEW g \in got
        PROVE  PlaceInv(g)'
    <3>1. PlaceInv(g) /\ g \in JobFiles /\ g # None
      BY <1>t, <2>1 DEF MovesInv, ShelfTypeOK, Post!PostAssumption
    <3>2. \A p \in Post!Places \ (unfinished' \cup doubled') : p # place
            /\ p \in Post!Places \ (unfinished \cup doubled) /\ mangas'[p] = mangas[p]
      BY <1>0, <1>4
    <3>3. \A p \in Post!Places \ (unfinished \cup doubled) : mangas[p] = g
            => p \in Post!Places \ (unfinished' \cup doubled')
      BY <1>0, <2>5, <3>1
    <3> QED
      BY <1>0, <3>1, <3>2, <3>3 DEF PlaceInv
  <2> QED
    BY <1>0, <2>2, <2>4, <2>6 DEF MovesInv
<1> QED
  BY <1>0, <1>5, <1>6, <1>7, <1>8, <1>9 DEF PostInv

LEMMA EndFileCopyStep ==
  ASSUME Post!PostAssumption, PostInv, NEW r \in Post!Runs, Post!EndCopy(r)
  PROVE  PostInv'
<1> DEFINE f == postRun[r].item
           place == Post!Place(r, f)
           k == [postRun[r] EXCEPT !.at = "unlink"]
<1>t. ShelfTypeOK
  BY DEF PostInv
<1>0. /\ postRun[r].at = "copy" /\ unfinished' = unfinished \ {place}
      /\ doubled' = doubled \cup {place}
      /\ Post!Set(r, k)
      /\ UNCHANGED <<history, jobFolder, jobDirs, mangas, lastCount, got, tried, unheard,
           postOverlaps>>
  BY DEF Post!EndCopy
<1>1. postRun[r] \in PostRecord /\ f \in JobFiles /\ postRun[r].todo # <<>>
        /\ place \in Post!Places
  BY <1>0, MoveFacts
<1>2. /\ k \in PostRecord /\ k.at = "unlink" /\ k.count = postRun[r].count
      /\ k.todo = postRun[r].todo
      /\ k.item = f /\ k.dir = postRun[r].dir
  BY <1>1 DEF PostRecord
<1> HIDE DEF k
<1>3. postRun' \in [Post!Runs -> PostRecord] /\ postRun'[r] = k
        /\ \A q \in Post!Runs \ {r} : postRun'[q] = postRun[q]
  BY <1>0, <1>2, <1>t, SetFacts
<1>4. ShelfTypeOK'
  BY <1>0, <1>1, <1>3, <1>t DEF ShelfTypeOK
<1>5. FoldersInv'
  BY <1>0 DEF PostInv, FoldersInv
<1>6. \A q \in Post!Runs : HandInv(q)'
  BY <1>1, <1>2, <1>3 DEF PostInv, HandInv
<1>7. CountInv'
  <2>1. ToDo(r) \subseteq tried' \cup ToDo(r)'
    BY <1>2, <1>3 DEF ToDo
  <2> QED
    BY <1>0, <1>2, <2>1, CountGoesOn
<1>8. ASSUME ~postOverlaps
      PROVE  MovesInv'
  <2>1. MovesInv
    BY <1>8 DEF PostInv
  <2>2. OneRunAtWork' /\ \A q \in Post!Runs \ {r} : FreePlaceInv(q)'
    BY <1>0, <1>2, <1>8, OthersIdle
  <2>3. Post!InFolder(r) /\ mangas[place] = f /\ place \in unfinished
    BY <1>0, <2>1 DEF MovesInv, FreePlaceInv
  <2>4. FreePlaceInv(r)'
    <3>1. postRun'[r].at = "unlink" /\ postRun'[r].item = f /\ postRun'[r].todo = postRun[r].todo
      BY <1>2, <1>3
    <3>2. Post!Place(r, postRun[r].item)' = place
      BY <3>1 DEF Post!Place, Post!Slot
    <3>3. Post!InFolder(r)'
      BY <1>0, <1>2, <1>3, <2>3 DEF Post!InFolder
    <3> QED
      BY <1>0, <2>3, <3>1, <3>2, <3>3 DEF FreePlaceInv
  <2>5. unfinished' \cup doubled' = unfinished \cup doubled
    BY <1>0, <2>3
  <2>6. \A g \in got : PlaceInv(g)'
    BY <1>0, <2>1, <2>5 DEF MovesInv, PlaceInv
  <2> QED
    BY <1>0, <2>2, <2>4, <2>6 DEF MovesInv
<1> QED
  BY <1>0, <1>4, <1>5, <1>6, <1>7, <1>8 DEF PostInv

LEMMA UnlinkOriginalStep ==
  ASSUME Post!PostAssumption, PostInv, NEW r \in Post!Runs, Post!Unlink(r)
  PROVE  PostInv'
<1> DEFINE f == postRun[r].item
           place == Post!Place(r, f)
           k == [postRun[r] EXCEPT !.at = "file", !.left = @ \ {f}, !.item = None, !.moved = TRUE]
<1>t. ShelfTypeOK
  BY DEF PostInv
<1>0. /\ postRun[r].at = "unlink" /\ Post!InFolder(r) /\ doubled' = doubled \ {place}
      /\ jobFolder' = [d \in Jobs |-> jobFolder[d] \ {f}] /\ Post!Set(r, k)
      /\ UNCHANGED <<history, jobDirs, mangas, unfinished, lastCount, got, tried, unheard,
           postOverlaps>>
  BY DEF Post!Unlink
<1>1. /\ postRun[r] \in PostRecord /\ f \in JobFiles /\ postRun[r].todo # <<>>
      /\ place \in Post!Places
      /\ f \in jobFolder[Job[f]] /\ f \in got /\ Job[f] \in Jobs
  BY <1>0, MoveFacts
<1>2. /\ k \in PostRecord /\ k.at = "file" /\ k.count = postRun[r].count
      /\ k.todo = postRun[r].todo
  BY <1>1 DEF PostRecord
<1> HIDE DEF k
<1>3. postRun' \in [Post!Runs -> PostRecord] /\ postRun'[r] = k
        /\ \A q \in Post!Runs \ {r} : postRun'[q] = postRun[q]
  BY <1>0, <1>2, <1>t, SetFacts
<1>4. jobFolder' \in [Jobs -> SUBSET JobFiles]
        /\ \A d \in Jobs : jobFolder'[d] = jobFolder[d] \ {f}
  BY <1>0, <1>t DEF ShelfTypeOK
<1>5. ShelfTypeOK'
  BY <1>0, <1>3, <1>4, <1>t DEF ShelfTypeOK
<1>6. FoldersInv'
  BY <1>0, <1>4 DEF PostInv, FoldersInv
<1>7. \A q \in Post!Runs : HandInv(q)'
  BY <1>1, <1>2, <1>3 DEF PostInv, HandInv
<1>8. CountInv'
  <2>1. ToDo(r) \subseteq tried' \cup ToDo(r)'
    BY <1>2, <1>3 DEF ToDo
  <2> QED
    BY <1>0, <1>2, <2>1, CountGoesOn
<1>9. ASSUME ~postOverlaps
      PROVE  MovesInv'
  <2>1. MovesInv
    BY <1>9 DEF PostInv
  <2>2. OneRunAtWork' /\ \A q \in Post!Runs \ {r} : FreePlaceInv(q)'
    BY <1>0, <1>2, <1>9, OthersIdle
  <2>3. FreePlaceInv(r)'
    BY <1>2, <1>3 DEF FreePlaceInv
  <2>4. mangas[place] = f /\ place \in doubled \ unfinished
    BY <1>0, <2>1 DEF MovesInv, FreePlaceInv
  <2>5. ASSUME NEW g \in got, g = f
        PROVE  PlaceInv(g)'
    <3>1. \A p \in Post!Places \ (unfinished \cup doubled) : mangas[p] # f
      BY <1>1, <2>1 DEF MovesInv, PlaceInv
    <3>2. place \in Post!Places \ (unfinished' \cup doubled')
          /\ \A q \in Post!Places \ (unfinished' \cup doubled') : mangas'[q] = f <=> q = place
      BY <1>0, <1>1, <2>4, <3>1
    <3>3. f \notin jobFolder'[Job[f]]
      BY <1>1, <1>4
    <3> QED
      BY <2>5, <3>2, <3>3 DEF PlaceInv
  <2>6. ASSUME NEW g \in got, g # f
        PROVE  PlaceInv(g)'
    <3>1. PlaceInv(g) /\ g \in JobFiles /\ Job[g] \in Jobs
      BY <1>t, <2>1 DEF MovesInv, ShelfTypeOK, Post!PostAssumption
    <3>2. g \in jobFolder'[Job[g]] <=> g \in jobFolder[Job[g]]
      BY <1>4, <2>6, <3>1
    <3>3. \A p \in Post!Places \ (unfinished' \cup doubled') : p # place
            => p \in Post!Places \ (unfinished \cup doubled)
      BY <1>0
    <3>4. \A p \in Post!Places \ (unfinished \cup doubled) :
            p \in Post!Places \ (unfinished' \cup doubled')
      BY <1>0
    <3> QED
      BY <1>0, <2>4, <2>6, <3>1, <3>2, <3>3, <3>4 DEF PlaceInv
  <2> QED
    BY <1>0, <2>2, <2>3, <2>5, <2>6 DEF MovesInv
<1> QED
  BY <1>0, <1>5, <1>6, <1>7, <1>8, <1>9 DEF PostInv

LEMMA EndDownloadStep ==
  ASSUME Post!PostAssumption, PostInv, NEW r \in Post!Runs, Post!EndDownload(r)
  PROVE  PostInv'
<1> DEFINE k == Post!NextSlot(r)
<1>t. ShelfTypeOK
  BY DEF PostInv
<1>0. /\ postRun[r].at = "file" /\ jobDirs' \in SUBSET jobDirs /\ Post!Set(r, k)
      /\ tried' = tried \cup {Post!Slot(r)}
      /\ UNCHANGED <<history, jobFolder, mangas, unfinished, doubled, lastCount, got, unheard,
           postOverlaps>>
  BY DEF Post!EndDownload
<1>1. postRun[r].todo # <<>>
  BY <1>0 DEF PostInv, HandInv
<1>2. k \in PostRecord /\ k.at = "next" /\ k.count = postRun[r].count
        /\ k.todo = Tail(postRun[r].todo)
  BY <1>1, <1>t, NextSlotFacts
<1> HIDE DEF k
<1>3. postRun' \in [Post!Runs -> PostRecord] /\ postRun'[r] = k
        /\ \A q \in Post!Runs \ {r} : postRun'[q] = postRun[q]
  BY <1>0, <1>2, <1>t, SetFacts
<1>4. ShelfTypeOK'
  BY <1>0, <1>3, <1>t DEF ShelfTypeOK
<1>5. \A q \in Post!Runs : HandInv(q)'
  BY <1>2, <1>3 DEF PostInv, HandInv
<1>6. CountInv'
  <2>1. ToDo(r)' = {Tail(postRun[r].todo)[i] : i \in DOMAIN Tail(postRun[r].todo)}
    BY <1>2, <1>3 DEF ToDo
  <2>2. ToDo(r) = {Post!Slot(r)} \cup {Tail(postRun[r].todo)[i] :
          i \in DOMAIN Tail(postRun[r].todo)}
    BY <1>1, <1>t, SlotFacts
  <2>3. ToDo(r) \subseteq tried' \cup ToDo(r)'
    BY <1>0, <2>1, <2>2
  <2> QED
    BY <1>0, <1>2, <2>3, CountGoesOn
<1>7. ~postOverlaps => MovesInv'
  BY <1>0, <1>2, <1>3, OthersIdle, PlacesStay DEF MovesInv, FreePlaceInv
<1> QED
  BY <1>0, <1>4, <1>5, <1>6, <1>7, PlacesStay DEF PostInv

LEMMA PostInvStep == Post!PostAssumption /\ PostInv /\ [Post!Next]_(Post!vars) => PostInv'
<1> SUFFICES ASSUME Post!PostAssumption, PostInv, [Post!Next]_(Post!vars) PROVE PostInv'
  OBVIOUS
<1>1. CASE \E f \in JobFiles : Post!Unpack(f)
  BY <1>1, UnpackFileStep
<1>2. CASE \E j \in Jobs : Post!Finish(j)
  BY <1>2, FinishJobStep
<1>3. ASSUME NEW r \in Post!Runs, Post!Wake(r) \/ Post!StartByHand(r) \/ Post!WakeUnheard(r)
      PROVE  PostInv'
  BY <1>3, WakeStep, WakeUnheardStep
<1>4. ASSUME NEW r \in Post!Runs,
             Post!RunStep(r) \/ Post!FetchFails(r) \/ Post!MoveRaises(r) \/ Post!Killed(r)
      PROVE  PostInv'
  BY <1>4, FetchStep, FindStep, NoDirectoryStep, CheckStep, BeginMoveStep, EndFileCopyStep,
     UnlinkOriginalStep, EndDownloadStep, IdleStep DEF Post!RunStep
<1>5. CASE UNCHANGED Post!vars
  <2>1. Oldest(lastCount)' = Oldest(lastCount) /\ ToDo("watch")' = ToDo("watch")
        /\ Oldest(postRun["watch"].count)' = Oldest(postRun["watch"].count)
    BY <1>5 DEF Post!vars, Oldest, ToDo
  <2>2. ShelfTypeOK' /\ CountInv' /\ \A r \in Post!Runs : HandInv(r)'
    BY <1>5, <2>1 DEF Post!vars, PostInv, ShelfTypeOK, CountInv, HandInv
  <2>3. ~postOverlaps => MovesInv'
    BY <1>5 DEF Post!vars, PostInv, MovesInv, OneRunAtWork, PlaceInv, FreePlaceInv, Post!Place,
       Post!Slot, Post!InFolder
  <2> QED
    BY <1>5, <2>2, <2>3, PlacesStay DEF Post!vars, PostInv
<1> QED
  BY <1>1, <1>2, <1>3, <1>4, <1>5 DEF Post!Next

-----------------------------------------------------------------------------
(* The copies too many.                                                    *)

\* There are no more of them than faults, but for the one whose original is being removed.
SpareInv ==
    /\ postUsed \in [{"runs", "faults"} -> Nat] /\ IsFiniteSet(doubled)
    /\ ~postOverlaps => Cardinality(doubled \ Post!Removing) <= postUsed["faults"]

LEMMA SpareInit == Post!Init => SpareInv
<1> SUFFICES ASSUME Post!Init PROVE SpareInv
  OBVIOUS
<1>1. postUsed \in [{"runs", "faults"} -> Nat] /\ postUsed["faults"] = 0 /\ doubled = {}
  BY DEF Post!Init, Post!Bounds
<1>2. IsFiniteSet(doubled) /\ Cardinality(doubled \ Post!Removing) = 0
  <2>1. doubled \ Post!Removing = {}
    BY <1>1
  <2> QED
    BY <1>1, <2>1, FS_EmptySet
<1> QED
  BY <1>1, <1>2 DEF SpareInv

LEMMA PostSpendFacts ==
  ASSUME SpareInv, NEW b \in {"runs", "faults"}, Post!Spend(b)
  PROVE  /\ postUsed' \in [{"runs", "faults"} -> Nat] /\ postUsed'["faults"] >= postUsed["faults"]
         /\ b = "faults" => postUsed'["faults"] = postUsed["faults"] + 1
<1>1. postUsed \in [{"runs", "faults"} -> Nat] /\ postUsed' = [postUsed EXCEPT ![b] = @ + 1]
  BY DEF SpareInv, Post!Spend
<1>2. postUsed["faults"] \in Nat /\ postUsed["runs"] \in Nat
  BY <1>1
<1> QED
  BY <1>1, <1>2

\* A step that adds none.
LEMMA SpareKept ==
  ASSUME SpareInv, postUsed' \in [{"runs", "faults"} -> Nat],
         postUsed'["faults"] >= postUsed["faults"],
         IsFiniteSet(doubled'), postOverlaps \in BOOLEAN, postOverlaps => postOverlaps',
         ~postOverlaps' => doubled' \ Post!Removing' \subseteq doubled \ Post!Removing
  PROVE  SpareInv'
<1> DEFINE before == doubled \ Post!Removing
           after == doubled' \ Post!Removing'
<1>1. IsFiniteSet(before)
  BY FS_Subset DEF SpareInv
<1>2. ASSUME ~postOverlaps'
      PROVE  Cardinality(after) <= postUsed'["faults"]
  <2>1. after \in SUBSET before /\ Cardinality(before) <= postUsed["faults"]
    BY <1>2 DEF SpareInv
  <2> HIDE DEF before, after
  <2>2. IsFiniteSet(after) /\ Cardinality(after) <= Cardinality(before)
    BY <1>1, <2>1, FS_Subset
  <2>3. Cardinality(after) \in Nat /\ Cardinality(before) \in Nat
    BY <1>1, <2>2, FS_CardinalityType
  <2>4. postUsed["faults"] \in Nat /\ postUsed'["faults"] \in Nat
    BY DEF SpareInv
  <2> QED
    BY <2>1, <2>2, <2>3, <2>4
<1> QED
  BY <1>2 DEF SpareInv

\* What is being removed while one run at most is at work.
LEMMA RemovingFacts ==
  ASSUME NEW r \in Post!Runs, \A q \in Post!Runs \ {r} : postRun[q] = Post!Idle
  PROVE  Post!Removing = IF postRun[r].at = "unlink" THEN {Post!Place(r, postRun[r].item)} ELSE {}
<1>1. \A q \in Post!Runs : postRun[q].at = "unlink" => q = r
  BY IdleFacts
<1> QED
  BY <1>1 DEF Post!Removing

LEMMA SpareStep == Post!PostAssumption /\ PostInv /\ SpareInv /\ [Post!Next]_(Post!vars)
  => SpareInv'
<1> SUFFICES ASSUME Post!PostAssumption, PostInv, SpareInv, [Post!Next]_(Post!vars)
PROVE SpareInv'
  OBVIOUS
<1>t. /\ ShelfTypeOK /\ postOverlaps \in BOOLEAN /\ IsFiniteSet(doubled)
      /\ postUsed \in [{"runs", "faults"} -> Nat] /\ postUsed["faults"] \in Nat
  BY DEF PostInv, ShelfTypeOK, SpareInv
<1>1. ASSUME UNCHANGED <<postRun, doubled, postOverlaps>>,
             postUsed' \in [{"runs", "faults"} -> Nat],
             postUsed'["faults"] >= postUsed["faults"]
      PROVE  SpareInv'
  <2>1. Post!Removing' = Post!Removing
    BY <1>1 DEF Post!Removing, Post!Place, Post!Slot
  <2> QED
    BY <1>1, <1>t, <2>1, SpareKept
<1>2. CASE \/ \E f \in JobFiles : Post!Unpack(f)
           \/ \E j \in Jobs : Post!Finish(j)
           \/ UNCHANGED Post!vars
  <2>1. UNCHANGED <<postRun, doubled, postUsed, postOverlaps>>
    BY <1>2 DEF Post!Unpack, Post!Finish, Post!vars
  <2>2. postUsed' \in [{"runs", "faults"} -> Nat] /\ postUsed'["faults"] >= postUsed["faults"]
    BY <2>1, <1>t
  <2> QED
    BY <1>1, <2>1, <2>2
<1>3. ASSUME NEW r \in Post!Runs, Post!Wake(r) \/ Post!StartByHand(r) \/ Post!WakeUnheard(r)
      PROVE  SpareInv'
  <2>1. /\ postRun[r] = Post!Idle /\ UNCHANGED doubled
        /\ postUsed' \in [{"runs", "faults"} -> Nat]
        /\ postUsed'["faults"] >= postUsed["faults"]
    BY <1>3, PostSpendFacts DEF Post!Wake, Post!StartByHand, Post!WakeUnheard, Post!ReadsOnly
  <2>2. CASE UNCHANGED <<postRun, postOverlaps>>
    BY <1>1, <2>1, <2>2
  <2>3. CASE \E k : Post!Begin(r, k)
    <3>1. /\ postOverlaps => postOverlaps'
          /\ ~postOverlaps' => \A q \in Post!Runs \ {r} : postRun[q] = Post!Idle
      BY <1>t, <2>3 DEF Post!Begin
    <3>2. ~postOverlaps' => Post!Removing = {}
      BY <2>1, <3>1, IdleFacts, RemovingFacts
    <3>3. ~postOverlaps' => doubled' \ Post!Removing' \subseteq doubled \ Post!Removing
      BY <2>1, <3>2
    <3> QED
      BY <1>t, <2>1, <3>1, <3>3, SpareKept
  <2> QED
    BY <1>3, <2>2, <2>3 DEF Post!Wake, Post!StartByHand, Post!WakeUnheard
<1>4. ASSUME NEW r \in Post!Runs, ~postOverlaps, postRun[r].at # "idle"
      PROVE  /\ \A q \in Post!Runs \ {r} : postRun[q] = Post!Idle
             /\ Post!Removing = IF postRun[r].at = "unlink" THEN {Post!Place(r, postRun[r].item)}
                  ELSE {}
             /\ FreePlaceInv(r)
  <2>1. \A q \in Post!Runs \ {r} : postRun[q] = Post!Idle
    BY <1>4, IdleFacts DEF PostInv, MovesInv, OneRunAtWork
  <2> QED
    BY <1>4, <2>1, RemovingFacts DEF PostInv, MovesInv
<1>5. ASSUME NEW r \in Post!Runs, postRun[r].at \notin {"idle", "unlink"},
             UNCHANGED <<doubled, postOverlaps>>,
             postUsed' = postUsed \/ Post!Spend("faults")
      PROVE  SpareInv'
  <2>1. postUsed' \in [{"runs", "faults"} -> Nat] /\ postUsed'["faults"] >= postUsed["faults"]
    BY <1>5, <1>t, PostSpendFacts
  <2>2. ~postOverlaps' => doubled' \ Post!Removing' \subseteq doubled \ Post!Removing
    BY <1>4, <1>5
  <2> QED
    BY <1>5, <1>t, <2>1, <2>2, SpareKept
<1>6. ASSUME NEW r \in Post!Runs,
             \/ Post!Fetch(r) \/ Post!FetchFails(r) \/ Post!FindFiles(r) \/ Post!NoDirectory(r)
             \/ Post!CheckFile(r)
             \/ Post!BeginMove(r) \/ Post!EndDownload(r) \/ Post!EndRun(r)
      PROVE  SpareInv'
  <2>1. /\ postRun[r].at \notin {"idle", "unlink"} /\ UNCHANGED <<doubled, postOverlaps>>
        /\ postUsed' = postUsed \/ Post!Spend("faults")
    BY <1>6 DEF Post!Fetch, Post!FetchFails, Post!FindFiles, Post!NoDirectory, Post!CheckFile,
       Post!BeginMove, Post!EndDownload,
                Post!EndRun, Post!ReadsOnly
  <2> QED
    BY <1>5, <2>1
<1>7. ASSUME NEW r \in Post!Runs, Post!EndCopy(r)
      PROVE  SpareInv'
  <2> DEFINE place == Post!Place(r, postRun[r].item)
  <2>1. /\ postRun[r].at = "copy" /\ doubled' = doubled \cup {place}
        /\ Post!Set(r, [postRun[r] EXCEPT !.at = "unlink"])
        /\ UNCHANGED <<postUsed, postOverlaps>>
    BY <1>7 DEF Post!EndCopy
  <2>2. IsFiniteSet(doubled')
    BY <1>t, <2>1, FS_AddElement
  <2>3. place \in Post!Removing'
    <3>1. postRun[r] \in PostRecord
      BY <1>t DEF ShelfTypeOK
    <3>2. /\ postRun'[r].at = "unlink" /\ postRun'[r].item = postRun[r].item
          /\ postRun'[r].todo = postRun[r].todo
      BY <1>t, <2>1, <3>1 DEF Post!Set, ShelfTypeOK, PostRecord
    <3>3. Post!Place(r, postRun[r].item)' = place
      BY <3>2 DEF Post!Place, Post!Slot
    <3> QED
      BY <3>2, <3>3 DEF Post!Removing
  <2>4. ~postOverlaps' => doubled' \ Post!Removing' \subseteq doubled \ Post!Removing
    <3>1. ~postOverlaps' => Post!Removing = {}
      BY <1>4, <2>1
    <3> HIDE DEF place
    <3> QED
      BY <2>1, <2>3, <3>1
  <2> QED
    BY <1>t, <2>1, <2>2, <2>4, SpareKept
<1>8. ASSUME NEW r \in Post!Runs, Post!Unlink(r)
      PROVE  SpareInv'
  <2> DEFINE place == Post!Place(r, postRun[r].item)
  <2>1. /\ postRun[r].at = "unlink" /\ doubled' = doubled \ {place}
        /\ UNCHANGED <<postUsed, postOverlaps>>
    BY <1>8 DEF Post!Unlink
  <2>2. IsFiniteSet(doubled')
    BY <1>t, <2>1, FS_Subset
  <2>3. ~postOverlaps' => doubled' \ Post!Removing' \subseteq doubled \ Post!Removing
    <3>1. ~postOverlaps' => Post!Removing = {place}
      BY <1>4, <2>1
    <3> QED
      BY <2>1, <3>1
  <2> QED
    BY <1>t, <2>1, <2>2, <2>3, SpareKept
<1>9. ASSUME NEW r \in Post!Runs, Post!MoveRaises(r) \/ Post!Killed(r)
      PROVE  SpareInv'
  <2>1. /\ UNCHANGED <<doubled, postOverlaps>> /\ postRun[r] # Post!Idle
        /\ postUsed' = postUsed \/ Post!Spend("faults")
    BY <1>9, IdleFacts DEF Post!MoveRaises, Post!Killed, Post!ReadsOnly
  <2>2. postRun[r].at # "idle"
    BY <2>1 DEF PostInv, HandInv
  <2>3. CASE postRun[r].at = "unlink"
    <3>1. postUsed' \in [{"runs", "faults"} -> Nat] /\ postUsed'["faults"] >= postUsed["faults"]
      BY <1>t, <2>1, PostSpendFacts
    <3>2. ASSUME ~postOverlaps'
          PROVE  Cardinality(doubled' \ Post!Removing') <= postUsed'["faults"]
      <4> DEFINE place == Post!Place(r, postRun[r].item)
                 before == doubled \ Post!Removing
                 after == doubled' \ Post!Removing'
      <4>1. Post!Removing = {place} /\ Post!InFolder(r) /\ ~postOverlaps
        BY <1>4, <2>1, <2>2, <2>3, <3>2 DEF FreePlaceInv
      <4>2. Post!Spend("faults")
        BY <1>9, <4>1 DEF Post!MoveRaises, Post!Killed
      <4>3. /\ postUsed'["faults"] = postUsed["faults"] + 1
            /\ Cardinality(before) <= postUsed["faults"]
        BY <4>1, <4>2, PostSpendFacts DEF SpareInv
      <4>4. IsFiniteSet(before) /\ after \in SUBSET (before \cup {place})
        BY <1>t, <2>1, <4>1, FS_Subset
      <4> HIDE DEF before, after, place
      <4>5. /\ IsFiniteSet(before \cup {place})
            /\ Cardinality(before \cup {place}) <= Cardinality(before) + 1
        <5>1. Cardinality(before) \in Nat
          BY <4>4, FS_CardinalityType
        <5>2. /\ IsFiniteSet(before \cup {place})
              /\ \/ Cardinality(before \cup {place}) = Cardinality(before)
                 \/ Cardinality(before \cup {place}) = Cardinality(before) + 1
          <6>1. IsFiniteSet(before)
            BY <4>4
          <6>2. /\ IsFiniteSet(before \cup {place})
                /\ Cardinality(before \cup {place}) =
                     IF place \in before THEN Cardinality(before) ELSE Cardinality(before) + 1
            BY <6>1, FS_AddElement, Zenon
          <6> QED
            BY <6>2
        <5> QED
          BY <5>1, <5>2
      <4>6. IsFiniteSet(after) /\ Cardinality(after) <= Cardinality(before \cup {place})
        BY <4>4, <4>5, FS_Subset
      <4>7. /\ Cardinality(before) \in Nat /\ Cardinality(after) \in Nat
            /\ Cardinality(before \cup {place}) \in Nat
        BY <4>4, <4>5, <4>6, FS_CardinalityType
      <4>8. Cardinality(after) <= postUsed'["faults"]
        BY <1>t, <4>3, <4>5, <4>6, <4>7
      <4> QED
        BY <4>8 DEF after
    <3> QED
      BY <1>t, <2>1, <3>1, <3>2 DEF SpareInv
  <2> QED
    BY <1>5, <2>1, <2>2, <2>3
<1> QED
  BY <1>2, <1>3, <1>6, <1>7, <1>8, <1>9 DEF Post!Next, Post!RunStep

PostWhole == PostInv /\ SpareInv

LEMMA PostWholeInit == Post!PostAssumption /\ Post!Init => PostWhole
  BY PostInitInv, SpareInit DEF PostWhole

LEMMA PostWholeStep == Post!PostAssumption /\ PostWhole /\ [Post!Next]_(Post!vars) => PostWhole'
  BY PostInvStep, SpareStep DEF PostWhole

\* The cardinality of the instance is that of the theorems about finite sets.
LEMMA PostCardinality == \A S : Post!Cardinality(S) = Cardinality(S)
  BY Zenon DEF Post!Cardinality, Cardinality

LEMMA PostHolds == Post!PostAssumption /\ PostWhole => Post!DownloadsArrive
<1> SUFFICES ASSUME Post!PostAssumption, PostWhole PROVE Post!DownloadsArrive
  OBVIOUS
<1>t. PostInv /\ ShelfTypeOK
  BY DEF PostWhole, PostInv
<1>1. ASSUME ~postOverlaps, NEW f \in got
      PROVE  Cardinality({p \in Post!Places \ (unfinished \cup doubled) : mangas[p] = f})
               + Cardinality({d \in Jobs : f \in jobFolder[d]}) = 1
  <2> DEFINE copies == {p \in Post!Places \ (unfinished \cup doubled) : mangas[p] = f}
             originals == {d \in Jobs : f \in jobFolder[d]}
  <2> SUFFICES Cardinality(copies) + Cardinality(originals) = 1
    OBVIOUS
  <2>1. f \in JobFiles /\ Job[f] \in Jobs /\ PlaceInv(f)
    BY <1>1, <1>t DEF PostInv, MovesInv, ShelfTypeOK, Post!PostAssumption
  <2>2. CASE f \in jobFolder[Job[f]]
    <3>1. copies = {}
      BY <2>1, <2>2 DEF PlaceInv
    <3>2. originals = {Job[f]}
      BY <1>t, <2>1, <2>2 DEF PostInv, FoldersInv
    <3>3. Cardinality(copies) = 0 /\ Cardinality(originals) = 1
      BY <3>1, <3>2, FS_EmptySet, FS_Singleton, Zenon
    <3> HIDE DEF copies, originals
    <3> QED
      BY <3>3
  <2>3. CASE f \notin jobFolder[Job[f]]
    <3>1. PICK p \in Post!Places \ (unfinished \cup doubled) :
            \A q \in Post!Places \ (unfinished \cup doubled) : mangas[q] = f <=> q = p
      BY <2>1, <2>3 DEF PlaceInv
    <3>2. copies = {p}
      BY <3>1
    <3>3. originals = {}
      BY <1>t, <2>3 DEF PostInv, FoldersInv
    <3>4. Cardinality(copies) = 1 /\ Cardinality(originals) = 0
      BY <3>2, <3>3, FS_EmptySet, FS_Singleton, Zenon
    <3> HIDE DEF copies, originals
    <3> QED
      BY <3>4
  <2> QED
    BY <2>2, <2>3
<1>s. ~postOverlaps => Cardinality(doubled \ Post!Removing) <= postUsed["faults"]
  BY DEF PostWhole, SpareInv
<1>2. ASSUME ~unheard, Len(history) <= Limit, NEW i \in DOMAIN history,
             Len(history) - i < lastCount
      PROVE  history[i] \in tried
  BY <1>2, <1>t DEF PostInv, CountInv, Oldest
<1>3. Post!WholeInOnePlace
  BY <1>1, <1>s, PostCardinality DEF Post!WholeInOnePlace
<1>4. Post!CountedIsTried
  BY <1>2 DEF Post!CountedIsTried
<1> QED
  BY <1>3, <1>4 DEF Post!DownloadsArrive

\* process_download and watch_mode: unless the watch and a run by hand overlapped, every
\* unpacked file is whole in exactly one place, besides the copies whose originals a move
\* is about to remove or, one a fault, could not; and what the sleeping watch has counted
\* was processed unless a fetch failed or the history was cut.
THEOREM DownloadsArriveTheorem == Spec => []DownloadsArrive
<1>1. Post!Init => PostWhole
  BY PostWholeInit, ServicesAssumption DEF ServicesAssumption
<1>2. PostWhole /\ [Post!Next]_(Post!vars) => PostWhole'
  BY PostWholeStep, ServicesAssumption DEF ServicesAssumption
<1>3. PostWhole => DownloadsArrive
  BY PostHolds, ServicesAssumption DEF DownloadsArrive, ServicesAssumption
<1> QED
  BY <1>1, <1>2, <1>3, PostPart, PTL DEF Post!Spec

-----------------------------------------------------------------------------
(* The media sorter.                                                       *)
(* ReleasesSurvive is not inductive: that a best copy of a title is left   *)
(* needs that the sizes which were compared were those of whole releases.  *)
(* FolderInv says why they were: while no runs overlap and nothing fails,  *)
(* a directory is untouched until the run that listed it handles it, and   *)
(* that run leaves none of them behind.                                    *)

LEMMA SorterPart == Spec => Sorter!Spec
<1>1. [Next]_vars => [Sorter!Next]_(Sorter!vars)
  BY PartSteps DEF sorterVars, Sorter!vars, Sorter!quietVars
<1> QED
  BY <1>1, PartInits, PTL DEF Spec, Sorter!Spec

\* What a run is at tells what it has in hand.
Staged(k) ==
    /\ k.at = "idle" => k = Sorter!Idle
    /\ k.doomed # {} => k.at = "dedupe"
    /\ k.item # {} => k.at = "rsync"
    /\ k.at = "rsync" => \E d \in k.todo : k.item = {d}

SorterRecord == {k \in [at : {"idle", "dedupe", "clean", "move", "rsync"}, todo : SUBSET Releases,
                     titles : SUBSET Sorter!Titles, doomed : SUBSET Releases,
                       item : SUBSET Releases,
                     deletes : BOOLEAN] : Staged(k)}

SorterTypeOK ==
    /\ present \in SUBSET Releases
    /\ looseFiles \in [Releases -> SUBSET Sorter!AllFiles]
    /\ shelved \in SUBSET Releases
    /\ shelf \in [Releases -> SUBSET Sorter!AllFiles]
    /\ run \in [Sorters -> SorterRecord]
    /\ sorted \in [{"requests", "runs", "faults"} -> Nat]
    /\ arrived \in SUBSET Releases
    /\ condemned \in SUBSET Releases
    /\ sorterOverlaps \in BOOLEAN

-----------------------------------------------------------------------------
\* What is in a directory has arrived, and what has arrived is not downloading.
ArrivedInv ==
    /\ queued \cap arrived = {}
    /\ present \cup shelved \cup condemned \subseteq arrived
    /\ \A r \in Sorters : run[r].todo \cup run[r].item \subseteq arrived

\* Only lesser copies lose a file that is wanted.
KeptInv ==
    /\ \A d \in Releases : d \notin shelved => shelf[d] = {}
    /\ \A r \in Sorters : run[r].doomed \subseteq condemned
    /\ \A d \in arrived \ condemned : Sorter!Wanted(d) \subseteq Sorter!Kept(d)

SortersCalm == sorted["faults"] = 0 /\ ~sorterOverlaps

OneSorter == \A q, r \in Sorters : run[q] # Sorter!Idle /\ run[r] # Sorter!Idle => q = r

\* A directory nobody has touched.
Fresh(d) == looseFiles[d] = Content[d] /\ d \notin shelved \cup condemned

\* What a run has in hand: copies that are not compared yet are untouched, and lesser
\* copies are there until it has deleted them.
SorterHandInv(r) ==
    /\ run[r].at = "dedupe" => \A d \in run[r].todo : Title[d] \in run[r].titles =>
                                  d \in present /\ Fresh(d)
    /\ run[r].doomed \subseteq run[r].todo \cap present
    /\ \A d \in run[r].doomed : Title[d] \notin run[r].titles

\* What is in the folder is in the hands of a run or untouched, and what is in a library
\* as well is being moved.
FolderInv ==
    \A d \in present :
        /\ Fresh(d) \/ \E r \in Sorters : d \in run[r].todo
        /\ d \in shelved => \E r \in Sorters : run[r].at = "rsync" /\ d \in run[r].item

AsMuch(e, d) == Title[e] = Title[d] /\ Cardinality(Content[e]) >= Cardinality(Content[d])

\* Of the copies of a title, one with as much content as any is none of the lesser ones.
WitnessInv == \A d \in arrived : \E e \in arrived \ condemned : AsMuch(e, d)

SortersCalmInv == OneSorter /\ (\A r \in Sorters : SorterHandInv(r)) /\ FolderInv /\ WitnessInv

SorterInv == SorterTypeOK /\ ArrivedInv /\ KeptInv /\ (SortersCalm => SortersCalmInv)

-----------------------------------------------------------------------------
LEMMA SorterIdleFacts ==
    /\ Sorter!Idle \in SorterRecord /\ Sorter!Idle.at = "idle" /\ Sorter!Idle.todo = {}
    /\ Sorter!Idle.doomed = {}
    /\ Sorter!Idle.item = {}
  BY DEF Sorter!Idle, SorterRecord, Staged

\* The cardinality of the instance is that of the theorems about finite sets.
LEMMA SorterCardinality == \A S : Sorter!Cardinality(S) = Cardinality(S)
  BY Zenon DEF Sorter!Cardinality, Cardinality

LEMMA SorterIsFiniteSet == \A S : Sorter!IsFiniteSet(S) <=> IsFiniteSet(S)
  BY Zenon DEF Sorter!IsFiniteSet, IsFiniteSet

LEMMA ContentFacts ==
  ASSUME Sorter!SorterAssumption
  PROVE  \A d \in Releases : Content[d] \subseteq Sorter!AllFiles
           /\ Cardinality(Content[d]) \in Nat
  BY FS_CardinalityType, SorterIsFiniteSet DEF Sorter!SorterAssumption, Sorter!AllFiles

LEMMA SorterInitInv == Sorter!SorterAssumption /\ Sorter!Init => SorterInv
<1> SUFFICES ASSUME Sorter!Init PROVE SorterInv
  OBVIOUS
<1>1. SorterTypeOK
  <2>1. run \in [Sorters -> SorterRecord]
    BY SorterIdleFacts DEF Sorter!Init
  <2>2. sorted \in [{"requests", "runs", "faults"} -> Nat]
    BY DEF Sorter!Init, Sorter!Limits
  <2> QED
    BY <2>1, <2>2 DEF Sorter!Init, SorterTypeOK
<1>2. ArrivedInv /\ KeptInv
  BY SorterIdleFacts DEF Sorter!Init, ArrivedInv, KeptInv
<1>3. SortersCalmInv
  BY SorterIdleFacts
  DEF Sorter!Init, SortersCalmInv, OneSorter, SorterHandInv, FolderInv, WitnessInv
<1> QED
  BY <1>1, <1>2, <1>3 DEF SorterInv

LEMMA SorterSetFacts ==
  ASSUME SorterInv, NEW r \in Sorters, NEW k \in SorterRecord, Sorter!Set(r, k)
  PROVE  /\ run' \in [Sorters -> SorterRecord] /\ run'[r] = k /\ run[r] \in SorterRecord
         /\ \A q \in Sorters \ {r} : run'[q] = run[q]
  BY DEF SorterInv, SorterTypeOK, Sorter!Set

LEMMA SorterSpendFacts ==
  ASSUME SorterInv, NEW b \in {"requests", "runs", "faults"}, Sorter!Spend(b)
  PROVE  /\ sorted' \in [{"requests", "runs", "faults"} -> Nat]
         /\ sorted'["faults"] = 0 => sorted["faults"] = 0 /\ b # "faults"
<1>1. sorted \in [{"requests", "runs", "faults"} -> Nat]
  BY DEF SorterInv, SorterTypeOK
<1>2. sorted' = [sorted EXCEPT ![b] = @ + 1]
  BY DEF Sorter!Spend
<1> QED
  BY <1>1, <1>2

\* A run that was not idle takes a step in calm: the others are idle before and after.
LEMMA OtherSortersIdle ==
  ASSUME SorterInv, SortersCalm, NEW r \in Sorters, run[r].at # "idle", NEW k \in SorterRecord,
         Sorter!Set(r, k)
  PROVE  /\ OneSorter' /\ SorterHandInv(r)
         /\ \A q \in Sorters \ {r} : run[q] = Sorter!Idle /\ run'[q] = Sorter!Idle
              /\ SorterHandInv(q)'
<1>1. \A q \in Sorters \ {r} : run[q] = Sorter!Idle
  BY SorterIdleFacts DEF SorterInv, SortersCalmInv, OneSorter
<1>2. \A q \in Sorters \ {r} : run'[q] = Sorter!Idle
  BY <1>1, SorterSetFacts
<1>3. OneSorter' /\ \A q \in Sorters \ {r} : SorterHandInv(q)'
  BY <1>2, SorterIdleFacts DEF OneSorter, SorterHandInv
<1> QED
  BY <1>1, <1>2, <1>3 DEF SorterInv, SortersCalmInv

\* What the only run at work knows of the folder.
LEMMA FolderFacts ==
  ASSUME SorterInv, SortersCalm, NEW r \in Sorters, run[r].at # "idle", NEW d \in present
  PROVE  /\ Fresh(d) \/ d \in run[r].todo
         /\ d \in shelved => run[r].at = "rsync" /\ d \in run[r].item
<1>1. \A q \in Sorters : q # r => run[q] = Sorter!Idle
  BY SorterIdleFacts DEF SorterInv, SortersCalmInv, OneSorter
<1>2. \A q \in Sorters : d \in run[q].todo \/ run[q].at = "rsync" => q = r
  BY <1>1, SorterIdleFacts
<1>3. FolderInv
  BY DEF SorterInv, SortersCalmInv
<1> QED
  BY <1>2, <1>3 DEF FolderInv

\* A step of the only run at work keeps the folder in order.
LEMMA FolderStays ==
  ASSUME SorterInv, SortersCalm, NEW r \in Sorters, run[r].at # "idle", NEW k \in SorterRecord,
         Sorter!Set(r, k),
         present' \subseteq present,
         \A d \in present' :
             /\ Fresh(d)' \/ d \in k.todo
             /\ d \in shelved' => k.at = "rsync" /\ d \in k.item
  PROVE  FolderInv'
<1>1. run'[r] = k
  BY SorterSetFacts
<1> QED
  BY <1>1 DEF FolderInv

\* Steps that change nothing but what a run does.
LEMMA RunOnly ==
  ASSUME SorterInv, NEW r \in Sorters, NEW k \in SorterRecord, Sorter!Set(r, k),
         UNCHANGED <<queued, present, looseFiles, shelved, shelf, Sorter!quietVars>>,
         k.todo \cup k.item \subseteq arrived, k.doomed \subseteq condemned,
         sorted' \in [{"requests", "runs", "faults"} -> Nat]
  PROVE  SorterTypeOK' /\ ArrivedInv' /\ KeptInv' /\ (SortersCalm => WitnessInv')
<1>1. /\ run' \in [Sorters -> SorterRecord] /\ run'[r] = k
      /\ \A q \in Sorters \ {r} : run'[q] = run[q]
  BY SorterSetFacts
<1>2. SorterTypeOK'
  BY <1>1 DEF SorterInv, SorterTypeOK, Sorter!quietVars
<1>3. ArrivedInv'
  BY <1>1 DEF SorterInv, ArrivedInv, Sorter!quietVars
<1>4. KeptInv'
  BY <1>1 DEF SorterInv, KeptInv, Sorter!Kept, Sorter!quietVars
<1>5. SortersCalm => WitnessInv'
  BY DEF SorterInv, SortersCalmInv, WitnessInv, Sorter!quietVars
<1> QED
  BY <1>2, <1>3, <1>4, <1>5

-----------------------------------------------------------------------------
(* The steps.                                                              *)

LEMMA RequestStep ==
  ASSUME SorterInv, NEW t \in Sorter!Titles, Sorter!Request(t)
  PROVE  SorterInv'
<1>1. /\ Sorter!Spend("requests")
      /\ UNCHANGED <<present, looseFiles, shelved, shelf, run, remote, arrived, condemned,
           sorterOverlaps>>
  BY DEF Sorter!Request, Sorter!quietVars
<1>2. PICK d \in Releases \ (queued \cup arrived) : queued' = queued \cup {d}
  BY DEF Sorter!Request, Sorter!SendToSabnzbd
<1>3. /\ sorted' \in [{"requests", "runs", "faults"} -> Nat]
      /\ sorted'["faults"] = 0 => sorted["faults"] = 0
  BY <1>1, SorterSpendFacts
<1>4. SorterTypeOK' /\ ArrivedInv' /\ KeptInv'
  BY <1>1, <1>2, <1>3 DEF SorterInv, SorterTypeOK, ArrivedInv, KeptInv, Sorter!Kept
<1>5. ASSUME SortersCalm' PROVE SortersCalmInv'
  <2>1. SortersCalmInv
    BY <1>1, <1>3, <1>5 DEF SorterInv, SortersCalm
  <2> QED
    BY <1>1, <2>1 DEF SortersCalmInv, OneSorter, SorterHandInv, FolderInv, WitnessInv, Fresh
<1> QED
  BY <1>4, <1>5 DEF SorterInv

LEMMA CompleteStep ==
  ASSUME Sorter!SorterAssumption, SorterInv, NEW d \in Releases, Sorter!Complete(d)
  PROVE  SorterInv'
<1>0. /\ d \in queued /\ queued' = queued \ {d} /\ present' = present \cup {d}
      /\ looseFiles' = [looseFiles EXCEPT ![d] = Content[d]] /\ arrived' = arrived \cup {d}
      /\ UNCHANGED <<shelved, shelf, run, sorted, condemned, sorterOverlaps>>
  BY DEF Sorter!Complete
<1>1. d \notin arrived /\ d \notin present \cup shelved \cup condemned
  BY <1>0 DEF SorterInv, ArrivedInv
<1>2. /\ looseFiles' \in [Releases -> SUBSET Sorter!AllFiles] /\ looseFiles'[d] = Content[d]
      /\ \A e \in Releases : e # d => looseFiles'[e] = looseFiles[e]
  BY <1>0, ContentFacts DEF SorterInv, SorterTypeOK
<1>3. SorterTypeOK'
  BY <1>0, <1>2 DEF SorterInv, SorterTypeOK
<1>4. ArrivedInv'
  BY <1>0 DEF SorterInv, ArrivedInv
<1>5. KeptInv'
  <2>1. \A e \in arrived : e \in Releases /\ e # d
    BY <1>1 DEF SorterInv, SorterTypeOK
  <2>2. \A e \in arrived \ condemned : Sorter!Wanted(e) \subseteq Sorter!Kept(e)'
    BY <1>0, <1>2, <2>1 DEF SorterInv, KeptInv, Sorter!Kept
  <2>3. Sorter!Wanted(d) \subseteq Sorter!Kept(d)'
    BY <1>2 DEF Sorter!Wanted, Sorter!Kept
  <2> QED
    BY <1>0, <2>2, <2>3 DEF SorterInv, KeptInv
<1>6. ASSUME SortersCalm' PROVE SortersCalmInv'
  <2>1. SortersCalmInv
    BY <1>0, <1>6 DEF SorterInv, SortersCalm
  <2>2. \A e \in Releases : Fresh(e) => Fresh(e)'
    BY <1>0, <1>1, <1>2 DEF Fresh
  <2>3. \A r \in Sorters : SorterHandInv(r)'
    <3>1. SUFFICES ASSUME NEW r \in Sorters PROVE SorterHandInv(r)'
      OBVIOUS
    <3>2. SorterHandInv(r) /\ run[r].todo \subseteq Releases
      BY <2>1 DEF SortersCalmInv, SorterInv, SorterTypeOK, SorterRecord, Staged
    <3> QED
      BY <1>0, <2>2, <3>2 DEF SorterHandInv
  <2>4. FolderInv'
    <3>1. Fresh(d)' /\ d \notin shelved'
      BY <1>0, <1>1, <1>2 DEF Fresh
    <3>2. \A e \in present : e \in Releases
      BY DEF SorterInv, SorterTypeOK
    <3> QED
      BY <1>0, <2>1, <2>2, <3>1, <3>2 DEF SortersCalmInv, FolderInv
  <2>5. WitnessInv'
    <3>1. AsMuch(d, d)
      BY ContentFacts DEF AsMuch
    <3> QED
      BY <1>0, <1>1, <2>1, <3>1 DEF SortersCalmInv, WitnessInv
  <2>6. OneSorter'
    BY <1>0, <2>1 DEF SortersCalmInv, OneSorter
  <2> QED
    BY <2>3, <2>4, <2>5, <2>6 DEF SortersCalmInv
<1> QED
  BY <1>3, <1>4, <1>5, <1>6 DEF SorterInv

LEMMA StartStep ==
  ASSUME SorterInv, NEW r \in Sorters, Sorter!StartRun(r)
  PROVE  SorterInv'
<1>0. /\ run[r] = Sorter!Idle /\ Sorter!Spend("runs")
      /\ sorterOverlaps' = (sorterOverlaps \/ \E q \in Sorters \ {r} : run[q] # Sorter!Idle)
      /\ UNCHANGED <<queued, present, looseFiles, shelved, shelf, remote, arrived, condemned>>
  BY DEF Sorter!StartRun
<1>1. PICK flag \in BOOLEAN :
         Sorter!Set(r, [Sorter!Idle EXCEPT !.at = "dedupe", !.todo = present, !.deletes = flag,
                             !.titles = {Title[d] : d \in present}])
  BY DEF Sorter!StartRun
<1> DEFINE k == [Sorter!Idle EXCEPT !.at = "dedupe", !.todo = present, !.deletes = flag,
                             !.titles = {Title[d] : d \in present}]
<1>2. /\ k \in SorterRecord /\ k.at = "dedupe" /\ k.todo = present /\ k.doomed = {}
      /\ k.item = {}
  <2>1. present \in SUBSET Releases /\ {Title[d] : d \in present} \in SUBSET Sorter!Titles
    BY DEF SorterInv, SorterTypeOK, Sorter!Titles
  <2> QED
    BY <2>1 DEF Sorter!Idle, SorterRecord, Staged
<1>3. Sorter!Set(r, k)
  BY <1>1
<1> HIDE DEF k
<1>4. /\ sorted' \in [{"requests", "runs", "faults"} -> Nat]
      /\ sorted'["faults"] = 0 => sorted["faults"] = 0
  BY <1>0, SorterSpendFacts
<1>5. /\ run' \in [Sorters -> SorterRecord] /\ run'[r] = k
      /\ \A q \in Sorters \ {r} : run'[q] = run[q]
  BY <1>2, <1>3, SorterSetFacts
<1>6. SorterTypeOK'
  BY <1>0, <1>4, <1>5 DEF SorterInv, SorterTypeOK
<1>7. ArrivedInv'
  BY <1>0, <1>2, <1>5 DEF SorterInv, ArrivedInv
<1>8. KeptInv'
  BY <1>0, <1>2, <1>5 DEF SorterInv, KeptInv, Sorter!Kept
<1>9. ASSUME SortersCalm' PROVE SortersCalmInv'
  <2>1. SortersCalm /\ SortersCalmInv /\ \A q \in Sorters : run[q] = Sorter!Idle
    BY <1>0, <1>4, <1>9 DEF SorterInv, SortersCalm
  <2>2. \A d \in present : Fresh(d) /\ d \notin shelved
    BY <2>1, SorterIdleFacts DEF SortersCalmInv, FolderInv
  <2>3. \A d \in present : Fresh(d)' /\ d \notin shelved'
    BY <1>0, <2>2 DEF Fresh
  <2>4. SorterHandInv(r)'
    BY <1>0, <1>2, <1>5, <2>3 DEF SorterHandInv
  <2>5. \A q \in Sorters \ {r} : run'[q] = Sorter!Idle /\ SorterHandInv(q)'
    BY <1>5, <2>1, SorterIdleFacts DEF SorterHandInv
  <2>6. OneSorter'
    BY <2>5 DEF OneSorter
  <2>7. FolderInv' /\ WitnessInv'
    BY <1>0, <2>1, <2>3 DEF SortersCalmInv, FolderInv, WitnessInv
  <2> QED
    BY <2>4, <2>5, <2>6, <2>7 DEF SortersCalmInv
<1> QED
  BY <1>6, <1>7, <1>8, <1>9 DEF SorterInv

LEMMA PickStep ==
  ASSUME Sorter!SorterAssumption, SorterInv, NEW r \in Sorters, NEW t \in Sorter!Titles,
         Sorter!PickBest(r, t)
  PROVE  SorterInv'
<1> DEFINE group == Sorter!Group(run[r].todo, t)
<1>0. /\ run[r].at = "dedupe" /\ t \in run[r].titles /\ run[r].doomed = {}
      /\ UNCHANGED <<queued, present, looseFiles, shelved, shelf, sorted, remote, arrived,
           sorterOverlaps>>
  BY DEF Sorter!PickBest
<1>1. PICK best \in group :
         LET losers == IF run[r].deletes THEN group \ {best} ELSE {}
         IN  /\ Sorter!IsBest(best, group)
             /\ Sorter!Set(r, [run[r] EXCEPT !.titles = @ \ {t}, !.doomed = losers])
             /\ condemned' = condemned \cup losers
  BY DEF Sorter!PickBest
<1> DEFINE losers == IF run[r].deletes THEN group \ {best} ELSE {}
           k == [run[r] EXCEPT !.titles = @ \ {t}, !.doomed = losers]
<1>t. /\ run[r] \in SorterRecord /\ group \subseteq run[r].todo /\ run[r].todo \subseteq arrived
      /\ run[r].item \subseteq arrived /\ arrived \subseteq Releases
      /\ \A d \in group : Title[d] = t
  BY DEF SorterInv, SorterTypeOK, ArrivedInv, Sorter!Group
<1>2. losers \subseteq group \ {best}
  OBVIOUS
<1>3. /\ k \in SorterRecord /\ k.at = "dedupe" /\ k.todo = run[r].todo /\ k.item = run[r].item
      /\ k.doomed = losers /\ k.titles = run[r].titles \ {t}
  BY <1>0, <1>2, <1>t DEF SorterRecord, Staged
<1>4. Sorter!Set(r, k) /\ condemned' = condemned \cup losers /\ Sorter!IsBest(best, group)
  BY <1>1
<1> HIDE DEF k, losers, group
<1>5. /\ run' \in [Sorters -> SorterRecord] /\ run'[r] = k
      /\ \A q \in Sorters \ {r} : run'[q] = run[q]
  BY <1>3, <1>4, SorterSetFacts
<1>6. SorterTypeOK'
  BY <1>0, <1>2, <1>4, <1>5, <1>t DEF SorterInv, SorterTypeOK
<1>7. ArrivedInv'
  BY <1>0, <1>2, <1>3, <1>4, <1>5, <1>t DEF SorterInv, ArrivedInv
<1>8. KeptInv'
  BY <1>0, <1>3, <1>4, <1>5 DEF SorterInv, KeptInv, Sorter!Kept
<1>9. ASSUME SortersCalm' PROVE SortersCalmInv'
  <2>1. SortersCalm /\ SortersCalmInv
    BY <1>0, <1>9 DEF SorterInv, SortersCalm
  <2>2. /\ OneSorter' /\ SorterHandInv(r)
        /\ \A q \in Sorters \ {r} : SorterHandInv(q)'
    BY <1>0, <1>3, <1>4, <2>1, OtherSortersIdle
  <2>3. \A d \in group : d \in present /\ Fresh(d)
    BY <1>0, <1>t, <2>2 DEF SorterHandInv
  <2>4. SorterHandInv(r)'
    <3>1. \A d \in run[r].todo : Title[d] \in k.titles =>
             d \in present /\ Fresh(d) /\ d \notin losers
      BY <1>0, <1>2, <1>3, <1>t, <2>2 DEF SorterHandInv
    <3>2. \A d \in run[r].todo : Title[d] \in k.titles => d \in present' /\ Fresh(d)'
      BY <1>0, <1>4, <3>1 DEF Fresh
    <3>3. /\ losers \subseteq run[r].todo \cap present
          /\ \A d \in losers : Title[d] \notin k.titles
      BY <1>2, <1>3, <1>t, <2>3
    <3> QED
      BY <1>0, <1>3, <1>5, <3>2, <3>3 DEF SorterHandInv
  <2>5. FolderInv'
    <3>1. \A d \in present : (Fresh(d) \/ d \in run[r].todo) /\ d \notin shelved
      BY <1>0, <2>1, FolderFacts
    <3>2. \A d \in present : Fresh(d)' \/ d \in run[r].todo
      BY <1>0, <1>2, <1>4, <1>t, <3>1 DEF Fresh
    <3> QED
      BY <1>0, <1>3, <1>4, <2>1, <3>1, <3>2, FolderStays
  <2>6. WitnessInv'
    <3>1. best \in arrived \ condemned'
      BY <1>1, <1>2, <1>4, <1>t, <2>3 DEF Fresh
    <3>2. ASSUME NEW e \in group PROVE AsMuch(best, e)
      <4>1. Sorter!Size(best) >= Sorter!Size(e)
        BY <1>4, <3>2 DEF Sorter!IsBest, Sorter!IsFirst
      <4> QED
        BY <1>1, <1>t, <2>3, <3>2, <4>1, SorterCardinality DEF AsMuch, Fresh, Sorter!Size
    <3>3. ASSUME NEW d \in arrived
          PROVE  \E e \in arrived \ condemned' : AsMuch(e, d)
      <4>1. PICK e \in arrived \ condemned : AsMuch(e, d)
        BY <2>1 DEF SortersCalmInv, WitnessInv
      <4>2. CASE e \in losers
        <5>1. AsMuch(best, e)
          BY <1>2, <3>2, <4>2
        <5>2. AsMuch(best, d)
          BY <1>1, <1>t, <4>1, <5>1, ContentFacts DEF AsMuch
        <5> QED
          BY <3>1, <5>2
      <4>3. CASE e \notin losers
        BY <1>4, <4>1, <4>3
      <4> QED
        BY <4>2, <4>3
    <3> QED
      BY <1>0, <3>3 DEF WitnessInv
  <2> QED
    BY <2>2, <2>4, <2>5, <2>6 DEF SortersCalmInv
<1> QED
  BY <1>6, <1>7, <1>8, <1>9 DEF SorterInv

\* Files of d are deleted or moved; every other directory keeps its own.
LEMMA OtherFiles ==
  ASSUME SorterInv, NEW d \in Releases, NEW F \in SUBSET Sorter!AllFiles,
         looseFiles' = [looseFiles EXCEPT ![d] = F]
  PROVE  /\ looseFiles' \in [Releases -> SUBSET Sorter!AllFiles] /\ looseFiles'[d] = F
         /\ \A e \in Releases : e # d => looseFiles'[e] = looseFiles[e]
  BY DEF SorterInv, SorterTypeOK

LEMMA DeleteStep ==
  ASSUME SorterInv, NEW r \in Sorters, Sorter!DeleteFile(r)
  PROVE  SorterInv'
<1>0. UNCHANGED <<queued, shelved, shelf, sorted, remote, arrived, condemned, sorterOverlaps>>
  BY DEF Sorter!DeleteFile, Sorter!quietVars
<1>1. PICK d \in run[r].doomed \cap present :
         IF looseFiles[d] = {}
         THEN /\ present' = present \ {d}
              /\ Sorter!Set(r, [run[r] EXCEPT !.doomed = @ \ {d}, !.todo = @ \ {d}])
              /\ UNCHANGED looseFiles
         ELSE /\ \E f \in looseFiles[d] : looseFiles' = [looseFiles EXCEPT ![d] = @ \ {f}]
              /\ UNCHANGED <<present, run>>
  BY DEF Sorter!DeleteFile
<1>t. /\ run[r] \in SorterRecord /\ d \in Releases /\ d \in condemned /\ run[r].doomed # {}
      /\ run[r].todo \cup run[r].item \subseteq arrived /\ run[r].doomed \subseteq condemned
      /\ arrived \subseteq Releases /\ present \subseteq Releases
  BY <1>1 DEF SorterInv, SorterTypeOK, ArrivedInv, KeptInv
<1>2. CASE looseFiles[d] = {}
  <2> DEFINE k == [run[r] EXCEPT !.doomed = @ \ {d}, !.todo = @ \ {d}]
  <2>1. /\ k \in SorterRecord /\ k.at = run[r].at /\ k.todo = run[r].todo \ {d}
        /\ k.item = run[r].item /\ k.doomed = run[r].doomed \ {d} /\ k.titles = run[r].titles
    BY <1>t DEF SorterRecord, Staged
  <2>2. Sorter!Set(r, k) /\ present' = present \ {d} /\ UNCHANGED looseFiles
    BY <1>1, <1>2
  <2> HIDE DEF k
  <2>3. /\ run' \in [Sorters -> SorterRecord] /\ run'[r] = k
        /\ \A q \in Sorters \ {r} : run'[q] = run[q]
    BY <2>1, <2>2, SorterSetFacts
  <2>4. SorterTypeOK'
    BY <1>0, <2>2, <2>3 DEF SorterInv, SorterTypeOK
  <2>5. ArrivedInv'
    BY <1>0, <1>t, <2>1, <2>2, <2>3 DEF SorterInv, ArrivedInv
  <2>6. KeptInv'
    BY <1>0, <1>t, <2>1, <2>2, <2>3 DEF SorterInv, KeptInv, Sorter!Kept
  <2>7. ASSUME SortersCalm' PROVE SortersCalmInv'
    <3>1. SortersCalm /\ SortersCalmInv /\ run[r].at = "dedupe"
      BY <1>0, <1>t, <2>7 DEF SorterInv, SortersCalm, SorterRecord, Staged
    <3>2. OneSorter' /\ SorterHandInv(r) /\ \A q \in Sorters \ {r} : SorterHandInv(q)'
      BY <2>1, <2>2, <3>1, OtherSortersIdle
    <3>3. \A e \in Releases : Fresh(e) => Fresh(e)'
      BY <1>0, <2>2 DEF Fresh
    <3>4. SorterHandInv(r)'
      <4>1. \A e \in run[r].todo \ {d} : Title[e] \in run[r].titles =>
               e \in present' /\ Fresh(e)'
        BY <1>t, <2>2, <3>1, <3>2, <3>3 DEF SorterHandInv
      <4> QED
        BY <2>1, <2>2, <2>3, <3>1, <3>2, <4>1 DEF SorterHandInv
    <3>5. FolderInv'
      <4>1. \A e \in present : (Fresh(e) \/ e \in run[r].todo) /\ e \notin shelved
        BY <3>1, FolderFacts
      <4>2. \A e \in present' : (Fresh(e)' \/ e \in k.todo) /\ e \notin shelved'
        BY <1>0, <1>t, <2>1, <2>2, <3>3, <4>1
      <4> QED
        BY <2>1, <2>2, <3>1, <4>2, FolderStays
    <3>6. WitnessInv'
      BY <1>0, <3>1 DEF SortersCalmInv, WitnessInv
    <3> QED
      BY <3>2, <3>4, <3>5, <3>6 DEF SortersCalmInv
  <2> QED
    BY <2>4, <2>5, <2>6, <2>7 DEF SorterInv
<1>3. CASE looseFiles[d] # {}
  <2>1. PICK f \in looseFiles[d] : looseFiles' = [looseFiles EXCEPT ![d] = looseFiles[d] \ {f}]
    BY <1>1, <1>3
  <2>2. UNCHANGED <<present, run>>
    BY <1>1, <1>3
  <2>3. /\ looseFiles' \in [Releases -> SUBSET Sorter!AllFiles]
        /\ \A e \in Releases : e # d => looseFiles'[e] = looseFiles[e]
    BY <1>t, <2>1, OtherFiles DEF SorterInv, SorterTypeOK
  <2>4. SorterTypeOK'
    BY <1>0, <2>2, <2>3 DEF SorterInv, SorterTypeOK
  <2>5. ArrivedInv'
    BY <1>0, <2>2 DEF SorterInv, ArrivedInv
  <2>6. KeptInv'
    <3>1. \A e \in arrived \ condemned : e \in Releases /\ e # d
      BY <1>t
    <3>2. \A e \in arrived \ condemned : Sorter!Wanted(e) \subseteq Sorter!Kept(e)'
      BY <1>0, <2>3, <3>1 DEF SorterInv, KeptInv, Sorter!Kept
    <3> QED
      BY <1>0, <2>2, <3>2 DEF SorterInv, KeptInv
  <2>7. ASSUME SortersCalm' PROVE SortersCalmInv'
    <3>1. SortersCalm /\ SortersCalmInv
      BY <1>0, <2>7 DEF SorterInv, SortersCalm
    <3>2. \A e \in Releases : Fresh(e) => Fresh(e)'
      BY <1>0, <1>t, <2>3 DEF Fresh
    <3>3. \A q \in Sorters : SorterHandInv(q)'
      <4>1. SUFFICES ASSUME NEW q \in Sorters PROVE SorterHandInv(q)'
        OBVIOUS
      <4>2. SorterHandInv(q) /\ run[q].todo \subseteq Releases
        BY <3>1 DEF SortersCalmInv, SorterInv, SorterTypeOK, SorterRecord, Staged
      <4> QED
        BY <2>2, <3>2, <4>2 DEF SorterHandInv
    <3>4. FolderInv'
      BY <1>0, <1>t, <2>2, <3>1, <3>2 DEF SortersCalmInv, FolderInv
    <3>5. OneSorter' /\ WitnessInv'
      BY <1>0, <2>2, <3>1 DEF SortersCalmInv, OneSorter, WitnessInv
    <3> QED
      BY <3>3, <3>4, <3>5 DEF SortersCalmInv
  <2> QED
    BY <2>4, <2>5, <2>6, <2>7 DEF SorterInv
<1> QED
  BY <1>2, <1>3

\* A run is over, fails or is killed.
LEMMA SorterIdleStep ==
  ASSUME SorterInv, NEW r \in Sorters,
         Sorter!DeleteRaises(r) \/ Sorter!EndRun(r) \/ Sorter!Killed(r)
  PROVE  SorterInv'
<1>0. Sorter!Set(r, Sorter!Idle) /\ UNCHANGED <<queued, present, looseFiles, shelved, shelf,
        Sorter!quietVars>>
  BY DEF Sorter!DeleteRaises, Sorter!EndRun, Sorter!Killed
<1>1. /\ sorted' \in [{"requests", "runs", "faults"} -> Nat]
      /\ sorted'["faults"] = 0
           => sorted["faults"] = 0 /\ (Sorter!DeleteRaises(r) \/ Sorter!EndRun(r))
  <2>1. CASE Sorter!Killed(r)
    BY <2>1, SorterSpendFacts DEF Sorter!Killed
  <2>2. CASE Sorter!DeleteRaises(r) \/ Sorter!EndRun(r)
    BY <2>2 DEF Sorter!DeleteRaises, Sorter!EndRun, SorterInv, SorterTypeOK
  <2> QED
    BY <2>1, <2>2
<1>2. SorterTypeOK' /\ ArrivedInv' /\ KeptInv' /\ (SortersCalm => WitnessInv')
  BY <1>0, <1>1, SorterIdleFacts, RunOnly
<1>3. ASSUME SortersCalm' PROVE SortersCalmInv'
  <2>1. SortersCalm /\ SortersCalmInv /\ (Sorter!DeleteRaises(r) \/ Sorter!EndRun(r))
    BY <1>0, <1>1, <1>3 DEF SorterInv, SortersCalm, Sorter!quietVars
  <2>2. Sorter!EndRun(r)
    BY <2>1 DEF Sorter!DeleteRaises, SortersCalmInv, SorterHandInv
  <2>3. run[r].at = "move" /\ run[r].todo = {}
    BY <2>2 DEF Sorter!EndRun
  <2>4. OneSorter' /\ \A q \in Sorters \ {r} : SorterHandInv(q)'
    BY <1>0, <2>1, <2>3, SorterIdleFacts, OtherSortersIdle
  <2>5. SorterHandInv(r)'
    BY <1>0, SorterSetFacts, SorterIdleFacts DEF SorterHandInv
  <2>6. \A d \in present : Fresh(d) /\ d \notin shelved
    BY <2>1, <2>3, FolderFacts
  <2>7. \A d \in present' : Fresh(d)' /\ d \notin shelved'
    BY <1>0, <2>6 DEF Fresh, Sorter!quietVars
  <2>8. FolderInv'
    BY <2>7 DEF FolderInv
  <2> QED
    BY <1>2, <2>1, <2>4, <2>5, <2>8 DEF SortersCalmInv
<1> QED
  BY <1>2, <1>3 DEF SorterInv

\* A run goes on in the folder, and nothing happens to the files.
LEMMA GoesOn ==
  ASSUME SorterInv, NEW r \in Sorters, run[r].at # "idle", NEW k \in SorterRecord,
         Sorter!Set(r, k),
         UNCHANGED <<queued, present, looseFiles, shelved, shelf, sorted, Sorter!quietVars>>,
         k.at \in {"clean", "move", "rsync"}, k.todo \subseteq run[r].todo,
         \A d \in run[r].todo \ k.todo : d \in present => d \in shelved,
         run[r].at # "rsync"
  PROVE  SorterInv'
<1>1. /\ sorted' \in [{"requests", "runs", "faults"} -> Nat]
  BY DEF SorterInv, SorterTypeOK
<1>2. k.todo \cup k.item \subseteq arrived /\ k.doomed = {}
  BY DEF SorterInv, ArrivedInv, SorterRecord, Staged
<1>3. SorterTypeOK' /\ ArrivedInv' /\ KeptInv' /\ (SortersCalm => WitnessInv')
  BY <1>1, <1>2, RunOnly
<1>4. ASSUME SortersCalm' PROVE SortersCalmInv'
  <2>1. SortersCalm
    BY <1>4 DEF SortersCalm, Sorter!quietVars
  <2>2. OneSorter' /\ \A q \in Sorters \ {r} : SorterHandInv(q)'
    BY <2>1, OtherSortersIdle
  <2>3. SorterHandInv(r)'
    BY <1>2, SorterSetFacts DEF SorterHandInv
  <2>4. \A d \in present : (Fresh(d) \/ d \in run[r].todo) /\ d \notin shelved
    BY <2>1, FolderFacts
  <2>5. \A d \in present' : (Fresh(d)' \/ d \in k.todo) /\ d \notin shelved'
    BY <2>4 DEF Fresh, Sorter!quietVars
  <2>6. FolderInv'
    BY <2>1, <2>5, FolderStays
  <2> QED
    BY <1>3, <2>1, <2>2, <2>3, <2>6 DEF SortersCalmInv
<1> QED
  BY <1>3, <1>4 DEF SorterInv

LEMMA EndDedupeStep ==
  ASSUME SorterInv, NEW r \in Sorters, Sorter!EndDedupe(r)
  PROVE  SorterInv'
<1>t. run[r] \in SorterRecord
  BY DEF SorterInv, SorterTypeOK
<1> DEFINE k == [run[r] EXCEPT !.at = "clean"]
<1>1. k \in SorterRecord /\ k.at = "clean" /\ k.todo = run[r].todo /\ run[r].at = "dedupe"
  BY <1>t DEF Sorter!EndDedupe, SorterRecord, Staged
<1>2. Sorter!Set(r, k) /\ UNCHANGED <<queued, present, looseFiles, shelved, shelf, sorted,
        Sorter!quietVars>>
  BY DEF Sorter!EndDedupe
<1> HIDE DEF k
<1> QED
  BY <1>1, <1>2, GoesOn

LEMMA SkipStep ==
  ASSUME SorterInv, NEW r \in Sorters, Sorter!Skip(r)
  PROVE  SorterInv'
<1>t. run[r] \in SorterRecord
  BY DEF SorterInv, SorterTypeOK
<1>0. /\ run[r].at = "move"
      /\ UNCHANGED <<queued, present, looseFiles, shelved, shelf, sorted, Sorter!quietVars>>
  BY DEF Sorter!Skip
<1>1. PICK d \in run[r].todo \cap (shelved \cup (Releases \ present)) : Sorter!Done(r, d)
  BY DEF Sorter!Skip
<1> DEFINE k == [run[r] EXCEPT !.at = "move", !.todo = @ \ {d}, !.item = {}]
<1>2. /\ k \in SorterRecord /\ k.at = "move" /\ k.todo = run[r].todo \ {d} /\ k.item = {}
  BY <1>0, <1>t DEF SorterRecord, Staged
<1>3. Sorter!Set(r, k)
  BY <1>1 DEF Sorter!Done
<1> HIDE DEF k
<1> QED
  BY <1>0, <1>1, <1>2, <1>3, GoesOn

LEMMA BeginRsyncStep ==
  ASSUME SorterInv, NEW r \in Sorters, Sorter!BeginRsync(r)
  PROVE  SorterInv'
<1>t. run[r] \in SorterRecord
  BY DEF SorterInv, SorterTypeOK
<1>0. /\ run[r].at = "move"
      /\ UNCHANGED <<queued, present, looseFiles, shelved, shelf, sorted, Sorter!quietVars>>
  BY DEF Sorter!BeginRsync
<1>1. PICK d \in run[r].todo \cap (present \ shelved) :
         Sorter!Set(r, [run[r] EXCEPT !.at = "rsync", !.item = {d}])
  BY DEF Sorter!BeginRsync
<1> DEFINE k == [run[r] EXCEPT !.at = "rsync", !.item = {d}]
<1>2. /\ k \in SorterRecord /\ k.at = "rsync" /\ k.todo = run[r].todo /\ k.item = {d}
  BY <1>0, <1>1, <1>t DEF SorterRecord, Staged
<1>3. Sorter!Set(r, k)
  BY <1>1
<1> HIDE DEF k
<1> QED
  BY <1>0, <1>1, <1>2, <1>3, GoesOn

LEMMA CleanStep ==
  ASSUME SorterInv, NEW r \in Sorters, Sorter!Clean(r)
  PROVE  SorterInv'
<1>0. /\ run[r].at = "clean"
      /\ looseFiles'
           = [d \in Releases |-> IF d \in run[r].todo THEN looseFiles[d] \ Junk
             ELSE looseFiles[d]]
      /\ UNCHANGED <<queued, present, shelved, shelf, sorted, remote, arrived, condemned,
           sorterOverlaps>>
  BY DEF Sorter!Clean, Sorter!quietVars
<1>t. run[r] \in SorterRecord /\ run[r].todo \cup run[r].item \subseteq arrived
      /\ arrived \subseteq Releases
  BY DEF SorterInv, SorterTypeOK, ArrivedInv
<1> DEFINE k == [run[r] EXCEPT !.at = "move"]
<1>1. /\ k \in SorterRecord /\ k.at = "move" /\ k.todo = run[r].todo /\ k.item = {}
      /\ k.doomed = {}
  BY <1>0, <1>t DEF SorterRecord, Staged
<1>2. Sorter!Set(r, k)
  BY DEF Sorter!Clean
<1> HIDE DEF k
<1>3. /\ run' \in [Sorters -> SorterRecord] /\ run'[r] = k
      /\ \A q \in Sorters \ {r} : run'[q] = run[q]
  BY <1>1, <1>2, SorterSetFacts
<1>4. /\ looseFiles' \in [Releases -> SUBSET Sorter!AllFiles]
      /\ \A d \in Releases : /\ looseFiles[d] \ Junk \subseteq looseFiles'[d]
                             /\ d \notin run[r].todo => looseFiles'[d] = looseFiles[d]
  BY <1>0 DEF SorterInv, SorterTypeOK
<1>5. SorterTypeOK'
  BY <1>0, <1>3, <1>4 DEF SorterInv, SorterTypeOK
<1>6. ArrivedInv'
  BY <1>0, <1>1, <1>3, <1>t DEF SorterInv, ArrivedInv
<1>7. KeptInv'
  <2>1. \A d \in arrived \ condemned : Sorter!Wanted(d) \subseteq Sorter!Kept(d)'
    BY <1>0, <1>4, <1>t DEF SorterInv, KeptInv, Sorter!Kept, Sorter!Wanted
  <2> QED
    BY <1>0, <1>1, <1>3, <2>1 DEF SorterInv, KeptInv
<1>8. ASSUME SortersCalm' PROVE SortersCalmInv'
  <2>1. SortersCalm /\ SortersCalmInv
    BY <1>0, <1>8 DEF SorterInv, SortersCalm
  <2>2. OneSorter' /\ \A q \in Sorters \ {r} : SorterHandInv(q)'
    BY <1>0, <1>1, <1>2, <2>1, OtherSortersIdle
  <2>3. SorterHandInv(r)'
    BY <1>1, <1>3 DEF SorterHandInv
  <2>4. \A d \in present : d \in Releases /\ (Fresh(d) \/ d \in run[r].todo) /\ d \notin shelved
    BY <1>0, <2>1, FolderFacts DEF SorterInv, SorterTypeOK
  <2>5. \A d \in present' : (Fresh(d)' \/ d \in k.todo) /\ d \notin shelved'
    BY <1>0, <1>1, <1>4, <2>4 DEF Fresh
  <2>6. FolderInv'
    BY <1>0, <1>1, <1>2, <2>1, <2>5, FolderStays
  <2>7. WitnessInv'
    BY <1>0, <2>1 DEF SortersCalmInv, WitnessInv
  <2> QED
    BY <2>2, <2>3, <2>6, <2>7 DEF SortersCalmInv
<1> QED
  BY <1>5, <1>6, <1>7, <1>8 DEF SorterInv

\* A directory leaves the folder, and the run is done with it.
LEMMA Leaves ==
  ASSUME SorterInv, NEW r \in Sorters, NEW d \in arrived, Sorter!Done(r, d),
         run[r].at = "move" \/ (run[r].at = "rsync" /\ run[r].item = {d}),
         present' = present \ {d}, shelved' = shelved \cup {d},
         looseFiles' \in [Releases -> SUBSET Sorter!AllFiles],
           shelf' \in [Releases -> SUBSET Sorter!AllFiles],
         \A e \in Releases \ {d} : looseFiles'[e] = looseFiles[e] /\ shelf'[e] = shelf[e],
         Sorter!Kept(d) \subseteq Sorter!Kept(d)',
         UNCHANGED <<queued, sorted, Sorter!quietVars>>
  PROVE  SorterInv'
<1>t. run[r] \in SorterRecord /\ run[r].todo \cup run[r].item \subseteq arrived
      /\ arrived \subseteq Releases /\ d \in Releases
  BY DEF SorterInv, SorterTypeOK, ArrivedInv
<1> DEFINE k == [run[r] EXCEPT !.at = "move", !.todo = @ \ {d}, !.item = {}]
<1>1. /\ k \in SorterRecord /\ k.at = "move" /\ k.todo = run[r].todo \ {d} /\ k.item = {}
      /\ k.doomed = {}
  BY <1>t DEF SorterRecord, Staged
<1>2. Sorter!Set(r, k)
  BY DEF Sorter!Done
<1> HIDE DEF k
<1>3. /\ run' \in [Sorters -> SorterRecord] /\ run'[r] = k
      /\ \A q \in Sorters \ {r} : run'[q] = run[q]
  BY <1>1, <1>2, SorterSetFacts
<1>5. SorterTypeOK'
  BY <1>3, <1>t DEF SorterInv, SorterTypeOK, Sorter!quietVars
<1>6. ArrivedInv'
  BY <1>1, <1>3, <1>t DEF SorterInv, ArrivedInv, Sorter!quietVars
<1>7. KeptInv'
  <2>1. ASSUME NEW e \in arrived \ condemned PROVE Sorter!Wanted(e) \subseteq Sorter!Kept(e)'
    <3>1. Sorter!Wanted(e) \subseteq Sorter!Kept(e) /\ e \in Releases
      BY <1>t DEF SorterInv, KeptInv
    <3> QED
      BY <3>1 DEF Sorter!Kept
  <2> QED
    BY <1>1, <1>3, <2>1 DEF SorterInv, KeptInv, Sorter!quietVars
<1>8. ASSUME SortersCalm' PROVE SortersCalmInv'
  <2>1. SortersCalm /\ SortersCalmInv
    BY <1>8 DEF SorterInv, SortersCalm, Sorter!quietVars
  <2>2. OneSorter' /\ \A q \in Sorters \ {r} : SorterHandInv(q)'
    BY <1>1, <1>2, <2>1, OtherSortersIdle
  <2>3. SorterHandInv(r)'
    BY <1>1, <1>3 DEF SorterHandInv
  <2>4. \A e \in present : /\ e \in Releases /\ (Fresh(e) \/ e \in run[r].todo)
                           /\ e # d => e \notin shelved
    BY <2>1, FolderFacts DEF SorterInv, SorterTypeOK
  <2>5. \A e \in present' : (Fresh(e)' \/ e \in k.todo) /\ e \notin shelved'
    BY <1>1, <2>4 DEF Fresh, Sorter!quietVars
  <2>6. FolderInv'
    BY <1>1, <1>2, <2>1, <2>5, FolderStays
  <2>7. WitnessInv'
    BY <2>1 DEF SortersCalmInv, WitnessInv, Sorter!quietVars
  <2> QED
    BY <2>2, <2>3, <2>6, <2>7 DEF SortersCalmInv
<1> QED
  BY <1>5, <1>6, <1>7, <1>8 DEF SorterInv

LEMMA MoveDirStep ==
  ASSUME SorterInv, NEW r \in Sorters, Sorter!MoveDir(r)
  PROVE  SorterInv'
<1>0. run[r].at = "move" /\ UNCHANGED <<queued, sorted, Sorter!quietVars>>
  BY DEF Sorter!MoveDir
<1>1. PICK d \in run[r].todo \cap (present \ shelved) :
         /\ present' = present \ {d} /\ shelved' = shelved \cup {d}
         /\ shelf' = [shelf EXCEPT ![d] = looseFiles[d]]
         /\ looseFiles' = [looseFiles EXCEPT ![d] = {}]
         /\ Sorter!Done(r, d)
  BY DEF Sorter!MoveDir
<1>2. d \in arrived /\ d \in Releases /\ shelf[d] = {}
  BY DEF SorterInv, SorterTypeOK, ArrivedInv, KeptInv
<1>3. /\ looseFiles' \in [Releases -> SUBSET Sorter!AllFiles]
      /\ shelf' \in [Releases -> SUBSET Sorter!AllFiles]
      /\ looseFiles'[d] = {} /\ shelf'[d] = looseFiles[d]
      /\ \A e \in Releases \ {d} : looseFiles'[e] = looseFiles[e] /\ shelf'[e] = shelf[e]
  BY <1>1, <1>2 DEF SorterInv, SorterTypeOK
<1>4. Sorter!Kept(d) \subseteq Sorter!Kept(d)'
  BY <1>2, <1>3 DEF Sorter!Kept
<1> QED
  BY <1>0, <1>1, <1>2, <1>3, <1>4, Leaves

LEMMA EndRsyncStep ==
  ASSUME SorterInv, NEW r \in Sorters, Sorter!EndRsync(r)
  PROVE  SorterInv'
<1>0. run[r].at = "rsync" /\ UNCHANGED <<queued, looseFiles, shelf, sorted, Sorter!quietVars>>
  BY DEF Sorter!EndRsync
<1>1. PICK d \in run[r].item :
         present' = present \ {d} /\ shelved' = shelved \cup {d} /\ Sorter!Done(r, d)
  BY DEF Sorter!EndRsync
<1>2. d \in arrived /\ run[r].item = {d}
  BY <1>0 DEF SorterInv, SorterTypeOK, ArrivedInv, SorterRecord, Staged
<1>3. looseFiles' \in [Releases -> SUBSET Sorter!AllFiles]
        /\ shelf' \in [Releases -> SUBSET Sorter!AllFiles]
  BY <1>0 DEF SorterInv, SorterTypeOK
<1>4. Sorter!Kept(d) \subseteq Sorter!Kept(d)'
  BY <1>0 DEF Sorter!Kept
<1> QED
  BY <1>0, <1>1, <1>2, <1>3, <1>4, Leaves

LEMMA RsyncFileStep ==
  ASSUME SorterInv, NEW r \in Sorters, Sorter!RsyncFile(r)
  PROVE  SorterInv'
<1>0. /\ run[r].at = "rsync"
      /\ UNCHANGED <<queued, present, run, sorted, remote, arrived, condemned, sorterOverlaps>>
  BY DEF Sorter!RsyncFile, Sorter!quietVars
<1>d. PICK d \in run[r].item :
         /\ shelved' = shelved \cup {d}
         /\ \E f \in looseFiles[d] : /\ shelf' = [shelf EXCEPT ![d] = @ \cup {f}]
                               /\ looseFiles' = [looseFiles EXCEPT ![d] = @ \ {f}]
  BY DEF Sorter!RsyncFile
<1>1. PICK f \in looseFiles[d] :
         /\ shelved' = shelved \cup {d}
         /\ shelf' = [shelf EXCEPT ![d] = @ \cup {f}]
         /\ looseFiles' = [looseFiles EXCEPT ![d] = @ \ {f}]
  BY <1>d
<1>2. /\ d \in Releases /\ f \in Sorter!AllFiles /\ d \in arrived /\ run[r].item = {d}
      /\ d \in run[r].todo
  BY <1>0 DEF SorterInv, SorterTypeOK, ArrivedInv, SorterRecord, Staged
<1>3. /\ looseFiles' \in [Releases -> SUBSET Sorter!AllFiles]
      /\ shelf' \in [Releases -> SUBSET Sorter!AllFiles]
      /\ \A e \in Releases : e # d => looseFiles'[e] = looseFiles[e] /\ shelf'[e] = shelf[e]
      /\ \A e \in Releases : Sorter!Kept(e) \subseteq Sorter!Kept(e)'
  BY <1>1, <1>2 DEF SorterInv, SorterTypeOK, Sorter!Kept
<1>4. SorterTypeOK'
  BY <1>0, <1>1, <1>2, <1>3 DEF SorterInv, SorterTypeOK
<1>5. ArrivedInv'
  BY <1>0, <1>1, <1>2 DEF SorterInv, ArrivedInv
<1>6. KeptInv'
  <2>1. ASSUME NEW e \in arrived \ condemned PROVE Sorter!Wanted(e) \subseteq Sorter!Kept(e)'
    <3>1. Sorter!Wanted(e) \subseteq Sorter!Kept(e) /\ e \in Releases
      BY DEF SorterInv, KeptInv, SorterTypeOK
    <3> QED
      BY <1>3, <3>1
  <2> QED
    BY <1>0, <1>1, <1>3, <2>1 DEF SorterInv, KeptInv
<1>7. ASSUME SortersCalm' PROVE SortersCalmInv'
  <2>1. SortersCalm /\ SortersCalmInv
    BY <1>0, <1>7 DEF SorterInv, SortersCalm
  <2>2. \A q \in Sorters : run[q].at # "idle" => q = r
    BY <1>0, <2>1, SorterIdleFacts DEF SortersCalmInv, OneSorter
  <2>3. \A q \in Sorters : SorterHandInv(q)'
    BY <1>0, <2>1, <2>2 DEF SortersCalmInv, SorterHandInv
  <2>4. \A e \in present : e \in Releases /\ (Fresh(e) \/ e \in run[r].todo)
                           /\ (e \in shelved => e = d)
    BY <1>0, <1>2, <2>1, FolderFacts DEF SorterInv, SorterTypeOK
  <2>5. \A e \in present : (Fresh(e)' \/ e \in run[r].todo) /\ (e \in shelved' => e = d)
    BY <1>0, <1>1, <1>2, <1>3, <2>4 DEF Fresh
  <2>6. FolderInv'
    BY <1>0, <1>2, <2>5 DEF FolderInv
  <2>7. OneSorter' /\ WitnessInv'
    BY <1>0, <2>1 DEF SortersCalmInv, OneSorter, WitnessInv
  <2> QED
    BY <2>3, <2>6, <2>7 DEF SortersCalmInv
<1> QED
  BY <1>4, <1>5, <1>6, <1>7 DEF SorterInv

LEMMA RsyncFailsStep ==
  ASSUME SorterInv, NEW r \in Sorters, Sorter!RsyncFails(r)
  PROVE  SorterInv'
<1>0. /\ run[r].at = "rsync" /\ Sorter!Spend("faults")
      /\ UNCHANGED <<queued, present, looseFiles, shelved, shelf, Sorter!quietVars>>
  BY DEF Sorter!RsyncFails
<1>1. PICK d \in run[r].item : Sorter!Done(r, d)
  BY DEF Sorter!RsyncFails
<1>t. run[r] \in SorterRecord /\ run[r].todo \subseteq arrived
  BY DEF SorterInv, SorterTypeOK, ArrivedInv
<1> DEFINE k == [run[r] EXCEPT !.at = "move", !.todo = @ \ {d}, !.item = {}]
<1>2. /\ k \in SorterRecord /\ k.todo = run[r].todo \ {d} /\ k.item = {} /\ k.doomed = {}
  BY <1>0, <1>t DEF SorterRecord, Staged
<1>3. Sorter!Set(r, k)
  BY <1>1 DEF Sorter!Done
<1> HIDE DEF k
<1>4. sorted' \in [{"requests", "runs", "faults"} -> Nat] /\ sorted'["faults"] # 0
  BY <1>0, SorterSpendFacts
<1>5. SorterTypeOK' /\ ArrivedInv' /\ KeptInv'
  BY <1>0, <1>2, <1>3, <1>4, <1>t, RunOnly
<1> QED
  BY <1>4, <1>5 DEF SorterInv, SortersCalm

LEMMA SorterInvStep == Sorter!SorterAssumption /\ SorterInv /\ [Sorter!Next]_(Sorter!vars)
  => SorterInv'
<1> SUFFICES ASSUME Sorter!SorterAssumption, SorterInv, [Sorter!Next]_(Sorter!vars)
PROVE SorterInv'
  OBVIOUS
<1>1. CASE \E t \in Sorter!Titles : Sorter!Request(t)
  BY <1>1, RequestStep
<1>2. CASE \E d \in Releases : Sorter!Complete(d)
  BY <1>2, CompleteStep
<1>3. ASSUME NEW r \in Sorters, Sorter!StartRun(r) \/ Sorter!RsyncFails(r) \/ Sorter!Killed(r)
      PROVE  SorterInv'
  BY <1>3, StartStep, RsyncFailsStep, SorterIdleStep
<1>4. ASSUME NEW r \in Sorters, Sorter!RunStep(r)
      PROVE  SorterInv'
  BY <1>4, PickStep, DeleteStep, SorterIdleStep, EndDedupeStep, CleanStep, SkipStep, MoveDirStep,
     BeginRsyncStep, RsyncFileStep, EndRsyncStep DEF Sorter!RunStep
<1>5. CASE UNCHANGED Sorter!vars
  <2>1. SorterTypeOK' /\ ArrivedInv' /\ KeptInv'
    BY <1>5 DEF Sorter!vars, Sorter!quietVars, SorterInv, SorterTypeOK, ArrivedInv, KeptInv,
       Sorter!Kept
  <2>2. SortersCalm' => SortersCalmInv'
    BY <1>5 DEF Sorter!vars, Sorter!quietVars, SorterInv, SortersCalm, SortersCalmInv, OneSorter,
       SorterHandInv, FolderInv, Fresh,
                WitnessInv
  <2> QED
    BY <2>1, <2>2 DEF SorterInv
<1> QED
  BY <1>1, <1>2, <1>3, <1>4, <1>5 DEF Sorter!Next

LEMMA SorterHolds == SorterInv => Sorter!ReleasesSurvive
<1> SUFFICES ASSUME SorterInv PROVE Sorter!ReleasesSurvive
  OBVIOUS
<1>1. \A d \in arrived \ condemned : Sorter!Wanted(d) \subseteq Sorter!Kept(d)
  BY DEF SorterInv, KeptInv
<1>2. ASSUME SortersCalm, NEW d \in arrived
      PROVE  \E e \in arrived :
               /\ Title[e] = Title[d]
               /\ Cardinality(Content[e]) >= Cardinality(Content[d])
               /\ Sorter!Wanted(e) \subseteq Sorter!Kept(e)
  BY <1>1, <1>2 DEF SorterInv, SortersCalmInv, WitnessInv, AsMuch
<1> QED
  BY <1>1, <1>2, SorterCardinality DEF Sorter!ReleasesSurvive, SortersCalm

\* pick_best, delete, clean and rsync: what no run picked as a lesser copy keeps all of its
\* files; without overlap or failure one copy of a title with as much content as any does.
THEOREM ReleasesSurviveTheorem == Spec => []ReleasesSurvive
<1>1. Sorter!Init => SorterInv
  BY SorterInitInv, ServicesAssumption DEF ServicesAssumption
<1>2. SorterInv /\ [Sorter!Next]_(Sorter!vars) => SorterInv'
  BY SorterInvStep, ServicesAssumption DEF ServicesAssumption
<1>3. SorterInv => ReleasesSurvive
  BY SorterHolds DEF ReleasesSurvive
<1> QED
  BY <1>1, <1>2, <1>3, SorterPart, PTL DEF Sorter!Spec

-----------------------------------------------------------------------------
(* Documents.                                                              *)
(* CatalogIsWhole speaks of documents no call is about. DocumentCallInv    *)
(* says how a call gets there: one without company stores the chunks of    *)
(* the text it has registered, and one with company leaves its document in *)
(* doubt. That the chunks of a text cover it is proved sentence by         *)
(* sentence, for any text and sizes (TextsAreCovered): what chunk_text has *)
(* after some of the sentences covers them (Scans), and its step keeps     *)
(* that (ScanStep).                                                        *)

LEMMA CatalogPart == Spec => Catalog!Spec
<1>1. [Next]_vars => [Catalog!Next]_(Catalog!vars)
  BY PartSteps DEF documentVars, Catalog!vars
<1> QED
  BY <1>1, PartInits, PTL DEF Spec, Catalog!Spec

DocumentRecord == [at : {"idle", "register", "store", "delete", "forget"}, doc : Docs \cup {None},
               text : Texts \cup {None}, alone : BOOLEAN]

\* A chunk of a text, or none.
ChunkRows == {None} \cup UNION {{Catalog!ChunkText(text)[k] :
  k \in DOMAIN Catalog!ChunkText(text)} : text \in Texts}

TablesTypeOK ==
    /\ catalog \in [Docs -> Texts \cup {None}]
    /\ chunks \in [Docs -> [Catalog!Numbers -> ChunkRows]]
    /\ documentCall \in [Calls -> DocumentRecord]
    /\ dirty \in SUBSET Docs

-----------------------------------------------------------------------------
\* The document has the chunks of a text in its first rows.
HasChunks(d, text) ==
    \A k \in DOMAIN Catalog!ChunkText(text) : chunks[d][k] = Catalog!ChunkText(text)[k]

\* A call is about a document, and one that has no company is the only one on its document;
\* the others' document is in doubt.
DocumentCallInv(c) ==
    /\ documentCall[c].at = "idle" => documentCall[c] = Catalog!Idle
    /\ documentCall[c].at # "idle" => documentCall[c].doc \in Docs
    /\ documentCall[c].at \in {"register", "store"} => documentCall[c].text \in Texts
    /\ documentCall[c].alone => \A e \in Calls \ {c} : documentCall[e].doc # documentCall[c].doc
    /\ documentCall[c].at # "idle" /\ ~documentCall[c].alone => documentCall[c].doc \in dirty
    /\ documentCall[c].at = "store" /\ documentCall[c].alone
         => catalog[documentCall[c].doc] = documentCall[c].text

Quiet(d) == d \notin dirty /\ \A c \in Calls : documentCall[c].doc # d

DocumentInv(d) ==
    /\ catalog[d] = None => chunks[d] = Catalog!NoRows
    /\ catalog[d] # None /\ Quiet(d) => HasChunks(d, catalog[d])

CatalogInv ==
    /\ TablesTypeOK
    /\ \A c \in Calls : DocumentCallInv(c)
    /\ \A d \in Docs : DocumentInv(d)

-----------------------------------------------------------------------------
LEMMA DocumentIdleFacts ==
    Catalog!Idle \in DocumentRecord /\ Catalog!Idle.at = "idle" /\ Catalog!Idle.doc = None
      /\ Catalog!Idle.alone = FALSE
  BY DEF Catalog!Idle, DocumentRecord

LEMMA CatalogInitInv == Catalog!DocumentsAssumption /\ Catalog!Init => CatalogInv
<1> SUFFICES ASSUME Catalog!Init PROVE CatalogInv
  OBVIOUS
<1>1. Catalog!NoRows \in [Catalog!Numbers -> ChunkRows]
  BY DEF Catalog!NoRows, ChunkRows
<1>2. TablesTypeOK
  BY <1>1, DocumentIdleFacts DEF Catalog!Init, TablesTypeOK
<1>3. \A c \in Calls : DocumentCallInv(c)
  BY DocumentIdleFacts DEF Catalog!Init, DocumentCallInv
<1>4. \A d \in Docs : DocumentInv(d)
  BY DEF Catalog!Init, DocumentInv
<1> QED
  BY <1>2, <1>3, <1>4 DEF CatalogInv

LEMMA DocumentBeginStep ==
  ASSUME Catalog!DocumentsAssumption, CatalogInv, NEW c \in Calls, NEW d \in Docs,
         NEW at \in {"register", "delete"}, NEW text \in Texts \cup {None},
         at = "register" => text \in Texts,
         Catalog!Begin(c, at, d, text)
  PROVE  CatalogInv'
<1> DEFINE others == {e \in Calls \ {c} : documentCall[e].doc = d}
           k == [at |-> at, doc |-> d, text |-> text, alone |-> others = {}]
<1>0. /\ documentCall[c] = Catalog!Idle
      /\ documentCall' = [e \in Calls |-> IF e = c THEN k
                                    ELSE IF e
                                      \in others THEN [documentCall[e] EXCEPT !.alone = FALSE]
                                    ELSE documentCall[e]]
      /\ dirty' = IF others = {} THEN dirty ELSE dirty \cup {d}
      /\ UNCHANGED <<catalog, chunks>>
  BY DEF Catalog!Begin
<1>n. None \notin Docs
  BY DEF Catalog!DocumentsAssumption
<1>1. k \in DocumentRecord /\ documentCall'[c] = k /\ (k.alone <=> others = {})
      /\ k.at = at /\ k.doc = d /\ k.text = text
  BY <1>0 DEF DocumentRecord
<1> HIDE DEF k
<1>2. \A e \in others : /\ documentCall'[e] \in DocumentRecord /\ ~documentCall'[e].alone
                        /\ documentCall'[e].at = documentCall[e].at /\ documentCall'[e].doc = d
                        /\ documentCall'[e].text = documentCall[e].text
  BY <1>0 DEF CatalogInv, TablesTypeOK, DocumentRecord
<1>3. \A e \in Calls \ {c} : e \notin others
        => documentCall'[e] = documentCall[e] /\ documentCall[e].doc # d
  BY <1>0
<1>4. \A e \in Calls \ {c} : documentCall'[e].doc = documentCall[e].doc
  BY <1>2, <1>3
<1>5. TablesTypeOK'
  <2>1. documentCall' \in [Calls -> DocumentRecord]
    BY <1>0, <1>1, <1>2, <1>3 DEF CatalogInv, TablesTypeOK
  <2> QED
    BY <1>0, <2>1 DEF CatalogInv, TablesTypeOK
<1>6. DocumentCallInv(c)'
  BY <1>0, <1>1, <1>4 DEF DocumentCallInv
<1>7. \A e \in Calls \ {c} : DocumentCallInv(e)'
  <2>1. ASSUME NEW e \in others PROVE DocumentCallInv(e)'
    <3>1. documentCall[e].at # "idle" /\ DocumentCallInv(e)
      BY <1>n, DocumentIdleFacts DEF CatalogInv, DocumentCallInv
    <3>2. d \in dirty'
      BY <1>0
    <3> QED
      BY <1>2, <3>1, <3>2 DEF DocumentCallInv
  <2>2. ASSUME NEW e \in Calls \ {c}, e \notin others PROVE DocumentCallInv(e)'
    <3>1. DocumentCallInv(e) /\ documentCall'[e] = documentCall[e] /\ documentCall[e].doc # d
      BY <1>3, <2>2 DEF CatalogInv
    <3>2. documentCall[e].alone
            => \A f \in Calls \ {e} : documentCall'[f].doc # documentCall[e].doc
      BY <1>1, <1>4, <3>1 DEF DocumentCallInv
    <3>3. UNCHANGED catalog /\ dirty \subseteq dirty'
      BY <1>0
    <3> QED
      BY <3>1, <3>2, <3>3 DEF DocumentCallInv
  <2> QED
    BY <2>1, <2>2
<1>8. \A x \in Docs : DocumentInv(x)'
  <2>1. ASSUME NEW x \in Docs PROVE Quiet(x)' => Quiet(x)
    <3>1. x # d => (x \in dirty' <=> x \in dirty)
      BY <1>0
    <3>2. documentCall[c].doc # x
      BY <1>0, <1>n, DocumentIdleFacts
    <3> QED
      BY <1>1, <1>4, <3>1, <3>2 DEF Quiet
  <2> QED
    BY <1>0, <2>1 DEF CatalogInv, DocumentInv, HasChunks
<1> QED
  BY <1>5, <1>6, <1>7, <1>8 DEF CatalogInv

\* A call goes on or ends: other calls and other documents are not concerned.
LEMMA OtherCallsStay ==
  ASSUME CatalogInv, NEW c \in Calls, documentCall[c].at # "idle",
         NEW k \in DocumentRecord, k.doc \in {None, documentCall[c].doc}, None \notin Docs,
         documentCall' = [documentCall EXCEPT ![c] = k],
         dirty' \in SUBSET Docs,
         \A x \in Docs \ {documentCall[c].doc} : catalog'[x] = catalog[x]
           /\ chunks'[x] = chunks[x],
         \A x \in Docs \ {documentCall[c].doc} : x \in dirty' <=> x \in dirty,
         documentCall[c].alone \/ dirty \subseteq dirty'
  PROVE  /\ documentCall' \in [Calls -> DocumentRecord] /\ documentCall'[c] = k
         /\ documentCall[c].doc \in Docs
         /\ \A e \in Calls \ {c} : documentCall'[e] = documentCall[e] /\ DocumentCallInv(e)'
         /\ \A x \in Docs \ {documentCall[c].doc} : DocumentInv(x)'
<1>1. /\ documentCall' \in [Calls -> DocumentRecord] /\ documentCall'[c] = k
      /\ \A e \in Calls \ {c} : documentCall'[e] = documentCall[e]
  BY DEF CatalogInv, TablesTypeOK
<1>2. documentCall[c].doc \in Docs /\ DocumentCallInv(c)
  BY DEF CatalogInv, DocumentCallInv
<1>3. ASSUME NEW e \in Calls \ {c} PROVE DocumentCallInv(e)'
  <2>1. DocumentCallInv(e) /\ documentCall'[e] = documentCall[e]
    BY <1>1 DEF CatalogInv
  <2>2. CASE documentCall[e].at = "idle"
    BY <2>1, <2>2, DocumentIdleFacts DEF DocumentCallInv
  <2>3. CASE documentCall[e].at # "idle"
    <3>1. documentCall[e].doc \in Docs
      BY <2>1, <2>3 DEF DocumentCallInv
    <3>2. documentCall[e].alone => documentCall[e].doc # documentCall[c].doc
      BY <2>1 DEF DocumentCallInv
    <3>3. documentCall[e].alone
            => \A f \in Calls \ {e} : documentCall'[f].doc # documentCall[e].doc
      BY <1>1, <2>1, <3>1, <3>2 DEF DocumentCallInv
    <3>4. ~documentCall[e].alone => documentCall[e].doc \in dirty'
      <4>1. documentCall[c].alone => documentCall[e].doc # documentCall[c].doc
        BY <1>2 DEF DocumentCallInv
      <4>2. ~documentCall[e].alone => documentCall[e].doc \in dirty
        BY <2>1, <2>3 DEF DocumentCallInv
      <4> QED
        BY <3>1, <4>1, <4>2
    <3>5. documentCall[e].at = "store" /\ documentCall[e].alone
            => catalog'[documentCall[e].doc] = documentCall[e].text
      BY <2>1, <3>1, <3>2 DEF DocumentCallInv
    <3> QED
      BY <2>1, <2>3, <3>1, <3>3, <3>4, <3>5 DEF DocumentCallInv
  <2> QED
    BY <2>2, <2>3
<1>4. ASSUME NEW x \in Docs \ {documentCall[c].doc} PROVE DocumentInv(x)'
  <2>1. Quiet(x)' => Quiet(x)
    BY <1>1 DEF Quiet
  <2> QED
    BY <2>1 DEF CatalogInv, DocumentInv, HasChunks
<1> QED
  BY <1>1, <1>2, <1>3, <1>4

LEMMA RegisterDocumentStep ==
  ASSUME Catalog!DocumentsAssumption, CatalogInv, NEW c \in Calls, Catalog!RegisterDocument(c)
  PROVE  CatalogInv'
<1> DEFINE d == documentCall[c].doc
           k == [documentCall[c] EXCEPT !.at = "store"]
<1>n. None \notin Docs /\ None \notin Texts
  BY DEF Catalog!DocumentsAssumption
<1>0. /\ documentCall[c].at = "register"
      /\ catalog' = [catalog EXCEPT ![d] = documentCall[c].text]
      /\ documentCall' = [documentCall EXCEPT ![c] = k] /\ UNCHANGED <<chunks, dirty>>
  BY DEF Catalog!RegisterDocument, Catalog!Registered, Catalog!Goto
<1>1. /\ k \in DocumentRecord /\ k.at = "store" /\ k.doc = d /\ k.text = documentCall[c].text
      /\ k.alone = documentCall[c].alone
  BY DEF CatalogInv, TablesTypeOK, DocumentRecord
<1> HIDE DEF k
<1>2. d \in Docs /\ documentCall[c].text \in Texts /\ DocumentCallInv(c)
  BY <1>0 DEF CatalogInv, DocumentCallInv
<1>3. /\ catalog' \in [Docs -> Texts \cup {None}] /\ catalog'[d] = documentCall[c].text
      /\ \A x \in Docs \ {d} : catalog'[x] = catalog[x]
  BY <1>0, <1>2 DEF CatalogInv, TablesTypeOK
<1>4. /\ documentCall' \in [Calls -> DocumentRecord] /\ documentCall'[c] = k
      /\ \A e \in Calls \ {c} : documentCall'[e] = documentCall[e] /\ DocumentCallInv(e)'
      /\ \A x \in Docs \ {d} : DocumentInv(x)'
  BY <1>0, <1>1, <1>3, <1>n, OtherCallsStay DEF CatalogInv, TablesTypeOK
<1>5. TablesTypeOK'
  BY <1>0, <1>3, <1>4 DEF CatalogInv, TablesTypeOK
<1>6. DocumentCallInv(c)'
  BY <1>0, <1>1, <1>2, <1>3, <1>4 DEF DocumentCallInv
<1>7. ASSUME NEW x \in Docs, x = d PROVE DocumentInv(x)'
  BY <1>1, <1>3, <1>4, <1>2, <1>7, <1>n DEF DocumentInv, Quiet
<1> QED
  BY <1>4, <1>5, <1>6, <1>7 DEF CatalogInv

LEMMA DeleteChunksStep ==
  ASSUME Catalog!DocumentsAssumption, CatalogInv, NEW c \in Calls, Catalog!DeleteChunks(c)
  PROVE  CatalogInv'
<1> DEFINE d == documentCall[c].doc
           k == [documentCall[c] EXCEPT !.at = "forget"]
<1>n. None \notin Docs
  BY DEF Catalog!DocumentsAssumption
<1>0. /\ documentCall[c].at = "delete" /\ chunks' = [chunks EXCEPT ![d] = Catalog!NoRows]
      /\ documentCall' = [documentCall EXCEPT ![c] = k] /\ UNCHANGED <<catalog, dirty>>
  BY DEF Catalog!DeleteChunks, Catalog!Goto
<1>1. /\ k \in DocumentRecord /\ k.at = "forget" /\ k.doc = d /\ k.alone = documentCall[c].alone
  BY DEF CatalogInv, TablesTypeOK, DocumentRecord
<1> HIDE DEF k
<1>2. d \in Docs /\ DocumentCallInv(c) /\ Catalog!NoRows \in [Catalog!Numbers -> ChunkRows]
  BY <1>0 DEF CatalogInv, DocumentCallInv, Catalog!NoRows, ChunkRows
<1>3. /\ chunks' \in [Docs -> [Catalog!Numbers -> ChunkRows]] /\ chunks'[d] = Catalog!NoRows
      /\ \A x \in Docs \ {d} : chunks'[x] = chunks[x]
  BY <1>0, <1>2 DEF CatalogInv, TablesTypeOK
<1>4. /\ documentCall' \in [Calls -> DocumentRecord] /\ documentCall'[c] = k
      /\ \A e \in Calls \ {c} : documentCall'[e] = documentCall[e] /\ DocumentCallInv(e)'
      /\ \A x \in Docs \ {d} : DocumentInv(x)'
  BY <1>0, <1>1, <1>3, <1>n, OtherCallsStay DEF CatalogInv, TablesTypeOK
<1>5. TablesTypeOK'
  BY <1>0, <1>3, <1>4 DEF CatalogInv, TablesTypeOK
<1>6. DocumentCallInv(c)'
  BY <1>0, <1>1, <1>2, <1>4 DEF DocumentCallInv
<1>7. ASSUME NEW x \in Docs, x = d PROVE DocumentInv(x)'
  BY <1>1, <1>3, <1>4, <1>7 DEF DocumentInv, Quiet
<1> QED
  BY <1>4, <1>5, <1>6, <1>7 DEF CatalogInv

\* A call ends well, or with an error.
LEMMA EndFacts ==
  ASSUME Catalog!DocumentsAssumption, CatalogInv, NEW c \in Calls, documentCall[c].at # "idle",
         Catalog!End(c) \/ Catalog!Raise(c),
         \A x \in Docs \ {documentCall[c].doc} : catalog'[x] = catalog[x]
           /\ chunks'[x] = chunks[x],
         catalog' \in [Docs -> Texts \cup {None}],
           chunks' \in [Docs -> [Catalog!Numbers -> ChunkRows]],
         \A x \in {documentCall[c].doc} : DocumentInv(x)'
  PROVE  CatalogInv'
<1> DEFINE d == documentCall[c].doc
<1>n. None \notin Docs
  BY DEF Catalog!DocumentsAssumption
<1>0. documentCall' = [documentCall EXCEPT ![c] = Catalog!Idle]
  BY DEF Catalog!End, Catalog!Raise
<1>1. d \in Docs
  BY DEF CatalogInv, DocumentCallInv
<1>2. /\ dirty' \in SUBSET Docs
      /\ \A x \in Docs \ {d} : x \in dirty' <=> x \in dirty
      /\ documentCall[c].alone \/ dirty \subseteq dirty'
  BY <1>1 DEF Catalog!End, Catalog!Raise, CatalogInv, TablesTypeOK
<1>4. /\ documentCall' \in [Calls -> DocumentRecord] /\ documentCall'[c] = Catalog!Idle
      /\ \A e \in Calls \ {c} : documentCall'[e] = documentCall[e] /\ DocumentCallInv(e)'
      /\ \A x \in Docs \ {d} : DocumentInv(x)'
  BY <1>0, <1>2, <1>n, DocumentIdleFacts, OtherCallsStay
<1>5. TablesTypeOK'
  BY <1>2, <1>4 DEF TablesTypeOK
<1>6. DocumentCallInv(c)'
  BY <1>4, DocumentIdleFacts DEF DocumentCallInv
<1> QED
  BY <1>1, <1>4, <1>5, <1>6 DEF CatalogInv

LEMMA StoredFacts ==
  ASSUME Catalog!ChunksCover, CatalogInv, NEW c \in Calls, documentCall[c].at = "store",
         chunks' = Catalog!Stored(c)
  PROVE  /\ chunks' \in [Docs -> [Catalog!Numbers -> ChunkRows]] /\ documentCall[c].doc \in Docs
         /\ \A x \in Docs \ {documentCall[c].doc} : chunks'[x] = chunks[x]
         /\ \A k \in DOMAIN Catalog!ChunkText(documentCall[c].text) :
                chunks'[documentCall[c].doc][k] = Catalog!ChunkText(documentCall[c].text)[k]
<1> DEFINE pieces == Catalog!ChunkText(documentCall[c].text)
           new == [k \in Catalog!Numbers |-> IF k \in DOMAIN pieces THEN pieces[k]
                                     ELSE chunks[documentCall[c].doc][k]]
<1>1. documentCall[c].text \in Texts /\ documentCall[c].doc \in Docs
        /\ chunks \in [Docs -> [Catalog!Numbers -> ChunkRows]]
  BY DEF CatalogInv, DocumentCallInv, TablesTypeOK
<1>2. DOMAIN pieces = DOMAIN Catalog!ChunkText(documentCall[c].text)
        /\ DOMAIN pieces \subseteq Catalog!Numbers
  BY <1>1 DEF Catalog!ChunksCover
<1>3. \A k \in DOMAIN pieces : pieces[k] \in ChunkRows
  BY <1>1 DEF ChunkRows
<1>4. chunks' = [chunks EXCEPT ![documentCall[c].doc] = new]
  BY DEF Catalog!Stored
<1> HIDE DEF pieces
<1>5. new \in [Catalog!Numbers -> ChunkRows]
  BY <1>1, <1>3
<1> QED
  BY <1>1, <1>2, <1>4, <1>5 DEF pieces

LEMMA StoreChunksStep ==
  ASSUME Catalog!DocumentsAssumption, Catalog!ChunksCover, CatalogInv, NEW c \in Calls,
         Catalog!StoreChunks(c)
  PROVE  CatalogInv'
<1> DEFINE d == documentCall[c].doc
<1>0. /\ documentCall[c].at = "store" /\ catalog[d] # None /\ Catalog!End(c)
      /\ chunks' = Catalog!Stored(c)
      /\ UNCHANGED catalog
  BY DEF Catalog!StoreChunks
<1>1. /\ chunks' \in [Docs -> [Catalog!Numbers -> ChunkRows]] /\ d \in Docs
      /\ \A x \in Docs \ {d} : chunks'[x] = chunks[x]
      /\ \A k \in DOMAIN Catalog!ChunkText(documentCall[c].text) :
           chunks'[d][k] = Catalog!ChunkText(documentCall[c].text)[k]
  BY <1>0, StoredFacts
<1>2. DocumentCallInv(c)
  BY DEF CatalogInv
<1>3. ASSUME NEW x \in {d} PROVE DocumentInv(x)'
  <2>1. d \notin dirty' => documentCall[c].alone
    BY <1>0, <1>2 DEF DocumentCallInv, Catalog!End
  <2>2. documentCall[c].alone => catalog[d] = documentCall[c].text
    BY <1>0, <1>2 DEF DocumentCallInv
  <2> QED
    BY <1>0, <1>1, <1>3, <2>1, <2>2 DEF DocumentInv, Quiet, HasChunks
<1>4. catalog' \in [Docs -> Texts \cup {None}]
  BY <1>0 DEF CatalogInv, TablesTypeOK
<1> QED
  BY <1>0, <1>1, <1>3, <1>4, EndFacts

LEMMA DeleteRowStep ==
  ASSUME Catalog!DocumentsAssumption, CatalogInv, NEW c \in Calls, Catalog!DeleteRow(c)
  PROVE  CatalogInv'
<1> DEFINE d == documentCall[c].doc
<1>0. /\ documentCall[c].at = "forget" /\ Catalog!End(c)
      /\ catalog' = [catalog EXCEPT ![d] = None]
      /\ chunks' = [chunks EXCEPT ![d] = Catalog!NoRows]
  BY DEF Catalog!DeleteRow
<1>1. d \in Docs /\ Catalog!NoRows \in [Catalog!Numbers -> ChunkRows]
  BY <1>0 DEF CatalogInv, DocumentCallInv, Catalog!NoRows, ChunkRows
<1>2. /\ catalog' \in [Docs -> Texts \cup {None}]
      /\ chunks' \in [Docs -> [Catalog!Numbers -> ChunkRows]]
      /\ catalog'[d] = None /\ chunks'[d] = Catalog!NoRows
      /\ \A x \in Docs \ {d} : catalog'[x] = catalog[x] /\ chunks'[x] = chunks[x]
  BY <1>0, <1>1 DEF CatalogInv, TablesTypeOK
<1>3. ASSUME NEW x \in {d} PROVE DocumentInv(x)'
  BY <1>2, <1>3 DEF DocumentInv
<1> QED
  BY <1>0, <1>2, <1>3, EndFacts

\* Errors leave a document in doubt.
LEMMA RaiseStep ==
  ASSUME Catalog!DocumentsAssumption, Catalog!ChunksCover, CatalogInv, NEW c \in Calls,
         Catalog!StoreRefused(c) \/ Catalog!CallFails(c) \/ Catalog!RegisterLost(c)
           \/ Catalog!StoreLost(c)
  PROVE  CatalogInv'
<1> DEFINE d == documentCall[c].doc
<1>n. None \notin Texts
  BY DEF Catalog!DocumentsAssumption
<1>0. Catalog!Raise(c) /\ documentCall[c].at # "idle" /\ DocumentCallInv(c) /\ d \in Docs
  BY DEF Catalog!StoreRefused, Catalog!CallFails, Catalog!RegisterLost, Catalog!StoreLost,
     CatalogInv, DocumentCallInv
<1>1. /\ catalog' \in [Docs -> Texts \cup {None}]
      /\ chunks' \in [Docs -> [Catalog!Numbers -> ChunkRows]]
      /\ \A x \in Docs \ {d} : catalog'[x] = catalog[x] /\ chunks'[x] = chunks[x]
      /\ catalog'[d] = None => chunks'[d] = Catalog!NoRows
  <2>t. /\ catalog \in [Docs -> Texts \cup {None}]
        /\ chunks \in [Docs -> [Catalog!Numbers -> ChunkRows]]
        /\ catalog[d] = None => chunks[d] = Catalog!NoRows
    BY <1>0 DEF CatalogInv, TablesTypeOK, DocumentInv
  <2>1. CASE Catalog!StoreRefused(c) \/ Catalog!CallFails(c)
    BY <2>t, <2>1 DEF Catalog!StoreRefused, Catalog!CallFails
  <2>2. CASE Catalog!RegisterLost(c)
    <3>1. catalog' = [catalog EXCEPT ![d] = documentCall[c].text] /\ UNCHANGED chunks
      BY <2>2 DEF Catalog!RegisterLost, Catalog!Registered
    <3>2. documentCall[c].text \in Texts
      BY <1>0, <2>2 DEF Catalog!RegisterLost, DocumentCallInv
    <3> QED
      BY <1>0, <1>n, <2>t, <3>1, <3>2
  <2>3. CASE Catalog!StoreLost(c)
    <3>1. documentCall[c].at = "store" /\ catalog[d] # None /\ chunks' = Catalog!Stored(c)
            /\ UNCHANGED catalog
      BY <2>3 DEF Catalog!StoreLost
    <3> QED
      BY <2>t, <3>1, StoredFacts
  <2> QED
    BY <2>1, <2>2, <2>3
<1>2. d \in dirty'
  BY <1>0 DEF Catalog!Raise
<1>3. ASSUME NEW x \in {d} PROVE DocumentInv(x)'
  BY <1>1, <1>2, <1>3 DEF DocumentInv, Quiet
<1> QED
  BY <1>0, <1>1, <1>3, EndFacts

LEMMA CatalogInvStep ==
    Catalog!DocumentsAssumption /\ Catalog!ChunksCover /\ CatalogInv
      /\ [Catalog!Next]_(Catalog!vars) => CatalogInv'
<1> SUFFICES ASSUME Catalog!DocumentsAssumption, Catalog!ChunksCover, CatalogInv,
                    [Catalog!Next]_(Catalog!vars)
             PROVE  CatalogInv'
  OBVIOUS
<1>1. ASSUME NEW c \in Calls, NEW d \in Docs, NEW text \in Texts, Catalog!Ingest(c, d, text)
      PROVE  CatalogInv'
  BY <1>1, DocumentBeginStep DEF Catalog!Ingest
<1>2. ASSUME NEW c \in Calls, NEW d \in Docs, Catalog!DeleteDocument(c, d)
      PROVE  CatalogInv'
  BY <1>2, DocumentBeginStep DEF Catalog!DeleteDocument
<1>3. ASSUME NEW c \in Calls,
             \/ Catalog!RegisterDocument(c) \/ Catalog!StoreChunks(c) \/ Catalog!StoreRefused(c)
             \/ Catalog!DeleteChunks(c) \/ Catalog!DeleteRow(c)
             \/ Catalog!CallFails(c) \/ Catalog!RegisterLost(c) \/ Catalog!StoreLost(c)
      PROVE  CatalogInv'
  BY <1>3, RegisterDocumentStep, StoreChunksStep, DeleteChunksStep, DeleteRowStep, RaiseStep
<1>4. CASE UNCHANGED Catalog!vars
  BY <1>4 DEF Catalog!vars, CatalogInv, TablesTypeOK, DocumentCallInv, DocumentInv, Quiet,
     HasChunks
<1> QED
  BY <1>1, <1>2, <1>3, <1>4 DEF Catalog!Next

LEMMA CatalogHolds ==
    Catalog!DocumentsAssumption /\ Catalog!ChunksCover /\ CatalogInv => Catalog!CatalogIsWhole
<1> SUFFICES ASSUME Catalog!DocumentsAssumption, Catalog!ChunksCover, CatalogInv, NEW d \in Docs,
                    catalog[d] # None, Quiet(d), catalog[d] # <<>>
             PROVE  LET text == catalog[d]
                        n == Len(Catalog!ChunkText(text))
                        first == [k \in 1 .. n |-> chunks[d][k]]
                    IN  /\ \A k \in 1 .. n : first[k] # None /\ first[k].of = text
                        /\ Catalog!Cover(text, first)
  BY DEF CatalogInv, DocumentInv, Catalog!CatalogIsWhole, Quiet
<1> DEFINE text == catalog[d]
           n == Len(Catalog!ChunkText(text))
           first == [k \in 1 .. n |-> chunks[d][k]]
<1>1. text \in Texts /\ HasChunks(d, text)
  BY DEF CatalogInv, TablesTypeOK, DocumentInv
<1>2. DOMAIN Catalog!ChunkText(text) = 1 .. n
  BY <1>1 DEF Catalog!ChunksCover
<1>3. Catalog!ChunkText(text) = [k \in 1 .. n |-> Catalog!ChunkText(text)[k]]
  BY <1>2 DEF Catalog!ChunkText
<1>4. first = Catalog!ChunkText(text)
  BY <1>1, <1>2, <1>3 DEF HasChunks
<1>5. Catalog!Cover(text, Catalog!ChunkText(text))
  BY <1>1 DEF Catalog!ChunksCover
<1>6. \A k \in 1 .. n : Catalog!ChunkText(text)[k] # None /\ Catalog!ChunkText(text)[k].of = text
  BY <1>1, <1>2 DEF Catalog!ChunksCover
<1> QED
  BY <1>4, <1>5, <1>6

-----------------------------------------------------------------------------
(* Counting.                                                                *)

\* Induction over the numbers: a set of them has a least one.
LEMMA LeastNumber ==
  ASSUME NEW S \in SUBSET Nat, S # {}
  PROVE  \E m \in S : \A k \in S : m <= k
<1> DEFINE R == OpToRel(<, Nat)
<1>1. IsWellFoundedOn(R, Nat)
  BY NatLessThanWellFounded
<1> HIDE DEF R
<1>2. PICK m \in S : \A k \in S : ~ (<<k, m>> \in R)
  BY <1>1, WFMin
<1>3. \A j, k \in Nat : j < k => <<j, k>> \in R
  BY DEF R, OpToRel
<1>4. \A k \in S : m <= k
  <2> SUFFICES ASSUME NEW k \in S, ~ (m <= k)
               PROVE  FALSE
    OBVIOUS
  <2>1. k < m /\ k \in Nat /\ m \in Nat
    OBVIOUS
  <2> QED
    BY <2>1, <1>2, <1>3, Zenon
<1> QED
  BY <1>4, Zenon

\* g starts with c and takes k steps F in S.
Steps(S, c, F, g, k) == /\ g \in [0 .. k -> S] /\ g[0] = c
                        /\ \A n \in 1 .. k : g[n] = F[<<g[n - 1], n>>]

\* What is defined step by step exists.
LEMMA StepByStep ==
  ASSUME NEW S, NEW c \in S, NEW N \in Nat, NEW F \in [S \X (1 .. N) -> S]
  PROVE  \E g : Steps(S, c, F, g, N)
<1> DEFINE Good(g, k) == g \in [0 .. k -> S] /\ g[0] = c
                         /\ \A n \in 1 .. k : g[n] = F[<<g[n - 1], n>>]
           bad == {k \in 0 .. N : \A g : ~Good(g, k)}
<1>1. SUFFICES ASSUME bad # {}
               PROVE  FALSE
  <2>1. N \in 0 .. N
    OBVIOUS
  <2> QED
    BY <2>1 DEF Steps
<1>2. bad \in SUBSET Nat
  OBVIOUS
<1>3. PICK m \in bad : \A k \in bad : m <= k
  <2> HIDE DEF bad
  <2> QED
    BY <1>1, <1>2, LeastNumber
<1>4. m # 0
  <2>1. Good([n \in 0 .. 0 |-> c], 0)
    OBVIOUS
  <2> QED
    BY <2>1
<1>5. PICK g : Good(g, m - 1)
  <2>1. m - 1 \in 0 .. N /\ ~ (m <= m - 1)
    BY <1>4
  <2>2. m - 1 \notin bad
    BY <1>3, <2>1
  <2> QED
    BY <2>1, <2>2
<1> DEFINE h == [n \in 0 .. m |-> IF n = m THEN F[<<g[m - 1], m>>] ELSE g[n]]
<1>6. m \in 1 .. N
  BY <1>4
<1>7. F[<<g[m - 1], m>>] \in S
  BY <1>5, <1>6
<1>8. h \in [0 .. m -> S] /\ h[0] = c /\ \A n \in 1 .. m : h[n] = F[<<h[n - 1], n>>]
  <2>1. h \in [0 .. m -> S]
    BY <1>5, <1>6, <1>7
  <2>2. h[0] = c
    BY <1>5, <1>6
  <2>3. \A n \in 1 .. m : h[n] = F[<<h[n - 1], n>>]
    <3> TAKE n \in 1 .. m
    <3>1. h[n - 1] = g[n - 1]
      BY <1>6
    <3>2. CASE n = m
      <4>1. h[m] = F[<<g[m - 1], m>>]
        BY <1>6
      <4>2. h[m - 1] = g[m - 1]
        BY <3>1, <3>2
      <4> HIDE DEF h
      <4> QED
        BY <4>1, <4>2, <3>2
    <3>3. CASE n # m
      <4>1. n \in 1 .. m - 1 /\ n \in 0 .. m
        BY <3>3, <1>6
      <4>2. g[n] = F[<<g[n - 1], n>>]
        BY <4>1, <1>5
      <4>3. h[n] = g[n]
        BY <4>1, <3>3
      <4> QED
        BY <4>2, <4>3, <3>1
    <3> QED
      BY <3>2, <3>3
  <2> QED
    BY <2>1, <2>2, <2>3
<1> QED
  BY <1>8

-----------------------------------------------------------------------------
(* chunk_text.                                                             *)

\* A text's sentences from .. to.
Pieces(text) == [of : {text}, from : Nat, to : Nat]

\* Chunks c have the first n sentences of a text.
Covers(text, n, c) ==
    /\ c \in Seq(Pieces(text)) /\ c # <<>> /\ Len(c) <= n
    /\ c[1].from = 1 /\ c[Len(c)].to = n
    /\ \A k \in 2 .. Len(c) : c[k].from <= c[k - 1].to + 1 /\ c[k - 1].to < c[k].to
    /\ \A k \in 1 .. Len(c) : \/ Catalog!Fits(text, c[k].from, c[k].to, MaxChars)
                              \/ c[k].to = (IF k = 1 THEN 1 ELSE c[k - 1].to + 1)

\* The last chunk gets one more sentence, which fits.
LEMMA LongerCovers ==
  ASSUME NEW text \in Texts, NEW n \in Nat, NEW c \in Seq(Pieces(text)), NEW i \in Nat,
         Covers(text, n, Append(c, Catalog!Chunk(text, i, n))),
           Catalog!Fits(text, i, n + 1, MaxChars)
  PROVE  Covers(text, n + 1, Append(c, Catalog!Chunk(text, i, n + 1)))
<1> DEFINE old == Append(c, Catalog!Chunk(text, i, n))
           new == Append(c, Catalog!Chunk(text, i, n + 1))
           l == Len(c) + 1
<1>0. Catalog!Chunk(text, i, n) \in Pieces(text) /\ Catalog!Chunk(text, i, n + 1) \in Pieces(text)
  BY DEF Catalog!Chunk, Pieces
<1>1. /\ new \in Seq(Pieces(text)) /\ new # <<>> /\ Len(new) = l
      /\ new[l] = Catalog!Chunk(text, i, n + 1)
      /\ old \in Seq(Pieces(text)) /\ Len(old) = l /\ old[l] = Catalog!Chunk(text, i, n)
      /\ l \in Nat /\ l >= 1
  BY <1>0
<1>2. \A k \in 1 .. l - 1 : new[k] = old[k]
  BY <1>0
<1> HIDE DEF old, new, l
<1>3. /\ l <= n /\ old[1].from = 1
      /\ \A k \in 2 .. l : old[k].from <= old[k - 1].to + 1 /\ old[k - 1].to < old[k].to
      /\ \A k \in 1 .. l : \/ Catalog!Fits(text, old[k].from, old[k].to, MaxChars)
                           \/ old[k].to = (IF k = 1 THEN 1 ELSE old[k - 1].to + 1)
  BY <1>1 DEF Covers, old
<1>4. /\ new[l].from = i /\ new[l].to = n + 1 /\ old[l].from = i /\ old[l].to = n
      /\ \A k \in 1 .. l : old[k].to \in Nat
  <2>1. \A k \in 1 .. l : old[k] \in Pieces(text)
    BY <1>1
  <2>2. \A k \in 1 .. l : old[k].to \in Nat
    BY <2>1 DEF Pieces
  <2> QED
    BY <1>1, <2>2 DEF Catalog!Chunk
<1>5. ASSUME NEW k \in 2 .. l
      PROVE  new[k].from <= new[k - 1].to + 1 /\ new[k - 1].to < new[k].to
  <2>1. k \in 1 .. l /\ k - 1 \in 1 .. l - 1 /\ k - 1 \in 1 .. l
    BY <1>1
  <2>2. new[k - 1] = old[k - 1]
    BY <1>2, <2>1
  <2>3. CASE k = l
    <3>1. old[l - 1].to < n /\ old[l - 1].to \in Nat
      BY <1>3, <1>4, <2>1, <2>3
    <3> QED
      BY <1>3, <1>4, <2>2, <2>3, <3>1
  <2>4. CASE k # l
    <3>1. new[k] = old[k]
      BY <1>1, <1>2, <2>4
    <3> QED
      BY <2>2, <3>1, <1>3
  <2> QED
    BY <2>3, <2>4
<1>6. ASSUME NEW k \in 1 .. l
      PROVE  \/ Catalog!Fits(text, new[k].from, new[k].to, MaxChars)
             \/ new[k].to = (IF k = 1 THEN 1 ELSE new[k - 1].to + 1)
  <2>1. CASE k = l
    BY <1>4, <2>1
  <2>2. CASE k # l
    <3>1. k \in 1 .. l - 1 /\ (k # 1 => k - 1 \in 1 .. l - 1)
      BY <1>1, <2>2
    <3>2. new[k] = old[k] /\ (k # 1 => new[k - 1] = old[k - 1])
      BY <1>2, <3>1
    <3>3. \/ Catalog!Fits(text, old[k].from, old[k].to, MaxChars)
          \/ old[k].to = (IF k = 1 THEN 1 ELSE old[k - 1].to + 1)
      BY <1>3
    <3>4. CASE k = 1
      BY <3>2, <3>3, <3>4
    <3>5. CASE k # 1
      BY <3>2, <3>3, <3>5
    <3> QED
      BY <3>4, <3>5
  <2> QED
    BY <2>1, <2>2
<1>7. new[1].from = 1
  <2>1. CASE l = 1
    BY <1>3, <1>4, <2>1
  <2>2. CASE l # 1
    <3>1. 1 \in 1 .. l - 1
      BY <1>1, <2>2
    <3> QED
      BY <1>2, <1>3, <3>1
  <2> QED
    BY <2>1, <2>2
<1>8. l <= n + 1
  BY <1>1, <1>3
<1>9. Covers(text, n + 1, new)
  BY <1>1, <1>4, <1>5, <1>6, <1>7, <1>8 DEF Covers
<1> QED
  BY <1>9 DEF new

\* One more chunk, for one more sentence.
LEMMA AnotherCovers ==
  ASSUME NEW text \in Texts, NEW n \in Nat, NEW c, Covers(text, n, c), NEW i \in 1 .. n + 1
  PROVE  Covers(text, n + 1, Append(c, Catalog!Chunk(text, i, n + 1)))
<1> DEFINE new == Append(c, Catalog!Chunk(text, i, n + 1))
           l == Len(c)
<1>0. c \in Seq(Pieces(text)) /\ Catalog!Chunk(text, i, n + 1) \in Pieces(text)
  BY DEF Covers, Catalog!Chunk, Pieces
<1>1. /\ new \in Seq(Pieces(text)) /\ new # <<>> /\ Len(new) = l + 1
      /\ new[l + 1] = Catalog!Chunk(text, i, n + 1) /\ l \in Nat
      /\ \A k \in 1 .. l : new[k] = c[k]
  BY <1>0
<1> HIDE DEF new, l
<1>2. /\ l >= 1 /\ l <= n /\ c[1].from = 1 /\ c[l].to = n
      /\ \A k \in 2 .. l : c[k].from <= c[k - 1].to + 1 /\ c[k - 1].to < c[k].to
      /\ \A k \in 1 .. l : \/ Catalog!Fits(text, c[k].from, c[k].to, MaxChars)
                           \/ c[k].to = (IF k = 1 THEN 1 ELSE c[k - 1].to + 1)
  <2>1. l # 0
    BY <1>0 DEF Covers, l
  <2> QED
    BY <1>1, <2>1 DEF Covers, l
<1>3. new[l + 1].from = i /\ new[l + 1].to = n + 1
  BY <1>1 DEF Catalog!Chunk
<1>4. 1 \in 1 .. l /\ l \in 1 .. l
  BY <1>1, <1>2
<1>5. new[1].from = 1 /\ new[l].to = n
  BY <1>1, <1>2, <1>4
<1>6. ASSUME NEW k \in 2 .. l + 1
      PROVE  new[k].from <= new[k - 1].to + 1 /\ new[k - 1].to < new[k].to
  <2>1. CASE k = l + 1
    <3>1. new[k - 1].to = n
      BY <1>1, <1>5, <2>1
    <3> QED
      BY <1>3, <2>1, <3>1
  <2>2. CASE k # l + 1
    <3>1. k \in 2 .. l /\ k \in 1 .. l /\ k - 1 \in 1 .. l
      BY <1>1, <2>2
    <3>2. new[k] = c[k] /\ new[k - 1] = c[k - 1]
      BY <1>1, <3>1
    <3> QED
      BY <1>2, <3>1, <3>2
  <2> QED
    BY <2>1, <2>2
<1>7. ASSUME NEW k \in 1 .. l + 1
      PROVE  \/ Catalog!Fits(text, new[k].from, new[k].to, MaxChars)
             \/ new[k].to = (IF k = 1 THEN 1 ELSE new[k - 1].to + 1)
  <2>1. CASE k = l + 1
    <3>1. k # 1 /\ new[k - 1].to = n
      BY <1>1, <1>2, <1>5, <2>1
    <3> QED
      BY <1>3, <2>1, <3>1
  <2>2. CASE k # l + 1
    <3>1. k \in 1 .. l /\ (k # 1 => k - 1 \in 1 .. l)
      BY <1>1, <2>2
    <3>2. new[k] = c[k] /\ (k # 1 => new[k - 1] = c[k - 1])
      BY <1>1, <3>1
    <3>3. \/ Catalog!Fits(text, c[k].from, c[k].to, MaxChars)
          \/ c[k].to = (IF k = 1 THEN 1 ELSE c[k - 1].to + 1)
      BY <1>2, <3>1
    <3>4. CASE k = 1
      BY <3>2, <3>3, <3>4
    <3>5. CASE k # 1
      BY <3>2, <3>3, <3>5
    <3> QED
      BY <3>4, <3>5
  <2> QED
    BY <2>1, <2>2
<1>8. l + 1 <= n + 1
  BY <1>1, <1>2
<1>9. Covers(text, n + 1, new)
  BY <1>1, <1>3, <1>5, <1>6, <1>7, <1>8 DEF Covers
<1> QED
  BY <1>9 DEF new

LEMMA CarryFacts ==
  ASSUME Catalog!DocumentsAssumption, NEW text \in Texts, NEW i \in Nat, NEW j \in Nat, i <= j
  PROVE  Catalog!Carry(text, i, j) \in i .. j + 1
<1>1. CASE Overlap = 0
  BY <1>1 DEF Catalog!Carry
<1>2. CASE Overlap # 0
  <2> DEFINE good == {k \in i .. j : k = j \/ Catalog!Fits(text, k, j, Overlap)}
  <2>1. good \in SUBSET Nat /\ j \in good
    OBVIOUS
  <2>2. PICK m \in good : \A k \in good : m <= k
    <3> HIDE DEF good
    <3> QED
      BY <2>1, LeastNumber
  <2>3. \A l \in i .. m - 1 : ~Catalog!Fits(text, l, j, Overlap)
    BY <2>2
  <2>4. \E k \in i .. j : /\ k = j \/ Catalog!Fits(text, k, j, Overlap)
                          /\ \A l \in i .. k - 1 : ~Catalog!Fits(text, l, j, Overlap)
    BY <2>2, <2>3
  <2>5. Catalog!Carry(text, i, j) \in i .. j
    BY <1>2, <2>4, Zenon DEF Catalog!Carry
  <2> QED
    BY <2>5
<1> QED
  BY <1>1, <1>2

\* What the loop knows after j sentences.
Accumulators(text, n) == [chunks : Seq(Pieces(text)), first : 1 .. n]

LEMMA AddSentenceType ==
  ASSUME Catalog!DocumentsAssumption, NEW text \in Texts, NEW n \in Nat,
         NEW acc \in Accumulators(text, n),
         NEW j \in 1 .. n
  PROVE  Catalog!AddSentence(text, acc, j) \in Accumulators(text, n)
<1> USE DEF Accumulators
<1>1. CASE acc.first < j /\ ~Catalog!Fits(text, acc.first, j, MaxChars)
  <2>1. Catalog!Carry(text, acc.first, j - 1) \in 1 .. n
    <3>0. acc.first \in Nat /\ acc.first >= 1 /\ j - 1 \in Nat /\ acc.first <= j - 1 /\ j <= n
      BY <1>1
    <3>1. Catalog!Carry(text, acc.first, j - 1) \in acc.first .. (j - 1) + 1
      BY <3>0, CarryFacts
    <3> QED
      BY <3>0, <3>1
  <2>2. Append(acc.chunks, Catalog!Chunk(text, acc.first, j - 1)) \in Seq(Pieces(text))
    <3>1. Catalog!Chunk(text, acc.first, j - 1) \in Pieces(text)
      BY DEF Catalog!Chunk, Pieces
    <3> QED
      BY <3>1
  <2> QED
    BY <1>1, <2>1, <2>2 DEF Catalog!AddSentence
<1>2. CASE ~(acc.first < j /\ ~Catalog!Fits(text, acc.first, j, MaxChars))
  BY <1>2 DEF Catalog!AddSentence
<1> QED
  BY <1>1, <1>2

\* The recursion of Scanned is one.
LEMMA ScannedFacts ==
  ASSUME Catalog!DocumentsAssumption, NEW text \in Texts, text # <<>>
  PROVE  /\ Catalog!Scanned(text)[0] = [chunks |-> <<>>, first |-> 1]
         /\ \A j \in 1 .. Len(text) :
                Catalog!Scanned(text)[j]
                  = Catalog!AddSentence(text, Catalog!Scanned(text)[j - 1], j)
<1> DEFINE n == Len(text)
           zero == [chunks |-> <<>>, first |-> 1]
           F == [p \in Accumulators(text, n) \X (1 .. n) |-> Catalog!AddSentence(text, p[1],
             p[2])]
           IsScan(f) == f = [j \in 0 .. n |-> IF j = 0 THEN zero
                                              ELSE Catalog!AddSentence(text, f[j - 1], j)]
<1>1. n \in Nat /\ n >= 1
  OBVIOUS
<1> HIDE DEF n
<1>2. zero \in Accumulators(text, n)
  BY <1>1 DEF Accumulators
<1>3. F \in [Accumulators(text, n) \X (1 .. n) -> Accumulators(text, n)]
  BY <1>1, AddSentenceType
<1> HIDE DEF zero, F
<1>4. PICK g \in [0 .. n -> Accumulators(text, n)] :
             /\ g[0] = zero
             /\ \A j \in 1 .. n : g[j] = F[<<g[j - 1], j>>]
  <2>1. \E g \in [0 .. n -> Accumulators(text, n)] :
             /\ g[0] = zero
             /\ \A j \in 1 .. n : g[j] = F[<<g[j - 1], j>>]
    <3> DEFINE S == Accumulators(text, n)
    <3>1. n \in Nat /\ zero \in S /\ F \in [S \X (1 .. n) -> S]
      BY <1>1, <1>2, <1>3
    <3> HIDE DEF S
    <3>2. \E g : Steps(S, zero, F, g, n)
      BY <3>1, StepByStep, Zenon
    <3> QED
      BY <3>2 DEF S, Steps
  <2> QED
    BY <2>1
<1>5. \A j \in 1 .. n : g[j] = Catalog!AddSentence(text, g[j - 1], j)
  <2> TAKE j \in 1 .. n
  <2>1. g[j - 1] \in Accumulators(text, n)
    BY <1>1
  <2>2. <<g[j - 1], j>> \in Accumulators(text, n) \X (1 .. n)
    BY <2>1
  <2> QED
    BY <2>2, <1>4 DEF F
<1>6. IsScan(g)
  <2>1. \A j \in 0 .. n : g[j] = IF j = 0 THEN zero ELSE Catalog!AddSentence(text, g[j - 1], j)
    BY <1>1, <1>4, <1>5
  <2> QED
    BY <2>1
<1>7. Catalog!Scanned(text) = CHOOSE f : IsScan(f)
  BY DEF Catalog!Scanned, n, zero
<1>8. IsScan(Catalog!Scanned(text))
  <2> HIDE DEF IsScan
  <2> QED
    BY <1>6, <1>7, Zenon
<1> DEFINE f == Catalog!Scanned(text)
<1> HIDE DEF f
<1>9. f = [j \in 0 .. n |-> IF j = 0 THEN zero ELSE Catalog!AddSentence(text, f[j - 1], j)]
  BY <1>8 DEF f
<1>10. f[0] = zero /\ \A j \in 1 .. n : f[j] = Catalog!AddSentence(text, f[j - 1], j)
  BY <1>1, <1>9
<1> QED
  BY <1>10 DEF f, n, zero

\* After j sentences, the chunks and the current one have them.
Scans(text, acc, j) ==
    acc \in Accumulators(text, j)
      /\ Covers(text, j, Append(acc.chunks, Catalog!Chunk(text, acc.first, j)))

LEMMA ScanStep ==
  ASSUME Catalog!DocumentsAssumption, NEW text \in Texts, NEW j \in Nat, j >= 1, NEW acc,
         Scans(text, acc, j)
  PROVE  Scans(text, Catalog!AddSentence(text, acc, j + 1), j + 1)
<1> DEFINE new == Catalog!AddSentence(text, acc, j + 1)
<1>1. /\ acc.chunks \in Seq(Pieces(text)) /\ acc.first \in 1 .. j
      /\ acc \in Accumulators(text, j + 1)
      /\ Covers(text, j, Append(acc.chunks, Catalog!Chunk(text, acc.first, j)))
  BY DEF Scans, Accumulators
<1>2. new \in Accumulators(text, j + 1)
  BY <1>1, AddSentenceType
<1>3. CASE Catalog!Fits(text, acc.first, j + 1, MaxChars)
  <2>1. new = acc
    BY <1>3 DEF Catalog!AddSentence
  <2>2. Covers(text, j + 1, Append(acc.chunks, Catalog!Chunk(text, acc.first, j + 1)))
    BY <1>1, <1>3, LongerCovers
  <2> QED
    BY <1>2, <2>1, <2>2 DEF Scans
<1>4. CASE ~Catalog!Fits(text, acc.first, j + 1, MaxChars)
  <2>1. /\ new.chunks = Append(acc.chunks, Catalog!Chunk(text, acc.first, j))
        /\ new.first = Catalog!Carry(text, acc.first, j)
    <3>1. acc.first < j + 1 /\ (j + 1) - 1 = j
      BY <1>1
    <3> QED
      BY <1>4, <3>1 DEF Catalog!AddSentence
  <2>2. new.first \in 1 .. j + 1
    <3>1. acc.first \in Nat /\ acc.first >= 1 /\ acc.first <= j
      BY <1>1
    <3>2. Catalog!Carry(text, acc.first, j) \in acc.first .. j + 1
      BY <3>1, CarryFacts
    <3> QED
      BY <2>1, <3>1, <3>2
  <2>3. Covers(text, j + 1, Append(new.chunks, Catalog!Chunk(text, new.first, j + 1)))
    BY <1>1, <2>1, <2>2, AnotherCovers
  <2> QED
    BY <1>2, <2>3 DEF Scans
<1> QED
  BY <1>3, <1>4

LEMMA ScannedCovers ==
  ASSUME Catalog!DocumentsAssumption, NEW text \in Texts, text # <<>>
  PROVE  Scans(text, Catalog!Scanned(text)[Len(text)], Len(text))
<1> DEFINE n == Len(text)
           f == Catalog!Scanned(text)
           bad == {j \in 1 .. n : ~Scans(text, f[j], j)}
<1>1. n \in Nat /\ n >= 1
  OBVIOUS
<1>2. /\ f[0] = [chunks |-> <<>>, first |-> 1]
      /\ \A j \in 1 .. n : f[j] = Catalog!AddSentence(text, f[j - 1], j)
  BY ScannedFacts
<1> HIDE DEF n, f
<1>3. Scans(text, f[1], 1)
  <2>1. f[1] = [chunks |-> <<>>, first |-> 1]
    <3>1. f[1] = Catalog!AddSentence(text, f[0], 1) /\ f[0].first = 1
      BY <1>1, <1>2
    <3>2. ~(f[0].first < 1)
      BY <3>1
    <3> QED
      BY <1>2, <3>1, <3>2 DEF Catalog!AddSentence
  <2>2. PICK c : c = Append(<<>>, Catalog!Chunk(text, 1, 1))
    OBVIOUS
  <2>3. Covers(text, 1, c)
    <3>1. Catalog!Chunk(text, 1, 1) \in Pieces(text)
      BY DEF Catalog!Chunk, Pieces
    <3>2. c \in Seq(Pieces(text)) /\ Len(c) = 1 /\ c[1] = Catalog!Chunk(text, 1, 1)
      <4>1. <<>> \in Seq(Pieces(text)) /\ Len(<<>>) = 0
        OBVIOUS
      <4> QED
        BY <2>2, <3>1, <4>1
    <3>3. c # <<>>
      BY <3>2
    <3>4. c[1].from = 1 /\ c[1].to = 1
      <4>1. Catalog!Chunk(text, 1, 1).from = 1 /\ Catalog!Chunk(text, 1, 1).to = 1
        BY DEF Catalog!Chunk
      <4> QED
        BY <3>2, <4>1
    <3>5. Catalog!Fits(text, c[1].from, c[1].to, MaxChars) \/ c[1].to = 1
      BY <3>4
    <3> QED
      BY <3>2, <3>3, <3>4, <3>5 DEF Covers
  <2>4. f[1] \in Accumulators(text, 1)
    BY <2>1 DEF Accumulators
  <2> QED
    BY <2>1, <2>2, <2>3, <2>4 DEF Scans
<1>4. SUFFICES ASSUME bad # {}
               PROVE  FALSE
  BY <1>1 DEF n, f
<1>5. bad \in SUBSET Nat
  OBVIOUS
<1>6. PICK m \in bad : \A k \in bad : m <= k
  <2> HIDE DEF bad
  <2> QED
    BY <1>4, <1>5, LeastNumber
<1>7. m \in 1 .. n /\ m # 1 /\ ~Scans(text, f[m], m)
  BY <1>3
<1>8. m - 1 \notin bad /\ m - 1 \in 1 .. n
  BY <1>1, <1>6, <1>7
<1>9. Scans(text, f[m - 1], m - 1)
  BY <1>8
<1>10. f[m] = Catalog!AddSentence(text, f[m - 1], (m - 1) + 1)
  BY <1>2, <1>7
<1>11. Scans(text, f[m], (m - 1) + 1)
  BY <1>7, <1>9, <1>10, ScanStep
<1> QED
  BY <1>7, <1>11

\* chunk_text, for any texts and sizes.
LEMMA TextsAreCovered == Catalog!DocumentsAssumption => Catalog!ChunksCover
<1> SUFFICES ASSUME Catalog!DocumentsAssumption, NEW text \in Texts
             PROVE  /\ DOMAIN Catalog!ChunkText(text) = 1 .. Len(Catalog!ChunkText(text))
                    /\ DOMAIN Catalog!ChunkText(text) \subseteq Catalog!Numbers
                    /\ \A k \in DOMAIN Catalog!ChunkText(text) :
                           Catalog!ChunkText(text)[k] # None
                             /\ Catalog!ChunkText(text)[k].of = text
                    /\ text = <<>> \/ Catalog!Cover(text, Catalog!ChunkText(text))
  BY DEF Catalog!ChunksCover
<1>1. text \in Seq(Nat)
  BY DEF Catalog!DocumentsAssumption
<1> DEFINE c == Catalog!ChunkText(text)
<1>2. CASE text = <<>>
  BY <1>2 DEF Catalog!ChunkText
<1>3. CASE text # <<>>
  <2>1. Covers(text, Len(text), c)
    BY <1>1, <1>3, ScannedCovers DEF Scans, Catalog!ChunkText
  <2> HIDE DEF c
  <2>2. /\ c \in Seq(Pieces(text)) /\ DOMAIN c = 1 .. Len(c) /\ Len(c) \in Nat /\ Len(c) >= 1
        /\ Len(c) <= Len(text) /\ c[1].from = 1 /\ c[Len(c)].to = Len(text)
        /\ \A k \in 2 .. Len(c) : c[k].from <= c[k - 1].to + 1 /\ c[k - 1].to < c[k].to
        /\ \A k \in 1 .. Len(c) : \/ Catalog!Fits(text, c[k].from, c[k].to, MaxChars)
                                  \/ c[k].to = (IF k = 1 THEN 1 ELSE c[k - 1].to + 1)
    BY <2>1 DEF Covers
  <2>3. DOMAIN c \subseteq DOMAIN text
    BY <1>1, <2>2
  <2>4. DOMAIN text \subseteq Catalog!Numbers
    BY DEF Catalog!Numbers
  <2>6. \A k \in 1 .. Len(c) : c[k] # None /\ c[k].of = text
    <3> TAKE k \in 1 .. Len(c)
    <3>1. c[k] \in Pieces(text)
      BY <2>2
    <3> QED
      BY <3>1 DEF Catalog!DocumentsAssumption, Pieces
  <2>7. Catalog!Cover(text, c)
    BY <2>2 DEF Catalog!Cover
  <2> QED
    BY <2>2, <2>3, <2>4, <2>6, <2>7 DEF c
<1> QED
  BY <1>2, <1>3

\* register_document, store_chunks and delete_document: a document whose last call was alone
\* and succeeded has the chunks of the text it is registered with, and one that is not in the
\* catalog has none, whatever calls overlap and whatever statements fail.
THEOREM CatalogIsWholeTheorem == Spec => []CatalogIsWhole
<1>0. Catalog!ChunksCover
  BY TextsAreCovered, ServicesAssumption DEF ServicesAssumption
<1>1. Catalog!Init => CatalogInv
  BY CatalogInitInv, ServicesAssumption DEF ServicesAssumption
<1>2. CatalogInv /\ [Catalog!Next]_(Catalog!vars) => CatalogInv'
  BY <1>0, CatalogInvStep, ServicesAssumption DEF ServicesAssumption
<1>3. CatalogInv => CatalogIsWhole
  BY <1>0, CatalogHolds, ServicesAssumption DEF CatalogIsWhole, ServicesAssumption
<1> QED
  BY <1>1, <1>2, <1>3, CatalogPart, PTL DEF Catalog!Spec

-----------------------------------------------------------------------------
(* The watchdogs.                                                          *)
(* AlarmsAreTrue is not inductive: what an alarm says was read before it   *)
(* is raised. ReadInv: what a round has read is a beginning of what is     *)
(* there, and a receipt it has not read came after the round had begun.    *)
(* AbsentInv: an item that is about to be called absent was started, is    *)
(* overdue and had no receipt by then, which stays so.                     *)

LEMMA DogsPart == Spec => Dogs!Spec
<1>1. [Next]_vars => [Dogs!Next]_(Dogs!vars)
  BY PartSteps DEF dogVars, Dogs!vars
<1> QED
  BY <1>1, PartInits, PTL DEF Spec, Dogs!Spec

ReceiptRecord == [target : Items, outcome : {"success", "failure", "partial"}, tokens : Nat,
                  at : Nat]

AlarmRecord == [kind : {"none", "velocity_high", "novelty_low", "storm_detected",
                        "receipt_absent"},
                about : Items \cup {"none"}, begun : Nat, at : Nat]

LoopRecord == [at : {"asleep", "receipts", "budget", "items", "absent"}, notes : Seq(Nat),
               receipts : Seq(ReceiptRecord), absent : SUBSET Items, begun : Nat]

ItemRecord == [status : {"pending", "in_progress", "completed", "failed"}, started : Nat]

NotesOK == clock \in Nat /\ notes \in Seq(Nat) /\ \A i \in DOMAIN notes : notes[i] <= clock

ReceiptsOK ==
    /\ receipts \in Seq(ReceiptRecord)
    /\ \A r \in DOMAIN receipts : receipts[r].at <= clock
    /\ applying \subseteq DOMAIN receipts

ItemsOK ==
    /\ item \in [Items -> ItemRecord]
    /\ \A r \in DOMAIN receipts : item[receipts[r].target].status # "pending"

LoopOK == loop \in LoopRecord /\ loop.begun <= clock /\ looked \in Nat /\ looked <= clock

LatestOK == latest \in AlarmRecord /\ latest.begun <= latest.at /\ latest.at <= clock

DogTypeOK == NotesOK /\ ReceiptsOK /\ ItemsOK /\ LoopOK /\ LatestOK

-----------------------------------------------------------------------------
\* What has been read is a beginning of what is there.
Beginning(read, all) == Len(read) <= Len(all) /\ \A i \in 1 .. Len(read) : read[i] = all[i]

\* And what was not read yet came after the round had begun.
ReadInv ==
    /\ Beginning(loop.notes, notes)
    /\ Beginning(loop.receipts, receipts)
    /\ loop.at \in {"budget", "items"} =>
         \A r \in Len(loop.receipts) + 1 .. Len(receipts) : loop.begun <= receipts[r].at

\* An item that was started, is overdue at a time, and had no receipt before another.
Missed(i, begun, at) ==
    /\ item[i].status # "pending"
    /\ item[i].started + Timeout < at
    /\ ~Dogs!Answered(i, begun)

\* The items about to be called absent.
AbsentInv ==
    /\ loop.at # "absent" => loop.absent = {}
    /\ \A i \in loop.absent : Missed(i, loop.begun, clock)

StormsInv == latest.kind = "storm_detected" =>
    \/ Cardinality(Dogs!Within(notes, latest)) > MaxNotes
    \/ Cardinality(Dogs!Within(Dogs!Times, latest)) > MaxReceipts

\* The lists of receipts that report as many tokens.
Excessive == {list \in Seq(ReceiptRecord) : Dogs!OverBudget(list)}

BudgetInv == latest.kind = "velocity_high" =>
    \E n \in 0 .. Len(receipts) : /\ \A r \in 1 .. n : receipts[r].at <= latest.at
                                  /\ SubSeq(receipts, 1, n) \in Excessive

LatestInv == latest.kind = "receipt_absent" =>
    latest.about \in Items /\ Missed(latest.about, latest.begun, latest.at)

OnRecordInv == \A i \in Items :
    /\ item[i].status = "in_progress" /\ item[i].started + Timeout < looked
    /\ ~Dogs!Answered(i, clock + 1)
    => i \in loop.absent \/ <<"receipt_absent", i>> \in interrupts

DogInv == /\ DogTypeOK /\ ReadInv /\ AbsentInv
          /\ StormsInv /\ BudgetInv /\ LatestInv /\ OnRecordInv

-----------------------------------------------------------------------------
LEMMA DogInitInv == Dogs!WatchdogsAssumption /\ Dogs!Init => DogInv
<1> SUFFICES ASSUME Dogs!WatchdogsAssumption, Dogs!Init
             PROVE  DogInv
  OBVIOUS
<1>1. DogTypeOK
  <2>1. NotesOK /\ ReceiptsOK
    BY DEF Dogs!Init, NotesOK, ReceiptsOK
  <2>2. ItemsOK /\ LoopOK /\ LatestOK
    BY DEF Dogs!Init, ItemsOK, ItemRecord, LoopOK, LoopRecord, LatestOK, AlarmRecord, Dogs!Asleep
  <2> QED
    BY <2>1, <2>2 DEF DogTypeOK
<1>2. ReadInv /\ AbsentInv
  BY DEF Dogs!Init, ReadInv, AbsentInv, Beginning, Dogs!Asleep
<1>3. StormsInv /\ BudgetInv /\ LatestInv
  BY DEF Dogs!Init, StormsInv, BudgetInv, LatestInv
<1>4. OnRecordInv
  BY DEF Dogs!Init, OnRecordInv
<1> QED
  BY <1>1, <1>2, <1>3, <1>4 DEF DogInv

LEMMA DogFacts ==
  ASSUME DogTypeOK
  PROVE  /\ clock \in Nat /\ looked \in Nat /\ looked <= clock
         /\ Len(notes) \in Nat /\ DOMAIN notes = 1 .. Len(notes)
         /\ Len(receipts) \in Nat /\ DOMAIN receipts = 1 .. Len(receipts)
         /\ \A r \in 1 .. Len(receipts) :
               /\ receipts[r].at \in Nat /\ receipts[r].at <= clock
               /\ receipts[r].target \in Items
               /\ item[receipts[r].target].status # "pending"
         /\ \A i \in Items : item[i].started \in Nat
         /\ loop.notes \in Seq(Nat) /\ loop.receipts \in Seq(ReceiptRecord)
         /\ Len(loop.receipts) \in Nat /\ DOMAIN loop.receipts = 1 .. Len(loop.receipts)
         /\ \A r \in 1 .. Len(loop.receipts) : loop.receipts[r].at \in Nat
         /\ loop.absent \subseteq Items /\ loop.begun \in Nat /\ loop.begun <= clock
         /\ latest.begun \in Nat /\ latest.at \in Nat /\ latest.begun <= latest.at
         /\ latest.at <= clock
<1>1. NotesOK /\ ReceiptsOK /\ ItemsOK /\ LoopOK /\ LatestOK
  BY DEF DogTypeOK
<1>2. \A r \in ReceiptRecord : r.at \in Nat /\ r.target \in Items
  BY DEF ReceiptRecord
<1>3. \A i \in Items : item[i].started \in Nat
  BY <1>1 DEF ItemsOK, ItemRecord
<1>4. clock \in Nat /\ Len(notes) \in Nat /\ DOMAIN notes = 1 .. Len(notes)
  BY <1>1 DEF NotesOK
<1>5. Len(receipts) \in Nat /\ DOMAIN receipts = 1 .. Len(receipts)
      /\ \A r \in 1 .. Len(receipts) : receipts[r] \in ReceiptRecord /\ receipts[r].at <= clock
  BY <1>1 DEF ReceiptsOK
<1>6. /\ loop.notes \in Seq(Nat) /\ loop.receipts \in Seq(ReceiptRecord)
      /\ loop.absent \subseteq Items /\ loop.begun \in Nat /\ loop.begun <= clock
      /\ looked \in Nat /\ looked <= clock
  BY <1>1 DEF LoopOK, LoopRecord
<1>7. Len(loop.receipts) \in Nat /\ DOMAIN loop.receipts = 1 .. Len(loop.receipts)
      /\ \A r \in 1 .. Len(loop.receipts) : loop.receipts[r] \in ReceiptRecord
  BY <1>6
<1>8. latest.begun \in Nat /\ latest.at \in Nat /\ latest.begun <= latest.at /\ latest.at <= clock
  BY <1>1 DEF LatestOK, AlarmRecord
<1>9. \A r \in 1 .. Len(receipts) : item[receipts[r].target].status # "pending"
  BY <1>1, <1>5 DEF ItemsOK
<1> QED
  BY <1>2, <1>3, <1>4, <1>5, <1>6, <1>7, <1>8, <1>9

LEMMA KeptAlarm ==
  ASSUME StormsInv, BudgetInv, LatestInv, UNCHANGED <<notes, receipts, item, latest>>
  PROVE  StormsInv' /\ BudgetInv' /\ LatestInv'
<1>1. StormsInv'
  BY DEF StormsInv, Dogs!Within, Dogs!Times
<1>2. BudgetInv'
  BY DEF BudgetInv
<1>3. LatestInv'
  BY DEF LatestInv, Missed, Dogs!Answered
<1> QED
  BY <1>1, <1>2, <1>3

LEMMA KeptTypes ==
  ASSUME DogTypeOK, UNCHANGED <<clock, notes, receipts, item, applying>>, LoopOK', LatestOK'
  PROVE  DogTypeOK'
  BY DEF DogTypeOK, NotesOK, ReceiptsOK, ItemsOK

LEMMA NotesFacts ==
  ASSUME NotesOK
  PROVE  /\ Append(notes, clock) \in Seq(Nat) /\ Beginning(notes, Append(notes, clock))
         /\ \A i \in DOMAIN Append(notes, clock) : Append(notes, clock)[i] <= clock
<1>1. notes \in Seq(Nat) /\ clock \in Nat
  BY DEF NotesOK
<1>2. Append(notes, clock) \in Seq(Nat) /\ Beginning(notes, Append(notes, clock))
      /\ Len(Append(notes, clock)) = Len(notes) + 1
      /\ Append(notes, clock)[Len(notes) + 1] = clock
  BY <1>1 DEF Beginning
<1>3. ASSUME NEW i \in DOMAIN Append(notes, clock)
      PROVE  Append(notes, clock)[i] <= clock
  <2>1. CASE i = Len(notes) + 1
    BY <2>1, <1>1, <1>2
  <2>2. CASE i # Len(notes) + 1
    <3>1. i \in DOMAIN notes /\ Append(notes, clock)[i] = notes[i]
      BY <2>2, <1>1
    <3> QED
      BY <3>1 DEF NotesOK
  <2> QED
    BY <2>1, <2>2
<1> QED
  BY <1>2, <1>3

LEMMA ClockFacts ==
  ASSUME DogTypeOK
  PROVE  /\ clock \in Nat /\ looked \in Nat /\ looked <= clock
         /\ Len(notes) \in Nat /\ Len(receipts) \in Nat /\ DOMAIN receipts = 1 .. Len(receipts)
         /\ notes \in Seq(Nat) /\ receipts \in Seq(ReceiptRecord)
         /\ loop.notes \in Seq(Nat) /\ loop.receipts \in Seq(ReceiptRecord)
         /\ Len(loop.receipts) \in Nat
         /\ loop.absent \subseteq Items /\ loop.begun \in Nat /\ loop.begun <= clock
         /\ latest.begun \in Nat /\ latest.at \in Nat /\ latest.begun <= latest.at
         /\ latest.at <= clock
  BY DogFacts DEF DogTypeOK, NotesOK, ReceiptsOK

LEMMA BeginningFacts ==
  ASSUME NEW S, NEW first \in Seq(S), NEW second \in Seq(S), NEW third \in Seq(S),
         Beginning(first, second), Beginning(second, third)
  PROVE  Beginning(first, third)
  BY DEF Beginning

\* A window of more notes, or of the same, holds no fewer of them.
LEMMA WithinGrows ==
  ASSUME NEW few \in Seq(Nat), NEW many \in Seq(Nat), Beginning(few, many), NEW alarm
  PROVE  /\ IsFiniteSet(Dogs!Within(many, alarm))
         /\ Cardinality(Dogs!Within(few, alarm)) \in Nat
         /\ Cardinality(Dogs!Within(many, alarm)) \in Nat
         /\ Cardinality(Dogs!Within(few, alarm)) <= Cardinality(Dogs!Within(many, alarm))
<1>1. IsFiniteSet(1 .. Len(many))
  BY FS_Interval
<1>2. Dogs!Within(many, alarm) \subseteq 1 .. Len(many)
  BY DEF Dogs!Within
<1>3. Dogs!Within(few, alarm) \subseteq Dogs!Within(many, alarm)
  BY DEF Dogs!Within, Beginning
<1>4. IsFiniteSet(Dogs!Within(many, alarm))
  BY <1>1, <1>2, FS_Subset
<1> QED
  BY <1>3, <1>4, FS_Subset, FS_CardinalityType

LEMMA TimesFacts ==
  ASSUME DogTypeOK
  PROVE  /\ Dogs!Times \in Seq(Nat) /\ Len(Dogs!Times) = Len(receipts)
         /\ \A r \in 1 .. Len(receipts) : Dogs!Times[r] = receipts[r].at
<1>1. \A r \in 1 .. Len(receipts) : receipts[r].at \in Nat
  BY DogFacts
<1>2. DOMAIN receipts = 1 .. Len(receipts) /\ Len(receipts) \in Nat
  BY DogFacts
<1>3. Dogs!Times = [r \in 1 .. Len(receipts) |-> receipts[r].at]
  BY <1>2 DEF Dogs!Times
<1> QED
  BY <1>1, <1>2, <1>3

\* Agents only append notes and receipts, start pending items and finish others.
LEMMA DogGrowStep ==
  ASSUME Dogs!WatchdogsAssumption, DogInv, DogTypeOK',
         Beginning(notes, notes'), Beginning(receipts, receipts'),
         \A r \in Len(receipts) + 1 .. Len(receipts') : receipts'[r].at = clock,
         clock <= clock',
         \A i \in Items :
           \/ item'[i] = item[i]
           \/ item[i].status = "pending" /\ item'[i].started = clock
           \/ item'[i].status \in {"completed", "failed"} /\ item'[i].started = item[i].started,
         UNCHANGED <<loop, interrupts, latest, looked>>
  PROVE  DogInv'
<1> USE DEF Dogs!WatchdogsAssumption
<1>1. DogTypeOK /\ ReadInv /\ AbsentInv /\ StormsInv /\ BudgetInv /\ LatestInv /\ OnRecordInv
  BY DEF DogInv
<1>2. \A r \in 1 .. Len(receipts) : receipts'[r] = receipts[r]
  BY DEF Beginning
<1>3. Len(receipts) \in Nat /\ Len(receipts') \in Nat /\ Len(receipts) <= Len(receipts')
      /\ DOMAIN receipts = 1 .. Len(receipts) /\ DOMAIN receipts' = 1 .. Len(receipts')
  BY <1>1, DogFacts DEF DogTypeOK, ReceiptsOK, Beginning
<1>4. \A i \in Items, t \in Nat : t <= clock /\ Dogs!Answered(i, t)' => Dogs!Answered(i, t)
  <2> SUFFICES ASSUME NEW i \in Items, NEW t \in Nat, t <= clock,
                      NEW r \in 1 .. Len(receipts'),
                      receipts'[r].target = i /\ receipts'[r].at < t
               PROVE  Dogs!Answered(i, t)
    BY <1>3 DEF Dogs!Answered
  <2>1. r <= Len(receipts)
    <3> SUFFICES ASSUME ~(r <= Len(receipts))
                 PROVE  FALSE
      OBVIOUS
    <3>1. r \in Len(receipts) + 1 .. Len(receipts')
      BY <1>3
    <3>2. receipts'[r].at = clock /\ clock \in Nat
      BY <3>1, <1>1, ClockFacts
    <3> QED
      BY <3>2
  <2> QED
    BY <2>1, <1>2, <1>3 DEF Dogs!Answered
<1>5. \A i \in Items : Dogs!Answered(i, clock + 1) => Dogs!Answered(i, clock + 1)'
  <2> SUFFICES ASSUME NEW i \in Items, NEW r \in 1 .. Len(receipts),
                      receipts[r].target = i /\ receipts[r].at < clock + 1
               PROVE  Dogs!Answered(i, clock + 1)'
    BY <1>3 DEF Dogs!Answered
  <2>1. r \in DOMAIN receipts' /\ receipts'[r] = receipts[r]
    BY <1>2, <1>3
  <2>2. receipts[r].at \in Nat /\ clock \in Nat /\ clock' \in Nat
    BY <1>1, DogFacts DEF DogTypeOK, NotesOK
  <2>3. receipts[r].at < clock' + 1
    BY <2>2
  <2>4. receipts'[r].target = i /\ receipts'[r].at < clock' + 1
    BY <2>1, <2>3
  <2> QED
    BY <2>1, <2>4 DEF Dogs!Answered
<1>6. \A i \in Items : \A begun, at \in Nat :
        begun <= clock /\ Missed(i, begun, at) => Missed(i, begun, at)'
  <2> TAKE i \in Items
  <2> TAKE begun, at \in Nat
  <2> HAVE begun <= clock /\ Missed(i, begun, at)
  <2>1. item'[i].status # "pending" /\ item'[i].started = item[i].started
    BY DEF Missed
  <2>2. ~Dogs!Answered(i, begun)'
    BY <1>4 DEF Missed
  <2> QED
    BY <2>1, <2>2 DEF Missed
<1>7. ReadInv'
  <2>1. Beginning(loop.notes, notes') /\ Beginning(loop.receipts, receipts')
    <3>1. notes' \in Seq(Nat) /\ receipts' \in Seq(ReceiptRecord)
      BY DEF DogTypeOK, NotesOK, ReceiptsOK, ReceiptRecord
    <3> QED
      BY <3>1, <1>1, ClockFacts, BeginningFacts DEF ReadInv
  <2>2. ASSUME loop.at \in {"budget", "items"},
               NEW r \in Len(loop.receipts) + 1 .. Len(receipts')
        PROVE  loop.begun <= receipts'[r].at
    <3>1. CASE r <= Len(receipts)
      <4>0. Len(loop.receipts) \in Nat
        BY <1>1, ClockFacts
      <4>1. r \in Len(loop.receipts) + 1 .. Len(receipts) /\ r \in 1 .. Len(receipts)
        BY <3>1, <4>0, <1>3
      <4> QED
        BY <4>1, <2>2, <1>1, <1>2 DEF ReadInv
    <3>2. CASE ~(r <= Len(receipts))
      <4>0. Len(loop.receipts) \in Nat /\ loop.begun <= clock
        BY <1>1, ClockFacts
      <4>1. r \in Len(receipts) + 1 .. Len(receipts')
        BY <3>2, <4>0, <1>3
      <4> QED
        BY <4>0, <4>1
    <3> QED
      BY <3>1, <3>2
  <2> QED
    BY <2>1, <2>2 DEF ReadInv
<1>8. AbsentInv'
  <2> SUFFICES ASSUME NEW i \in loop.absent
               PROVE  Missed(i, loop.begun, clock)'
    <3>1. loop' = loop
      OBVIOUS
    <3>2. loop.at # "absent" => loop.absent = {}
      BY <1>1 DEF AbsentInv
    <3> QED
      BY <3>1, <3>2 DEF AbsentInv
  <2>1. i \in Items /\ loop.begun \in Nat /\ loop.begun <= clock /\ clock \in Nat
          /\ clock' \in Nat
    BY <1>1, DogFacts DEF DogTypeOK, NotesOK
  <2>2. Missed(i, loop.begun, clock)
    BY <1>1 DEF AbsentInv
  <2>3. item[i].started \in Nat /\ Timeout \in Nat
    BY <2>1, <1>1, DogFacts
  <2>4. Missed(i, loop.begun, clock')
    BY <2>1, <2>2, <2>3 DEF Missed
  <2>6. item'[i].status # "pending" /\ item'[i].started = item[i].started
    BY <2>1, <2>2 DEF Missed
  <2>7. ~Dogs!Answered(i, loop.begun)'
    BY <2>1, <2>2, <1>4 DEF Missed
  <2> QED
    BY <2>4, <2>6, <2>7 DEF Missed
<1>9. StormsInv'
  <2> SUFFICES ASSUME latest.kind = "storm_detected"
               PROVE  StormsInv'
    BY DEF StormsInv
  <2>1. /\ Cardinality(Dogs!Within(notes, latest)) \in Nat
        /\ Cardinality(Dogs!Within(notes', latest)) \in Nat
        /\ Cardinality(Dogs!Within(notes, latest)) <= Cardinality(Dogs!Within(notes', latest))
    BY <1>1, WithinGrows DEF DogTypeOK, NotesOK
  <2>2. Dogs!Times \in Seq(Nat) /\ Dogs!Times' \in Seq(Nat) /\ Beginning(Dogs!Times, Dogs!Times')
    <3>1. (/\ Dogs!Times \in Seq(Nat) /\ Len(Dogs!Times) = Len(receipts)
           /\ \A r \in 1 .. Len(receipts) : Dogs!Times[r] = receipts[r].at)'
      BY TimesFacts, PTL
    <3>2. Len(Dogs!Times) <= Len(Dogs!Times')
      BY <3>1, <1>1, <1>3, TimesFacts
    <3>3. \A r \in 1 .. Len(Dogs!Times) : Dogs!Times[r] = Dogs!Times'[r]
      <4> TAKE r \in 1 .. Len(Dogs!Times)
      <4>1. r \in 1 .. Len(receipts) /\ Dogs!Times[r] = receipts[r].at
        BY <1>1, TimesFacts
      <4>2. r \in 1 .. Len(receipts') /\ receipts'[r] = receipts[r]
        BY <4>1, <1>2, <1>3
      <4>3. Dogs!Times'[r] = receipts'[r].at
        BY <4>2, <3>1
      <4> QED
        BY <4>1, <4>2, <4>3
    <3> QED
      BY <3>1, <3>2, <3>3, <1>1, TimesFacts DEF Beginning
  <2>3. /\ Cardinality(Dogs!Within(Dogs!Times, latest)) \in Nat
        /\ Cardinality(Dogs!Within(Dogs!Times', latest)) \in Nat
        /\ Cardinality(Dogs!Within(Dogs!Times, latest)) <= Cardinality(Dogs!Within(Dogs!Times',
             latest))
    BY <2>2, WithinGrows
  <2>4. MaxNotes \in Nat /\ MaxReceipts \in Nat
    OBVIOUS
  <2>5. (\/ Cardinality(Dogs!Within(notes, latest)) > MaxNotes
         \/ Cardinality(Dogs!Within(Dogs!Times, latest)) > MaxReceipts)
    BY <1>1 DEF StormsInv
  <2>6. (\/ Cardinality(Dogs!Within(notes', latest)) > MaxNotes
         \/ Cardinality(Dogs!Within(Dogs!Times', latest)) > MaxReceipts)
    BY <2>1, <2>3, <2>4, <2>5
  <2> QED
    BY <2>6 DEF StormsInv, Dogs!Within
<1>10. BudgetInv'
  <2> SUFFICES ASSUME latest.kind = "velocity_high"
               PROVE  BudgetInv'
    BY DEF BudgetInv
  <2>1. PICK n \in 0 .. Len(receipts) : /\ \A r \in 1 .. n : receipts[r].at <= latest.at
                                        /\ SubSeq(receipts, 1, n) \in Excessive
    BY <1>1 DEF BudgetInv
  <2>2. n \in 0 .. Len(receipts') /\ \A r \in 1 .. n : receipts'[r] = receipts[r]
    BY <1>2, <1>3
  <2>3. SubSeq(receipts', 1, n) = SubSeq(receipts, 1, n)
    BY <2>2, <1>1, <1>3 DEF DogTypeOK, ReceiptsOK
  <2>4. SubSeq(receipts', 1, n) \in Excessive
    BY <2>1, <2>3
  <2>5. \A r \in 1 .. n : receipts'[r].at <= latest.at
    BY <2>1, <2>2
  <2> QED
    BY <2>2, <2>4, <2>5 DEF BudgetInv
<1>11. LatestInv'
  <2> SUFFICES ASSUME latest.kind = "receipt_absent"
               PROVE  LatestInv'
    BY DEF LatestInv
  <2>1. latest.about \in Items /\ Missed(latest.about, latest.begun, latest.at)
    BY <1>1 DEF LatestInv
  <2>2. latest.begun \in Nat /\ latest.at \in Nat /\ latest.begun <= clock
    BY <1>1, ClockFacts
  <2>3. Missed(latest.about, latest.begun, latest.at)'
    BY <2>1, <2>2, <1>6
  <2> QED
    BY <2>1, <2>3 DEF LatestInv
<1>12. OnRecordInv'
  <2> SUFFICES ASSUME NEW i \in Items,
                      item'[i].status = "in_progress", item'[i].started + Timeout < looked,
                      ~Dogs!Answered(i, clock + 1)'
               PROVE  i \in loop.absent \/ <<"receipt_absent", i>> \in interrupts
    BY DEF OnRecordInv
  <2>1. item'[i] = item[i]
    <3>1. item[i].started \in Nat /\ looked \in Nat /\ looked <= clock /\ clock \in Nat
      BY <1>1, DogFacts
    <3>2. Timeout \in Nat
      OBVIOUS
    <3>3. ~(item'[i].started = clock)
      BY <3>1, <3>2
    <3>4. item'[i].status \notin {"completed", "failed"}
      OBVIOUS
    <3> QED
      BY <3>3, <3>4
  <2> QED
    BY <2>1, <1>1, <1>5 DEF OnRecordInv
<1> QED
  BY <1>7, <1>8, <1>9, <1>10, <1>11, <1>12 DEF DogInv

LEMMA DogTickStep ==
  ASSUME Dogs!WatchdogsAssumption, DogInv, Dogs!Tick
  PROVE  DogInv'
<1>1. DogTypeOK'
  <2>1. DogTypeOK
    BY DEF DogInv
  <2>2. NotesOK'
    BY <2>1, DogFacts DEF DogTypeOK, NotesOK, Dogs!Tick
  <2>3. ReceiptsOK'
    <3>1. \A r \in DOMAIN receipts : receipts[r].at \in Nat /\ receipts[r].at <= clock
      BY <2>1, DogFacts
    <3>2. clock \in Nat /\ clock' = clock + 1 /\ UNCHANGED <<receipts, applying>>
      BY <2>1, ClockFacts DEF Dogs!Tick
    <3> QED
      BY <2>1, <3>1, <3>2 DEF DogTypeOK, ReceiptsOK
  <2>4. ItemsOK'
    BY <2>1 DEF DogTypeOK, ItemsOK, Dogs!Tick
  <2>5. LoopOK' /\ LatestOK'
    BY <2>1, DogFacts DEF DogTypeOK, LoopOK, LatestOK, Dogs!Tick
  <2> QED
    BY <2>2, <2>3, <2>4, <2>5 DEF DogTypeOK
<1>2. Beginning(notes, notes') /\ Beginning(receipts, receipts')
  BY DogFacts DEF DogInv, Dogs!Tick, Beginning
<1>3. Len(receipts) \in Nat
  BY DogFacts DEF DogInv
<1> QED
  BY <1>1, <1>2, <1>3, DogGrowStep, DogFacts DEF Dogs!Tick, DogInv

LEMMA DogAgentStep ==
  ASSUME Dogs!WatchdogsAssumption, DogInv, Dogs!AgentStep
  PROVE  DogInv'
<1> USE DEF DogInv
<1>0. Len(receipts) \in Nat /\ Len(notes) \in Nat
  BY DogFacts
<1>1. CASE Dogs!SubmitNote
  <2>1. notes' = Append(notes, clock)
    BY <1>1 DEF Dogs!SubmitNote, Dogs!AddNote
  <2>2. Beginning(notes, notes') /\ Beginning(receipts, receipts')
    BY <1>1, <2>1, NotesFacts, ClockFacts DEF DogTypeOK, Dogs!SubmitNote, Beginning
  <2>3. NotesOK'
    <3>1. NotesOK /\ clock' = clock
      BY <1>1 DEF DogTypeOK, Dogs!SubmitNote
    <3> QED
      BY <2>1, <3>1, NotesFacts DEF NotesOK
  <2>4. DogTypeOK'
    BY <1>1, <2>3 DEF DogTypeOK, ReceiptsOK, ItemsOK, LoopOK, LatestOK, Dogs!SubmitNote
  <2> QED
    BY <1>0, <1>1, <2>2, <2>4, DogGrowStep, DogFacts DEF Dogs!SubmitNote
<1>2. ASSUME NEW i \in Items, Dogs!TakeItem(i)
      PROVE  DogInv'
  <2>1. Beginning(notes, notes') /\ Beginning(receipts, receipts')
    BY <1>2, DogFacts DEF Dogs!TakeItem, Beginning
  <2>3. ItemsOK'
    BY <1>2, DogFacts DEF DogTypeOK, ItemsOK, ItemRecord, Dogs!TakeItem
  <2>4. DogTypeOK'
    BY <1>2, <2>3 DEF DogTypeOK, NotesOK, ReceiptsOK, LoopOK, LatestOK, Dogs!TakeItem
  <2>2. \A j \in Items : \/ item'[j] = item[j]
                         \/ item[j].status = "pending" /\ item'[j].started = clock
    <3>1. item \in [Items -> ItemRecord] /\ item[i].status = "pending"
          /\ item' = [item EXCEPT ![i] = [status |-> "in_progress", started |-> clock]]
      BY <1>2 DEF DogTypeOK, ItemsOK, Dogs!TakeItem
    <3>2. item'[i] = [status |-> "in_progress", started |-> clock]
      BY <3>1
    <3>3. \A j \in Items \ {i} : item'[j] = item[j]
      BY <3>1
    <3>4. item'[i].started = clock
      BY <3>2
    <3>5. item[i].status = "pending"
      BY <3>1
    <3> TAKE j \in Items
    <3>6. CASE j = i
      BY <3>4, <3>5, <3>6
    <3>7. CASE j # i
      BY <3>3, <3>7
    <3> QED
      BY <3>6, <3>7
  <2> QED
    BY <1>0, <1>2, <2>1, <2>2, <2>4, DogGrowStep, DogFacts DEF Dogs!TakeItem
<1>3. ASSUME NEW i \in Items, NEW report \in Reports, Dogs!AddReceipt(i, report)
      PROVE  DogInv'
  <2> DEFINE new == [target |-> i, outcome |-> report[1], tokens |-> report[2], at |-> clock]
  <2>1. new \in ReceiptRecord /\ new.target = i /\ new.at = clock
    BY DogFacts DEF Dogs!WatchdogsAssumption, ReceiptRecord
  <2>2. receipts' = Append(receipts, new)
    BY <1>3 DEF Dogs!AddReceipt
  <2> HIDE DEF new
  <2>3. Beginning(notes, notes') /\ Beginning(receipts, receipts')
    BY <1>3, <2>2, DogFacts DEF DogTypeOK, ReceiptsOK, Dogs!AddReceipt, Beginning
  <2>4. receipts' \in Seq(ReceiptRecord) /\ Len(receipts') = Len(receipts) + 1
        /\ receipts'[Len(receipts) + 1] = new
    BY <2>1, <2>2, DogFacts DEF DogTypeOK, ReceiptsOK
  <2>5. \A r \in DOMAIN receipts' : \/ receipts'[r] = new
                                    \/ r \in DOMAIN receipts /\ receipts'[r] = receipts[r]
    <3>1. DOMAIN receipts' = 1 .. Len(receipts) + 1
      BY <2>4, ClockFacts
    <3>2. \A r \in 1 .. Len(receipts) : receipts'[r] = receipts[r]
      BY <2>3 DEF Beginning
    <3> TAKE r \in DOMAIN receipts'
    <3>3. r \in 1 .. Len(receipts) \/ r = Len(receipts) + 1
      BY <3>1, ClockFacts
    <3>4. CASE r \in 1 .. Len(receipts)
      BY <3>2, <3>4, ClockFacts
    <3>5. CASE r = Len(receipts) + 1
      BY <3>5, <2>4, Zenon
    <3> QED
      BY <3>3, <3>4, <3>5
  <2>6. DogTypeOK'
    <3>1. ReceiptsOK'
      <4>1. ReceiptsOK /\ clock' = clock /\ applying' = applying \cup {Len(receipts) + 1}
        BY <1>3 DEF DogTypeOK, Dogs!AddReceipt
      <4>2. clock \in Nat /\ DOMAIN receipts = 1 .. Len(receipts)
            /\ DOMAIN receipts' = 1 .. Len(receipts) + 1
        BY <2>4, ClockFacts
      <4>3. applying' \subseteq DOMAIN receipts'
        BY <1>0, <4>1, <4>2 DEF ReceiptsOK
      <4>4. \A r \in DOMAIN receipts' : receipts'[r].at <= clock'
        BY <2>1, <2>5, <4>1, <4>2 DEF ReceiptsOK
      <4> QED
        BY <2>4, <4>3, <4>4 DEF ReceiptsOK
    <3>2. ItemsOK'
      BY <1>3, <2>1, <2>5 DEF DogTypeOK, ItemsOK, Dogs!AddReceipt
    <3> QED
      BY <1>3, <3>1, <3>2 DEF DogTypeOK, NotesOK, LoopOK, LatestOK, Dogs!AddReceipt
  <2> QED
    BY <1>0, <1>3, <2>1, <2>3, <2>4, <2>6, DogGrowStep, DogFacts DEF Dogs!AddReceipt
<1>4. ASSUME NEW r \in applying, Dogs!ApplyReceipt(r)
      PROVE  DogInv'
  <2>1. receipts[r].target \in Items
    BY DogFacts DEF DogTypeOK, ReceiptsOK
  <2>2. \/ notes' = notes \/ notes' = Append(notes, clock)
    BY <1>4 DEF Dogs!ApplyReceipt, Dogs!AddNote
  <2>3. \A j \in Items : \/ item'[j] = item[j]
                         \/ /\ item'[j].status \in {"completed", "failed"}
                            /\ item'[j].started = item[j].started
    BY <1>4, <2>1 DEF Dogs!ApplyReceipt, Dogs!Set, DogTypeOK, ItemsOK, ItemRecord
  <2>4. item' \in [Items -> ItemRecord]
    BY <1>4, <2>1 DEF Dogs!ApplyReceipt, Dogs!Set, DogTypeOK, ItemsOK, ItemRecord
  <2>5. DogTypeOK'
    <3>1. NotesOK'
      <4>1. clock \in Nat /\ clock' = clock /\ NotesOK
        BY <1>4, ClockFacts DEF DogTypeOK, Dogs!ApplyReceipt
      <4> QED
        BY <4>1, <2>2, NotesFacts DEF NotesOK
    <3>2. ItemsOK'
      <4>1. receipts' = receipts /\ \A p \in DOMAIN receipts :
                  receipts[p].target \in Items /\ item[receipts[p].target].status # "pending"
        BY <1>4, DogFacts DEF Dogs!ApplyReceipt
      <4>2. \A p \in DOMAIN receipts : item'[receipts[p].target].status # "pending"
        BY <2>3, <4>1
      <4> QED
        BY <2>4, <4>1, <4>2 DEF ItemsOK
    <3>3. ReceiptsOK' /\ LoopOK' /\ LatestOK'
      BY <1>4 DEF DogTypeOK, ReceiptsOK, LoopOK, LatestOK, Dogs!ApplyReceipt
    <3> QED
      BY <3>1, <3>2, <3>3 DEF DogTypeOK
  <2>6. Beginning(notes, notes') /\ Beginning(receipts, receipts')
    <3>1. Beginning(notes, notes)
      BY ClockFacts DEF Beginning
    <3>2. receipts' = receipts /\ Beginning(receipts, receipts)
      BY <1>4, ClockFacts DEF Dogs!ApplyReceipt, Beginning
    <3>3. Beginning(notes, Append(notes, clock))
      BY NotesFacts DEF DogTypeOK
    <3> QED
      BY <2>2, <3>1, <3>2, <3>3
  <2> QED
    BY <1>0, <1>4, <2>3, <2>5, <2>6, DogGrowStep, DogFacts DEF Dogs!ApplyReceipt
<1> QED
  BY <1>1, <1>2, <1>3, <1>4 DEF Dogs!AgentStep

LEMMA ReadNotesStep ==
  ASSUME Dogs!WatchdogsAssumption, DogInv, Dogs!ReadNotes
  PROVE  DogInv'
<1> USE DEF DogInv
<1>1. loop' = [at |-> "receipts", notes |-> notes, receipts |-> <<>>, absent |-> {},
               begun |-> clock]
  BY DEF Dogs!ReadNotes, Dogs!Asleep
<1>2. DogTypeOK'
  <2>1. LoopOK' /\ LatestOK'
    <3>1. loop' \in LoopRecord /\ loop'.begun \in {0, clock, loop.begun}
      BY <1>1, ClockFacts DEF DogTypeOK, LoopOK, LoopRecord, Dogs!ReadNotes
    <3>2. looked' \in {looked, clock} /\ clock' = clock
      BY <1>1 DEF Dogs!ReadNotes
    <3>3. LatestOK'
      BY <1>1, ClockFacts DEF DogTypeOK, LatestOK, AlarmRecord, Dogs!ReadNotes
    <3> QED
      BY <3>1, <3>2, <3>3, ClockFacts DEF LoopOK
  <2> QED
    BY <1>1, <2>1, KeptTypes DEF Dogs!ReadNotes
<1>3. ReadInv' /\ AbsentInv'
  <2>1. loop'.notes = notes /\ loop'.receipts = <<>> /\ loop'.at = "receipts" /\ loop'.absent = {}
    BY <1>1
  <2> QED
    BY <2>1, ClockFacts DEF ReadInv, AbsentInv, Beginning, Dogs!ReadNotes
<1>4. StormsInv' /\ BudgetInv' /\ LatestInv'
  BY KeptAlarm DEF Dogs!ReadNotes
<1>5. OnRecordInv'
  BY <1>1 DEF OnRecordInv, Dogs!ReadNotes, Dogs!Answered, Dogs!Asleep
<1> QED
  BY <1>2, <1>3, <1>4, <1>5

LEMMA ReadReceiptsStep ==
  ASSUME Dogs!WatchdogsAssumption, DogInv, Dogs!ReadReceipts
  PROVE  DogInv'
<1> USE DEF DogInv
<1>1. loop' = [loop EXCEPT !.at = "budget", !.receipts = receipts]
  BY DEF Dogs!ReadReceipts
<1>2. DogTypeOK'
  <2>1. LoopOK' /\ LatestOK'
    <3>1. loop' \in LoopRecord /\ loop'.begun \in {0, clock, loop.begun}
      BY <1>1, ClockFacts DEF DogTypeOK, LoopOK, LoopRecord, Dogs!ReadReceipts
    <3>2. looked' \in {looked, clock} /\ clock' = clock
      BY <1>1 DEF Dogs!ReadReceipts
    <3>3. LatestOK'
      BY <1>1, ClockFacts DEF DogTypeOK, LatestOK, AlarmRecord, Dogs!ReadReceipts
    <3> QED
      BY <3>1, <3>2, <3>3, ClockFacts DEF LoopOK
  <2> QED
    BY <1>1, <2>1, KeptTypes DEF Dogs!ReadReceipts
<1>3. ReadInv' /\ AbsentInv'
  BY <1>1, DogFacts DEF ReadInv, AbsentInv, Beginning, Dogs!ReadReceipts
<1>4. StormsInv' /\ BudgetInv' /\ LatestInv'
  BY KeptAlarm DEF Dogs!ReadReceipts
<1>5. OnRecordInv'
  BY <1>1, DogFacts DEF OnRecordInv, Dogs!ReadReceipts, Dogs!Answered
<1> QED
  BY <1>2, <1>3, <1>4, <1>5

\* The cardinality of the instance is that of the theorems about finite sets.
LEMMA DogsCardinality == \A S : Dogs!Cardinality(S) = Cardinality(S)
  BY Zenon DEF Dogs!Cardinality, Cardinality

\* What is recent now is in the window of an alarm raised now.
LEMMA RecentFacts ==
  ASSUME Dogs!WatchdogsAssumption, DogTypeOK, NEW read \in Seq(Nat), NEW all \in Seq(Nat),
         Beginning(read, all), \A i \in DOMAIN all : all[i] <= clock,
         NEW alarm, alarm.at = clock
  PROVE  \A limit \in Nat : Dogs!Recent(read) > limit
           => Cardinality(Dogs!Within(all, alarm)) > limit
<1>1. {i \in DOMAIN read : read[i] > clock - Window} = Dogs!Within(read, alarm)
  <2>1. \A i \in DOMAIN read : read[i] \in Nat /\ read[i] <= clock
    <3> TAKE i \in DOMAIN read
    <3>1. /\ DOMAIN read = 1 .. Len(read) /\ Len(read) \in Nat
          /\ DOMAIN all = 1 .. Len(all) /\ Len(all) \in Nat
      OBVIOUS
    <3>2. i \in DOMAIN all /\ read[i] = all[i]
      BY <3>1 DEF Beginning
    <3>3. read[i] \in Nat
      OBVIOUS
    <3> QED
      BY <3>2, <3>3
  <2>2. clock \in Nat /\ Window \in Nat
    BY ClockFacts DEF Dogs!WatchdogsAssumption
  <2> QED
    BY <2>1, <2>2 DEF Dogs!Within
<1>2. Dogs!Recent(read) = Cardinality(Dogs!Within(read, alarm))
  BY <1>1, DogsCardinality DEF Dogs!Recent
<1> QED
  BY <1>2, WithinGrows

LEMMA EvaluateStep ==
  ASSUME Dogs!WatchdogsAssumption, DogInv, Dogs!Evaluate
  PROVE  DogInv'
<1> USE DEF DogInv
<1>1. PICK kind \in {"velocity_high", "novelty_low", "storm_detected", "none"} :
        /\ kind = "velocity_high" => Dogs!OverBudget(loop.receipts)
        /\ kind = "storm_detected" => Dogs!Storm(loop.notes, loop.receipts)
        /\ IF kind = "none" THEN /\ loop' = [loop EXCEPT !.at = "items", !.notes = <<>>]
                                 /\ UNCHANGED <<interrupts, latest, suspended>>
           ELSE Dogs!AddInterrupt(kind, "none") /\ loop' = Dogs!Asleep
  BY DEF Dogs!Evaluate
<1>2. CASE kind = "none"
  <2>1. DogTypeOK'
    <3>1. LoopOK' /\ LatestOK'
      <4>1. loop' \in LoopRecord /\ loop'.begun \in {0, clock, loop.begun}
        <5>1. loop \in LoopRecord /\ loop' = [loop EXCEPT !.at = "items", !.notes = <<>>]
          BY <1>1, <1>2 DEF DogTypeOK, LoopOK
        <5>2. loop' = [at |-> "items", notes |-> <<>>, receipts |-> loop.receipts,
                       absent |-> loop.absent, begun |-> loop.begun]
          BY <5>1 DEF LoopRecord
        <5> QED
          BY <5>2, ClockFacts DEF LoopRecord
      <4>2. looked' \in {looked, clock} /\ clock' = clock
        BY <1>1, <1>2 DEF Dogs!Evaluate
      <4>3. LatestOK'
        BY <1>1, <1>2, ClockFacts DEF DogTypeOK, LatestOK, AlarmRecord, Dogs!Evaluate
      <4> QED
        BY <4>1, <4>2, <4>3, ClockFacts DEF LoopOK
    <3> QED
      BY <1>1, <1>2, <3>1, KeptTypes DEF Dogs!Evaluate
  <2>2. ReadInv' /\ AbsentInv'
    <3>1. /\ loop'.at = "items" /\ loop'.notes = <<>> /\ loop'.receipts = loop.receipts
          /\ loop'.begun = loop.begun /\ loop'.absent = loop.absent
      BY <1>1, <1>2 DEF DogTypeOK, LoopOK, LoopRecord
    <3>2. loop.at = "budget" /\ UNCHANGED <<clock, notes, receipts, item>>
      BY DEF Dogs!Evaluate
    <3> QED
      BY <3>1, <3>2, ClockFacts DEF ReadInv, AbsentInv, Beginning
  <2>3. StormsInv' /\ BudgetInv' /\ LatestInv'
    BY <1>1, <1>2, KeptAlarm DEF Dogs!Evaluate
  <2>4. OnRecordInv'
    <3>1. loop'.absent = loop.absent
      BY <1>1, <1>2 DEF DogTypeOK, LoopOK, LoopRecord
    <3> QED
      BY <1>1, <1>2, <3>1 DEF OnRecordInv, Dogs!Evaluate, Dogs!Answered
  <2> QED
    BY <2>1, <2>2, <2>3, <2>4
<1>3. CASE kind # "none"
  <2>1. /\ loop' = [at |-> "asleep", notes |-> <<>>, receipts |-> <<>>, absent |-> {},
             begun |-> 0]
        /\ latest' = [kind |-> kind, about |-> "none", begun |-> loop.begun, at |-> clock]
        /\ interrupts \subseteq interrupts'
        /\ UNCHANGED <<clock, notes, receipts, item, applying, looked>>
    BY <1>1, <1>3 DEF Dogs!AddInterrupt, Dogs!Asleep, Dogs!Evaluate
  <2>2. DogTypeOK'
    <3>1. LoopOK' /\ LatestOK'
      <4>1. loop' \in LoopRecord /\ loop'.begun \in {0, clock, loop.begun}
        BY <2>1 DEF LoopRecord
      <4>2. looked' \in {looked, clock} /\ clock' = clock
        BY <1>1, <2>1
      <4>3. LatestOK'
        BY <1>1, <2>1, ClockFacts DEF DogTypeOK, LatestOK, AlarmRecord
      <4> QED
        BY <4>1, <4>2, <4>3, ClockFacts DEF LoopOK
    <3> QED
      BY <1>1, <2>1, <3>1, KeptTypes
  <2>3. ReadInv' /\ AbsentInv'
    BY <2>1, DogFacts DEF ReadInv, AbsentInv, Beginning
  <2>4. LatestInv'
    BY <1>1, <2>1 DEF LatestInv
  <2>5. OnRecordInv'
    <3>1. loop.absent = {}
      BY DEF Dogs!Evaluate, AbsentInv
    <3> QED
      BY <2>1, <3>1 DEF OnRecordInv, Dogs!Answered
  <2>6. BudgetInv'
    <3> SUFFICES ASSUME kind = "velocity_high"
                 PROVE  BudgetInv'
      BY <2>1 DEF BudgetInv
    <3> DEFINE n == Len(loop.receipts)
    <3>1. n \in 0 .. Len(receipts) /\ SubSeq(receipts, 1, n) = loop.receipts
      BY DogFacts DEF ReadInv, Beginning
    <3>2. \A r \in 1 .. n : receipts[r].at <= clock
      BY <3>1, DogFacts
    <3>3. Dogs!OverBudget(SubSeq(receipts, 1, n))
      BY <1>1, <3>1
    <3> HIDE DEF n
    <3>4. SubSeq(receipts, 1, n) \in Excessive
      BY <3>1, <3>3, ClockFacts DEF Excessive
    <3> QED
      BY <2>1, <3>1, <3>2, <3>4 DEF BudgetInv
  <2>7. StormsInv'
    <3> SUFFICES ASSUME kind = "storm_detected"
                 PROVE  StormsInv'
      BY <2>1 DEF StormsInv
    <3> DEFINE seen == [i \in DOMAIN loop.receipts |-> loop.receipts[i].at]
    <3>1. Dogs!Recent(loop.notes) > MaxNotes \/ Dogs!Recent(seen) > MaxReceipts
      BY <1>1 DEF Dogs!Storm
    <3>2. latest'.at = clock
      BY <2>1
    <3>3. Dogs!Recent(loop.notes) > MaxNotes
            => Cardinality(Dogs!Within(notes, latest')) > MaxNotes
      BY <3>2, RecentFacts, DogFacts DEF DogTypeOK, NotesOK, ReadInv, Dogs!WatchdogsAssumption
    <3>4. /\ DOMAIN loop.receipts = 1 .. Len(loop.receipts) /\ Len(loop.receipts) \in Nat
          /\ \A i \in 1 .. Len(loop.receipts) : loop.receipts[i].at \in Nat
      BY DogFacts
    <3>5. seen \in Seq(Nat) /\ Len(seen) = Len(loop.receipts)
      BY <3>4
    <3>6. Beginning(seen, Dogs!Times)
      BY <3>4, <3>5, TimesFacts DEF ReadInv, Beginning
    <3>7. Dogs!Times \in Seq(Nat) /\ \A r \in DOMAIN Dogs!Times : Dogs!Times[r] <= clock
      <4>1. DOMAIN Dogs!Times = 1 .. Len(receipts)
        BY TimesFacts
      <4> QED
        BY <4>1, TimesFacts, DogFacts
    <3> HIDE DEF seen
    <3>8. Dogs!Recent(seen) > MaxReceipts
            => Cardinality(Dogs!Within(Dogs!Times, latest')) > MaxReceipts
      BY <3>2, <3>5, <3>6, <3>7, RecentFacts DEF Dogs!WatchdogsAssumption
    <3>9. Dogs!Times' = Dogs!Times
      BY <2>1 DEF Dogs!Times
    <3> QED
      BY <2>1, <3>1, <3>3, <3>8, <3>9 DEF StormsInv, Dogs!Within
  <2> QED
    BY <2>2, <2>3, <2>4, <2>5, <2>6, <2>7
<1> QED
  BY <1>2, <1>3

LEMMA ReadItemsStep ==
  ASSUME Dogs!WatchdogsAssumption, DogInv, Dogs!ReadItems
  PROVE  DogInv'
<1> USE DEF DogInv
<1> DEFINE absent == Dogs!Absent(loop.receipts)
<1>1. /\ loop.at = "items" /\ looked' = clock
      /\ loop' = IF absent = {} THEN Dogs!Asleep
                 ELSE [loop EXCEPT !.at = "absent", !.absent = absent, !.receipts = <<>>]
      /\ UNCHANGED <<clock, notes, receipts, item, applying, suspended, interrupts, latest>>
  BY DEF Dogs!ReadItems
<1>2. absent \subseteq Items
  BY DEF Dogs!Absent
<1>3. \A i \in Items : item[i].started \in Nat /\ clock \in Nat /\ Timeout \in Nat
  BY DogFacts DEF Dogs!WatchdogsAssumption
<1>4. \A i \in absent : Missed(i, loop.begun, clock)
  <2> TAKE i \in absent
  <2>1. /\ i \in Items /\ item[i].status = "in_progress" /\ item[i].started < clock - Timeout
        /\ \A r \in DOMAIN loop.receipts : loop.receipts[r].target # i
    BY DEF Dogs!Absent, Dogs!Overdue
  <2>2. item[i].started + Timeout < clock
    BY <1>3, <2>1
  <2>3. ~Dogs!Answered(i, loop.begun)
    <3> SUFFICES ASSUME NEW r \in DOMAIN receipts, receipts[r].target = i,
                        receipts[r].at < loop.begun
                 PROVE  FALSE
      BY DEF Dogs!Answered
    <3>1. CASE r <= Len(loop.receipts)
      <4>1. r \in DOMAIN loop.receipts /\ loop.receipts[r] = receipts[r]
        BY <3>1, DogFacts DEF ReadInv, Beginning
      <4> QED
        BY <4>1, <2>1
    <3>2. CASE ~(r <= Len(loop.receipts))
      <4>1. r \in Len(loop.receipts) + 1 .. Len(receipts)
        BY <3>2, DogFacts
      <4>2. loop.begun <= receipts[r].at
        BY <4>1, <1>1 DEF ReadInv
      <4>3. receipts[r].at \in Nat /\ loop.begun \in Nat
        BY DogFacts
      <4> QED
        BY <4>2, <4>3
    <3> QED
      BY <3>1, <3>2
  <2> QED
    BY <2>1, <2>2, <2>3 DEF Missed
<1>5. \A i \in Items : /\ item[i].status = "in_progress" /\ item[i].started + Timeout < clock
                       /\ ~Dogs!Answered(i, clock + 1)
                       => i \in absent
  <2> SUFFICES ASSUME NEW i \in Items, item[i].status = "in_progress",
                      item[i].started + Timeout < clock, ~Dogs!Answered(i, clock + 1)
               PROVE  i \in absent
    OBVIOUS
  <2>1. item[i].started < clock - Timeout
    BY <1>3
  <2>2. ASSUME NEW r \in DOMAIN loop.receipts, loop.receipts[r].target = i
        PROVE  FALSE
    <3>1. r \in DOMAIN receipts /\ receipts[r] = loop.receipts[r]
      <4>1. r \in 1 .. Len(loop.receipts) /\ Beginning(loop.receipts, receipts)
        BY DogFacts DEF ReadInv
      <4> QED
        BY <4>1, ClockFacts DEF Beginning
    <3>2. receipts[r].at <= clock /\ receipts[r].at \in Nat
      BY <3>1, DogFacts
    <3> QED
      BY <3>1, <3>2, <2>2, <1>3 DEF Dogs!Answered
  <2> QED
    BY <2>1, <2>2 DEF Dogs!Absent, Dogs!Overdue
<1> HIDE DEF absent
<1>6. CASE absent = {}
  <2>1. loop' = [at |-> "asleep", notes |-> <<>>, receipts |-> <<>>, absent |-> {}, begun |-> 0]
    BY <1>1, <1>6 DEF Dogs!Asleep
  <2>2. DogTypeOK'
    <3>1. LoopOK' /\ LatestOK'
      <4>1. loop' \in LoopRecord /\ loop'.begun \in {0, clock, loop.begun}
        BY <2>1 DEF LoopRecord
      <4>2. looked' \in {looked, clock} /\ clock' = clock
        BY <1>1, <2>1
      <4>3. LatestOK'
        BY <1>1, <2>1, ClockFacts DEF DogTypeOK, LatestOK, AlarmRecord
      <4> QED
        BY <4>1, <4>2, <4>3, ClockFacts DEF LoopOK
    <3> QED
      BY <1>1, <2>1, <3>1, KeptTypes
  <2>3. ReadInv' /\ AbsentInv'
    <3>1. loop'.at = "asleep" /\ loop'.notes = <<>> /\ loop'.receipts = <<>> /\ loop'.absent = {}
      BY <2>1
    <3>2. Beginning(<<>>, notes) /\ Beginning(<<>>, receipts)
      BY ClockFacts DEF Beginning
    <3>3. notes' = notes /\ receipts' = receipts
      BY <1>1
    <3>4. ReadInv'
      BY <3>1, <3>2, <3>3 DEF ReadInv
    <3>5. AbsentInv'
      BY <3>1 DEF AbsentInv
    <3> QED
      BY <3>4, <3>5
  <2>4. StormsInv' /\ BudgetInv' /\ LatestInv'
    BY <1>1, KeptAlarm
  <2>5. OnRecordInv'
    BY <1>1, <1>5, <1>6 DEF OnRecordInv, Dogs!Answered
  <2> QED
    BY <2>2, <2>3, <2>4, <2>5
<1>7. CASE absent # {}
  <2>1. loop' = [loop EXCEPT !.at = "absent", !.absent = absent, !.receipts = <<>>]
    BY <1>1, <1>7
  <2>2. DogTypeOK'
    <3>1. LoopOK' /\ LatestOK'
      <4>1. loop' \in LoopRecord /\ loop'.begun \in {0, clock, loop.begun}
        <5>1. loop \in LoopRecord
          BY DEF DogTypeOK, LoopOK
        <5>2. loop' = [at |-> "absent", notes |-> loop.notes, receipts |-> <<>>,
                       absent |-> absent, begun |-> loop.begun]
          BY <2>1, <5>1 DEF LoopRecord
        <5> QED
          BY <1>2, <5>2, ClockFacts DEF LoopRecord
      <4>2. looked' \in {looked, clock} /\ clock' = clock
        BY <1>1, <1>2, <2>1
      <4>3. LatestOK'
        BY <1>1, <1>2, <2>1, ClockFacts DEF DogTypeOK, LatestOK, AlarmRecord
      <4> QED
        BY <4>1, <4>2, <4>3, ClockFacts DEF LoopOK
    <3> QED
      BY <1>1, <1>2, <2>1, <3>1, KeptTypes
  <2>3. ReadInv'
    <3>1. /\ loop'.at = "absent" /\ loop'.notes = loop.notes /\ loop'.receipts = <<>>
      BY <2>1 DEF DogTypeOK, LoopOK, LoopRecord
    <3>2. Beginning(loop.notes, notes)
      BY DEF ReadInv
    <3>3. Beginning(<<>>, receipts)
      BY ClockFacts DEF Beginning
    <3> QED
      BY <1>1, <3>1, <3>2, <3>3 DEF ReadInv
  <2>4. loop'.at = "absent" /\ loop'.absent = absent /\ loop'.begun = loop.begun
    BY <2>1, DogFacts
  <2>5. AbsentInv'
    BY <1>1, <1>4, <2>4 DEF AbsentInv, Missed, Dogs!Answered
  <2>6. StormsInv' /\ BudgetInv' /\ LatestInv'
    BY <1>1, KeptAlarm
  <2>7. OnRecordInv'
    BY <1>1, <1>5, <2>4 DEF OnRecordInv, Dogs!Answered
  <2> QED
    BY <2>2, <2>3, <2>5, <2>6, <2>7
<1> QED
  BY <1>6, <1>7

LEMMA SubmitAbsentStep ==
  ASSUME Dogs!WatchdogsAssumption, DogInv, Dogs!SubmitAbsent
  PROVE  DogInv'
<1> USE DEF DogInv
<1>1. PICK i \in loop.absent :
        /\ Dogs!AddInterrupt("receipt_absent", i)
        /\ loop' = IF loop.absent = {i} THEN Dogs!Asleep ELSE [loop EXCEPT !.absent = @ \ {i}]
  BY DEF Dogs!SubmitAbsent
<1>2. /\ latest' = [kind |-> "receipt_absent", about |-> i, begun |-> loop.begun, at |-> clock]
      /\ interrupts' = interrupts \cup {<<"receipt_absent", i>>}
      /\ UNCHANGED <<clock, notes, receipts, item, applying, suspended, looked>>
  BY <1>1 DEF Dogs!AddInterrupt, Dogs!SubmitAbsent
<1>3. i \in Items /\ Missed(i, loop.begun, clock)
  BY DogFacts DEF AbsentInv
<1>4. loop' \in LoopRecord /\ loop'.begun \in {0, loop.begun}
      /\ loop'.absent = loop.absent \ {i}
      /\ (loop'.at # "absent" => loop'.absent = {})
      /\ (loop'.absent # {} => loop' = [loop EXCEPT !.absent = @ \ {i}])
      /\ loop'.at \notin {"budget", "items"}
  <2>1. CASE loop.absent = {i}
    BY <1>1, <2>1 DEF Dogs!Asleep, LoopRecord
  <2>2. CASE loop.absent # {i}
    <3>1. loop' = [loop EXCEPT !.absent = @ \ {i}] /\ loop.at = "absent" /\ loop \in LoopRecord
      BY <1>1, <2>2 DEF Dogs!SubmitAbsent, DogTypeOK, LoopOK
    <3>2. loop.absent \ {i} \in SUBSET Items
      BY ClockFacts
    <3> QED
      BY <3>1, <3>2 DEF LoopRecord
  <2> QED
    BY <2>1, <2>2
<1>5. DogTypeOK'
  <2>1. LoopOK' /\ LatestOK'
    <3>1. loop' \in LoopRecord /\ loop'.begun \in {0, clock, loop.begun}
      BY <1>4
    <3>2. looked' \in {looked, clock} /\ clock' = clock
      BY <1>2, <1>3, <1>4
    <3>3. LatestOK'
      BY <1>2, <1>3, <1>4, ClockFacts DEF DogTypeOK, LatestOK, AlarmRecord
    <3> QED
      BY <3>1, <3>2, <3>3, ClockFacts DEF LoopOK
  <2> QED
    BY <1>2, <1>3, <1>4, <2>1, KeptTypes
<1>6. ReadInv'
  <2>1. CASE loop' = Dogs!Asleep
    BY <1>2, <2>1, DogFacts DEF ReadInv, Beginning, Dogs!Asleep
  <2>2. CASE loop' = [loop EXCEPT !.absent = @ \ {i}]
    BY <1>2, <1>4, <2>2, DogFacts DEF ReadInv, Beginning
  <2> QED
    BY <1>1, <2>1, <2>2
<1>7. AbsentInv'
  BY <1>2, <1>4, DogFacts DEF AbsentInv, Missed, Dogs!Answered
<1>8. StormsInv' /\ BudgetInv'
  BY <1>2 DEF StormsInv, BudgetInv
<1>9. LatestInv'
  BY <1>2, <1>3 DEF LatestInv, Missed, Dogs!Answered
<1>10. OnRecordInv'
  BY <1>2, <1>4 DEF OnRecordInv, Dogs!Answered
<1> QED
  BY <1>5, <1>6, <1>7, <1>8, <1>9, <1>10

LEMMA DogInvStep == Dogs!WatchdogsAssumption /\ DogInv /\ [Dogs!Next]_(Dogs!vars) => DogInv'
<1> SUFFICES ASSUME Dogs!WatchdogsAssumption, DogInv, [Dogs!Next]_(Dogs!vars)
             PROVE  DogInv'
  OBVIOUS
<1>1. CASE Dogs!Tick
  BY <1>1, DogTickStep
<1>2. CASE Dogs!AgentStep
  BY <1>2, DogAgentStep
<1>3. CASE Dogs!LoopStep
  BY <1>3, ReadNotesStep, ReadReceiptsStep, EvaluateStep, ReadItemsStep, SubmitAbsentStep
     DEF Dogs!LoopStep
<1>4. CASE UNCHANGED Dogs!vars
  <2>1. Beginning(notes, notes') /\ Beginning(receipts, receipts')
    BY <1>4, DogFacts DEF DogInv, Dogs!vars, Beginning
  <2>3. DogTypeOK'
    BY <1>4 DEF DogInv, DogTypeOK, NotesOK, ReceiptsOK, ItemsOK, LoopOK, LatestOK, Dogs!vars
  <2>2. Len(receipts) \in Nat
    BY DogFacts DEF DogInv
  <2> QED
    BY <1>4, <2>1, <2>2, <2>3, DogGrowStep, DogFacts DEF Dogs!vars, DogInv
<1> QED
  BY <1>1, <1>2, <1>3, <1>4 DEF Dogs!Next

LEMMA DogHolds == DogInv => Dogs!AlarmsAreTrue
<1> SUFFICES ASSUME DogInv
             PROVE  Dogs!AlarmsAreTrue
  OBVIOUS
<1>1. latest.kind = "velocity_high" =>
        \E n \in 0 .. Len(receipts) : /\ \A r \in 1 .. n : receipts[r].at <= latest.at
                                      /\ Dogs!OverBudget(SubSeq(receipts, 1, n))
  <2>1. \A list \in Excessive : Dogs!OverBudget(list)
    BY Zenon DEF Excessive
  <2> QED
    BY <2>1 DEF DogInv, BudgetInv
<1> QED
  BY <1>1, DogsCardinality
  DEF DogInv, StormsInv, LatestInv, OnRecordInv, Missed, Dogs!AlarmsAreTrue

\* _run_watchdogs: an alarm is true of the time it is raised at, whatever agents write between
\* its queries, and an overdue item that has no receipt is on record once items were read.
THEOREM AlarmsAreTrueTheorem == Spec => []AlarmsAreTrue
<1>1. Dogs!Init => DogInv
  BY DogInitInv, ServicesAssumption DEF ServicesAssumption
<1>2. DogInv /\ [Dogs!Next]_(Dogs!vars) => DogInv'
  BY DogInvStep, ServicesAssumption DEF ServicesAssumption
<1>3. DogInv => AlarmsAreTrue
  BY DogHolds DEF AlarmsAreTrue
<1> QED
  BY <1>1, <1>2, <1>3, DogsPart, PTL DEF Dogs!Spec

-----------------------------------------------------------------------------
(* Compute routing.                                                        *)
(* The rules that are built or sorted are in order and one for an id,      *)
(* whatever was in the file, the shipped one included (BuildFacts,         *)
(* UpsertFacts): a sort by the places of the rules is a permutation, as    *)
(* each place is taken once (EachPlace). What is in the files between two  *)
(* calls is inductive only with what each call has made of them so far     *)
(* (DoingFor): a call that has truncated a file has its text in hand.      *)

LEMMA RoutingPart == Spec => Routing!Spec
<1>1. [Next]_vars => [Routing!Next]_(Routing!vars)
  BY PartSteps DEF routingVars, Routing!vars
<1> QED
  BY <1>1, PartInits, PTL DEF Spec, Routing!Spec

-----------------------------------------------------------------------------
(* Order.                                                                  *)

\* The cardinality of the instance is that of the theorems about finite sets.
LEMMA RoutingCardinality == \A S : Routing!Cardinality(S) = Cardinality(S)
  BY Zenon DEF Routing!Cardinality, Cardinality

\* In a finite set whose members are in order there is one at each place.
LEMMA EachPlace ==
  ASSUME NEW S, IsFiniteSet(S), NEW upto \in [S -> SUBSET S],
         \A i \in S : i \in upto[i],
         \A i, j \in S :
             i # j => \/ upto[i] \subseteq upto[j] /\ j \notin upto[i]
                      \/ upto[j] \subseteq upto[i] /\ i \notin upto[j]
  PROVE  /\ Cardinality(S) \in Nat
         /\ \A n \in 1 .. Cardinality(S) :
                Routing!Nth(upto, n) \in S /\ Cardinality(upto[Routing!Nth(upto, n)]) = n
         /\ \A i \in S : \E n \in 1 .. Cardinality(S) : Routing!Nth(upto, n) = i
<1> DEFINE N == Cardinality(S)
           T == 1 .. N
           place == [i \in S |-> Cardinality(upto[i])]
<1>1. N \in Nat
  BY FS_CardinalityType
<1>2. ASSUME NEW i \in S
      PROVE  IsFiniteSet(upto[i]) /\ Cardinality(upto[i]) \in T
  <2>1. upto[i] \in SUBSET S
    OBVIOUS
  <2>2. IsFiniteSet(upto[i]) /\ Cardinality(upto[i]) <= N
    BY <2>1, FS_Subset
  <2>3. Cardinality(upto[i]) \in Nat
    BY <2>2, FS_CardinalityType
  <2>4. Cardinality(upto[i]) # 0
    BY <2>2, FS_EmptySet
  <2> QED
    BY <1>1, <2>2, <2>3, <2>4
<1>3. ASSUME NEW i \in S, NEW j \in S, upto[i] \subseteq upto[j], j \notin upto[i]
      PROVE  Cardinality(upto[i]) # Cardinality(upto[j])
  <2>1. upto[i] # upto[j]
    BY <1>3
  <2>2. IsFiniteSet(upto[j]) /\ upto[i] \in SUBSET upto[j]
    BY <1>2, <1>3
  <2> QED
    BY <2>1, <2>2, FS_Subset
<1>4. \A i, j \in S : i # j => Cardinality(upto[i]) # Cardinality(upto[j])
  <2> TAKE i, j \in S
  <2>1. CASE upto[i] \subseteq upto[j] /\ j \notin upto[i]
    BY <1>3, <2>1
  <2>2. CASE upto[j] \subseteq upto[i] /\ i \notin upto[j]
    BY <1>3, <2>2
  <2> QED
    BY <2>1, <2>2
<1>5. place \in Injection(S, T)
  <2>1. place \in [S -> T]
    BY <1>2
  <2>2. \A i, j \in S : place[i] = place[j] => i = j
    BY <1>4
  <2> QED
    BY <2>1, <2>2 DEF Injection, IsInjective
<1>6. IsFiniteSet(T) /\ Cardinality(T) = N
  <2>1. 1 \in Int /\ N \in Int
    BY <1>1
  <2>2. IsFiniteSet(1 .. N) /\ Cardinality(1 .. N) = IF 1 > N THEN 0 ELSE N - 1 + 1
    BY <2>1, FS_Interval
  <2> QED
    BY <1>1, <2>2
<1>7. place \in Surjection(S, T)
  <2> HIDE DEF place, T
  <2> QED
    BY <1>5, <1>6, FS_Injection DEF N
<1>8. \A n \in T : \E i \in S : Cardinality(upto[i]) = n
  BY <1>7 DEF Surjection
<1>9. ASSUME NEW n \in T
      PROVE  Routing!Nth(upto, n) \in S /\ Cardinality(upto[Routing!Nth(upto, n)]) = n
  <2>1. DOMAIN upto = S
    OBVIOUS
  <2>2. \E i \in DOMAIN upto : Cardinality(upto[i]) = n
    BY <1>8, <2>1
  <2>3. Routing!Nth(upto, n) \in DOMAIN upto /\ Cardinality(upto[Routing!Nth(upto, n)]) = n
    BY <2>2, RoutingCardinality, Zenon DEF Routing!Nth
  <2> QED
    BY <2>1, <2>3
<1>10. ASSUME NEW i \in S
       PROVE  \E n \in T : Routing!Nth(upto, n) = i
  <2>1. PICK n \in T : n = Cardinality(upto[i])
    BY <1>2
  <2>2. Routing!Nth(upto, n) \in S
          /\ Cardinality(upto[Routing!Nth(upto, n)]) = Cardinality(upto[i])
    BY <1>9, <2>1
  <2> QED
    BY <1>4, <2>2
<1> QED
  BY <1>1, <1>9, <1>10

\* The rules an interview may make, in their order.
RuleIds == << "gaming_process_nvidia", "inference_offload_when_gaming", "rendering_amd_vulkan",
          "image_generation_nvidia", "transcription_routing", "inference_large_model_nvidia",
          "inference_medium_model", "inference_small_model", "rag_inference",
          "embedding_npu", "inference_cpu_during_gaming", "cpu_fallback" >>

WellKept(rules) == Routing!OneRuleEach(rules) /\ Routing!InOrder(rules)

\* The rules there may be.
AnyRule ==
    NewRules \cup Routing!ById(Routing!Shipped)
        \cup [id : {RuleIds[i] : i \in 1 .. 12}, target : Routing!Targets,
              fallback : Routing!Targets \cup {"none"}, priority : Int]

\* The shipped rules have an id each, but are not in order.
LEMMA ShippedFacts ==
  /\ DOMAIN Routing!Shipped = 1 .. 6 /\ Routing!Shipped \in Seq(AnyRule)
  /\ Routing!OneRuleEach(Routing!Shipped)
  /\ \A r \in Routing!ById(Routing!Shipped) : r.priority \in Int
<1>1. /\ DOMAIN Routing!Shipped = 1 .. 6 /\ Len(Routing!Shipped) = 6
      /\ Routing!Shipped \in Seq({Routing!Shipped[i] : i \in 1 .. 6})
  BY DEF Routing!Shipped
<1>2. \A i \in 1 .. 6 : i \in {1, 2, 3, 4, 5, 6}
  OBVIOUS
<1>3. \A i \in {1, 2, 3, 4, 5, 6} : Routing!Shipped[i].priority \in Int
  BY DEF Routing!Shipped
<1>4. \A i, j \in {1, 2, 3, 4, 5, 6} : i # j => Routing!Shipped[i].id # Routing!Shipped[j].id
  BY DEF Routing!Shipped
<1>5. Routing!ById(Routing!Shipped) = {Routing!Shipped[i] : i \in 1 .. 6}
        /\ Routing!ById(Routing!Shipped) \subseteq AnyRule
  BY <1>1 DEF Routing!ById, AnyRule
<1>6. Routing!Shipped \in Seq(AnyRule)
  BY <1>1, <1>5
<1>7. Routing!OneRuleEach(Routing!Shipped)
  BY <1>1, <1>2, <1>4 DEF Routing!OneRuleEach
<1>8. \A r \in Routing!ById(Routing!Shipped) : r.priority \in Int
  BY <1>2, <1>3, <1>5
<1> QED
  BY <1>1, <1>6, <1>7, <1>8

LEMMA RuleFacts ==
  ASSUME Routing!RoutingAssumption, NEW r \in AnyRule
  PROVE  r.priority \in Int
BY ShippedFacts DEF Routing!RoutingAssumption, AnyRule

\* What the sort does with rules.
LEMMA SortedFacts ==
  ASSUME Routing!RoutingAssumption, NEW rules \in Seq(AnyRule)
  PROVE  /\ Routing!Sorted(rules) \in Seq(AnyRule)
         /\ Routing!ById(Routing!Sorted(rules)) = Routing!ById(rules)
         /\ (\A i, j \in DOMAIN rules : i # j => rules[i].id # rules[j].id)
              => WellKept(Routing!Sorted(rules))
<1> DEFINE N == Len(rules)
           D == 1 .. N
           Before(i, j) == \/ rules[i].priority > rules[j].priority
                           \/ rules[i].priority = rules[j].priority /\ i <= j
           upto == [j \in D |-> {i \in D : Before(i, j)}]
           inOrder == [n \in D |-> rules[Routing!Nth(upto, n)]]
<1>1. DOMAIN rules = D /\ N \in Nat /\ \A i \in D : rules[i] \in AnyRule
  OBVIOUS
<1>2. \A i \in D : rules[i].priority \in Int /\ i \in Int
  BY <1>1, RuleFacts
<1>3. Routing!Sorted(rules) = inOrder
  BY <1>1 DEF Routing!Sorted
<1>4. upto \in [D -> SUBSET D] /\ \A i \in D : i \in upto[i]
  BY <1>2
<1>5. ASSUME NEW i \in D, NEW j \in D, Before(i, j), i # j
      PROVE  upto[i] \subseteq upto[j] /\ j \notin upto[i]
  <2>1. ~Before(j, i)
    BY <1>2, <1>5
  <2>2. \A k \in D : Before(k, i) => Before(k, j)
    BY <1>2, <1>5
  <2> HIDE DEF Before
  <2> QED
    BY <2>1, <2>2
<1>6. \A i, j \in D : Before(i, j) \/ Before(j, i)
  BY <1>2
<1>7. \A i, j \in D :
        i # j => \/ upto[i] \subseteq upto[j] /\ j \notin upto[i]
                 \/ upto[j] \subseteq upto[i] /\ i \notin upto[j]
  <2> HIDE DEF Before, upto
  <2> QED
    BY <1>5, <1>6
<1>8. IsFiniteSet(D) /\ Cardinality(D) = N
  <2>1. 1 \in Int /\ N \in Int
    BY <1>1
  <2>2. IsFiniteSet(1 .. N) /\ Cardinality(1 .. N) = IF 1 > N THEN 0 ELSE N - 1 + 1
    BY <2>1, FS_Interval
  <2> QED
    BY <1>1, <2>2
<1>9. /\ \A n \in D : Routing!Nth(upto, n) \in D /\ Cardinality(upto[Routing!Nth(upto, n)]) = n
      /\ \A i \in D : \E n \in D : Routing!Nth(upto, n) = i
  <2> HIDE DEF upto, D
  <2>1. /\ \A n \in 1 .. Cardinality(D) :
               Routing!Nth(upto, n) \in D /\ Cardinality(upto[Routing!Nth(upto, n)]) = n
        /\ \A i \in D : \E n \in 1 .. Cardinality(D) : Routing!Nth(upto, n) = i
    BY <1>4, <1>7, <1>8, EachPlace
  <2> QED
    BY <2>1, <1>8 DEF D
<1> HIDE DEF inOrder
<1>10. /\ inOrder \in Seq(AnyRule) /\ DOMAIN inOrder = D
       /\ \A n \in D : inOrder[n] = rules[Routing!Nth(upto, n)]
  <2> HIDE DEF upto
  <2>1. inOrder = [n \in D |-> rules[Routing!Nth(upto, n)]]
    BY DEF inOrder
  <2>2. inOrder \in [D -> AnyRule]
    BY <1>1, <1>9, <2>1
  <2> QED
    BY <1>1, <2>1, <2>2
<1>11. Routing!ById(inOrder) = Routing!ById(rules)
  <2> HIDE DEF upto
  <2>1. \A n \in D : \E i \in D : inOrder[n] = rules[i]
    BY <1>9, <1>10
  <2>2. \A i \in D : \E n \in D : inOrder[n] = rules[i]
    BY <1>9, <1>10
  <2> QED
    <3>1. Routing!ById(inOrder) = {inOrder[n] : n \in D}
            /\ Routing!ById(rules) = {rules[i] : i \in D}
      BY <1>1, <1>10 DEF Routing!ById
    <3> HIDE DEF D
    <3> QED
      BY <2>1, <2>2, <3>1
<1>12. ASSUME NEW n \in D, NEW m \in D, n < m
       PROVE  /\ Routing!Nth(upto, n) # Routing!Nth(upto, m)
              /\ rules[Routing!Nth(upto, n)].priority >= rules[Routing!Nth(upto, m)].priority
  <2> DEFINE i == Routing!Nth(upto, n)
             j == Routing!Nth(upto, m)
  <2>1. i \in D /\ j \in D /\ Cardinality(upto[i]) = n /\ Cardinality(upto[j]) = m
    BY <1>9
  <2> HIDE DEF i, j
  <2>2. i # j
    <3> HIDE DEF upto
    <3> QED
      BY <1>1, <1>12, <2>1
  <2>3. ~Before(j, i)
    <3> SUFFICES ASSUME Before(j, i)
                 PROVE  FALSE
      OBVIOUS
    <3>1. upto[j] \subseteq upto[i]
      <4> HIDE DEF Before, upto
      <4> QED
        BY <1>5, <2>1, <2>2
    <3> HIDE DEF Before, upto
    <3>2. IsFiniteSet(upto[i])
      BY <1>4, <1>8, <2>1, FS_Subset
    <3>3. upto[j] \in SUBSET upto[i]
      BY <3>1
    <3>4. Cardinality(upto[j]) <= Cardinality(upto[i])
      BY <3>2, <3>3, FS_Subset
    <3> QED
      BY <1>1, <1>12, <2>1, <3>4
  <2>4. rules[i].priority >= rules[j].priority
    BY <1>2, <2>1, <2>3
  <2> QED
    BY <2>2, <2>4 DEF i, j
<1>13. ASSUME \A i, j \in D : i # j => rules[i].id # rules[j].id
       PROVE  WellKept(inOrder)
  <2> SUFFICES ASSUME NEW n \in D, NEW m \in D, n < m
               PROVE  /\ inOrder[n].id # inOrder[m].id
                      /\ inOrder[n].priority >= inOrder[m].priority
    BY <1>10 DEF WellKept, Routing!OneRuleEach, Routing!InOrder
  <2> HIDE DEF upto
  <2>1. /\ Routing!Nth(upto, n) # Routing!Nth(upto, m)
        /\ rules[Routing!Nth(upto, n)].priority >= rules[Routing!Nth(upto, m)].priority
    BY <1>12
  <2>2. /\ Routing!Nth(upto, n) \in D /\ Routing!Nth(upto, m) \in D
        /\ inOrder[n] = rules[Routing!Nth(upto, n)] /\ inOrder[m] = rules[Routing!Nth(upto, m)]
    BY <1>9, <1>10
  <2>3. rules[Routing!Nth(upto, n)].id # rules[Routing!Nth(upto, m)].id
    BY <1>13, <2>1, <2>2
  <2> QED
    BY <2>1, <2>2, <2>3
<1> QED
  BY <1>1, <1>3, <1>10, <1>11, <1>13

\* What _upsert does with rules of one id each, in whatever order.
LEMMA UpsertFacts ==
  ASSUME Routing!RoutingAssumption, NEW rules \in Seq(AnyRule), Routing!OneRuleEach(rules),
         NEW new \in AnyRule
  PROVE  /\ Routing!Upsert(rules, new) \in Seq(AnyRule) /\ WellKept(Routing!Upsert(rules, new))
         /\ Routing!ById(Routing!Upsert(rules, new))
              = {r \in Routing!ById(rules) : r.id # new.id} \cup {new}
<1> DEFINE same == {i \in DOMAIN rules : rules[i].id = new.id}
           at == CHOOSE i \in same : \A j \in same : i <= j
           list == IF same = {} THEN Append(rules, new) ELSE [rules EXCEPT ![at] = new]
           N == Len(rules)
<1>1. DOMAIN rules = 1 .. N /\ N \in Nat /\ \A i \in 1 .. N : rules[i] \in AnyRule
  OBVIOUS
<1>2. \A i, j \in 1 .. N : i # j => rules[i].id # rules[j].id
  <2> TAKE i, j \in 1 .. N
  <2>1. i < j \/ j < i \/ i = j
    OBVIOUS
  <2> QED
    BY <1>1, <2>1 DEF WellKept, Routing!OneRuleEach, Routing!InOrder
<1>3. /\ list \in Seq(AnyRule)
      /\ \A i, j \in DOMAIN list : i # j => list[i].id # list[j].id
      /\ Routing!ById(list) = {r \in Routing!ById(rules) : r.id # new.id} \cup {new}
  <2>1. CASE same = {}
    <3>1. list = Append(rules, new)
      BY <2>1
    <3> HIDE DEF list, at
    <3>2. /\ list \in Seq(AnyRule) /\ DOMAIN list = 1 .. N + 1 /\ list[N + 1] = new
          /\ \A i \in 1 .. N : list[i] = rules[i]
      BY <1>1, <3>1
    <3>3. \A i \in 1 .. N : rules[i].id # new.id
      BY <1>1, <2>1
    <3>4. \A i \in 1 .. N + 1 : i = N + 1 \/ i \in 1 .. N
      BY <1>1
    <3>5. N + 1 \in 1 .. N + 1 /\ N + 1 \notin 1 .. N /\ 1 .. N \subseteq 1 .. N + 1
      BY <1>1
    <3>6. \A i, j \in 1 .. N + 1 : i # j => list[i].id # list[j].id
      <4> TAKE i, j \in 1 .. N + 1
      <4> QED
        BY <1>2, <3>2, <3>3, <3>4
    <3>7. Routing!ById(list) = {r \in Routing!ById(rules) : r.id # new.id} \cup {new}
      BY <1>1, <3>2, <3>3, <3>4, <3>5 DEF Routing!ById
    <3> QED
      BY <3>2, <3>6, <3>7
  <2>2. CASE same # {}
    <3>1. PICK k \in 1 .. N : k \in same
      BY <1>1, <2>2
    <3>2. \A j \in same : j = k
      BY <1>1, <1>2, <3>1
    <3>3. at = k
      <4>1. \E i \in same : \A j \in same : i <= j
        BY <3>1, <3>2
      <4>2. at \in same
        <5> HIDE DEF same
        <5> QED
          BY <4>1, Zenon
      <4> QED
        BY <3>2, <4>2
    <3>4. list = [rules EXCEPT ![k] = new]
      BY <2>2, <3>3
    <3> HIDE DEF list, at
    <3>5. /\ list \in Seq(AnyRule) /\ DOMAIN list = 1 .. N /\ list[k] = new
          /\ \A i \in 1 .. N : i # k => list[i] = rules[i]
      BY <1>1, <3>1, <3>4
    <3>6. \A i \in 1 .. N : i # k => rules[i].id # new.id
      BY <1>1, <3>2
    <3>7. rules[k].id = new.id
      BY <3>1
    <3> HIDE DEF same
    <3>8. \A i, j \in 1 .. N : i # j => list[i].id # list[j].id
      BY <1>2, <3>5, <3>6
    <3>9. Routing!ById(list) = {r \in Routing!ById(rules) : r.id # new.id} \cup {new}
      BY <1>1, <3>5, <3>6, <3>7 DEF Routing!ById
    <3> QED
      BY <3>5, <3>8, <3>9
  <2> QED
    BY <2>1, <2>2
<1>4. Routing!Upsert(rules, new) = Routing!Sorted(list)
  BY DEF Routing!Upsert
<1> HIDE DEF list, same, at
<1> QED
  BY <1>3, <1>4, SortedFacts

LEMMA OffersFacts ==
  ASSUME NEW yes
  PROVE  /\ DOMAIN Routing!Offers(yes) = 1 .. 12
         /\ \A i \in 1 .. 12 : /\ Routing!Offers(yes)[i].id = RuleIds[i]
                               /\ Routing!Offers(yes)[i].target \in Routing!Targets
                               /\ Routing!Offers(yes)[i].fallback
                                    \in Routing!Targets \cup {"none"}
<1>1. \A i \in 1 .. 12 : i \in {1, 2, 3, 4, 5, 6, 7, 8, 9, 10, 11, 12}
  OBVIOUS
<1>2. DOMAIN Routing!Offers(yes) = 1 .. 12
  BY DEF Routing!Offers
<1>3. ASSUME NEW i \in {1, 2, 3, 4, 5, 6, 7, 8, 9, 10, 11, 12}
      PROVE  /\ Routing!Offers(yes)[i].id = RuleIds[i]
             /\ Routing!Offers(yes)[i].target \in Routing!Targets
             /\ Routing!Offers(yes)[i].fallback \in Routing!Targets \cup {"none"}
  BY <1>3 DEF Routing!Offers, RuleIds, Routing!Targets
<1> QED
  BY <1>1, <1>2, <1>3

LEMMA IdsFacts ==
  /\ \A i, j \in 1 .. 12 : i # j => RuleIds[i] # RuleIds[j]
  /\ \A i \in 1 .. 12 : RuleIds[i] = "cpu_fallback" => i = 12
<1>1. \A i \in 1 .. 12 : i \in {1, 2, 3, 4, 5, 6, 7, 8, 9, 10, 11, 12}
  OBVIOUS
<1>2. \A i, j \in {1, 2, 3, 4, 5, 6, 7, 8, 9, 10, 11, 12} : i # j => RuleIds[i] # RuleIds[j]
  BY DEF RuleIds
<1>3. RuleIds[12] = "cpu_fallback" /\ 12 \in 1 .. 12
  BY DEF RuleIds
<1> QED
  BY <1>1, <1>2, <1>3

\* What an interview makes is well kept.
LEMMA BuildFacts ==
  ASSUME NEW yes
  PROVE  Routing!BuildRules(yes) \in Seq(AnyRule) /\ WellKept(Routing!BuildRules(yes))
<1> DEFINE offers == Routing!Offers(yes)
           chosen == {i \in DOMAIN offers : offers[i].when}
           N == Cardinality(chosen)
           upto == [i \in chosen |-> {j \in chosen : j <= i}]
           built == [n \in 1 .. N |-> Routing!BuildRule(offers[Routing!Nth(upto, n)], n)]
<1>1. Routing!BuildRules(yes) = built
  BY RoutingCardinality DEF Routing!BuildRules
<1>2. chosen \in SUBSET (1 .. 12)
  BY OffersFacts
<1> HIDE DEF chosen, offers
<1>3. IsFiniteSet(chosen) /\ N \in Nat /\ N <= 12
  <2>1. IsFiniteSet(1 .. 12) /\ Cardinality(1 .. 12) = IF 1 > 12 THEN 0 ELSE 12 - 1 + 1
    <3>1. 1 \in Int /\ 12 \in Int
      OBVIOUS
    <3> QED
      BY <3>1, FS_Interval
  <2>2. Cardinality(1 .. 12) = 12
    BY <2>1
  <2>3. IsFiniteSet(chosen) /\ Cardinality(chosen) <= Cardinality(1 .. 12)
    BY <1>2, <2>1, FS_Subset
  <2>4. Cardinality(chosen) \in Nat
    BY <2>3, FS_CardinalityType
  <2> QED
    BY <2>2, <2>3, <2>4
<1>4. \A i \in chosen : i \in Int /\ i \in 1 .. 12
  BY <1>2
<1>5. upto \in [chosen -> SUBSET chosen] /\ \A i \in chosen : i \in upto[i]
  BY <1>4
<1>6. \A i, j \in chosen :
        i # j => \/ upto[i] \subseteq upto[j] /\ j \notin upto[i]
                 \/ upto[j] \subseteq upto[i] /\ i \notin upto[j]
  <2> TAKE i, j \in chosen
  <2>1. CASE i < j
    BY <1>4, <2>1
  <2>2. CASE j < i
    BY <1>4, <2>2
  <2> QED
    BY <1>4, <2>1, <2>2
<1>7. \A n \in 1 .. N : Routing!Nth(upto, n) \in chosen
        /\ Cardinality(upto[Routing!Nth(upto, n)]) = n
  <2> HIDE DEF upto
  <2> QED
    BY <1>3, <1>5, <1>6, EachPlace
<1>8. ASSUME NEW n \in 1 .. N, NEW m \in 1 .. N, n < m
      PROVE  Routing!Nth(upto, n) < Routing!Nth(upto, m)
  <2> DEFINE i == Routing!Nth(upto, n)
             j == Routing!Nth(upto, m)
  <2>1. i \in chosen /\ j \in chosen /\ Cardinality(upto[i]) = n /\ Cardinality(upto[j]) = m
    BY <1>7
  <2> HIDE DEF i, j
  <2>2. ASSUME j <= i
        PROVE  FALSE
    <3>1. upto[j] \in SUBSET upto[i]
      BY <1>4, <2>1, <2>2
    <3> HIDE DEF upto
    <3>2. IsFiniteSet(upto[i])
      BY <1>3, <1>5, <2>1, FS_Subset
    <3>3. Cardinality(upto[j]) <= Cardinality(upto[i])
      BY <3>1, <3>2, FS_Subset
    <3> QED
      BY <1>3, <1>8, <2>1, <3>3
  <2> QED
    BY <1>4, <2>1, <2>2 DEF i, j
<1> HIDE DEF upto
<1>9. ASSUME NEW n \in 1 .. N
      PROVE  /\ built[n].id = RuleIds[Routing!Nth(upto, n)]
             /\ built[n].priority = IF Routing!Nth(upto, n) = 12 THEN 1 ELSE 105 - 5 * n
             /\ built[n] \in AnyRule
  <2>1. Routing!Nth(upto, n) \in 1 .. 12
    BY <1>4, <1>7
  <2> DEFINE i == Routing!Nth(upto, n)
  <2> HIDE DEF i
  <2>2. /\ offers[i].id = RuleIds[i]
        /\ offers[i].target \in Routing!Targets
        /\ offers[i].fallback \in Routing!Targets \cup {"none"}
    BY <2>1, OffersFacts DEF offers, i
  <2>3. RuleIds[i] = "cpu_fallback" <=> i = 12
    BY <2>1, IdsFacts DEF i, RuleIds
  <2>4. built[n] = Routing!BuildRule(offers[i], n)
    BY DEF i
  <2> HIDE DEF built
  <2>5. /\ built[n].id = RuleIds[i]
        /\ built[n].priority = IF i = 12 THEN 1 ELSE 105 - 5 * n
    BY <2>2, <2>3, <2>4 DEF Routing!BuildRule
  <2>6. built[n] \in [id : {RuleIds[k] : k \in 1 .. 12}, target : Routing!Targets,
                    fallback : Routing!Targets \cup {"none"}, priority : Int]
    <3>1. 105 - 5 * n \in Int
      BY <1>3
    <3> QED
      BY <2>1, <2>2, <2>4, <3>1 DEF Routing!BuildRule, i
  <2> QED
    BY <2>5, <2>6 DEF AnyRule, i
<1>10. built \in Seq(AnyRule) /\ DOMAIN built = 1 .. N
  <2>1. built \in [1 .. N -> AnyRule]
    BY <1>9
  <2> QED
    BY <1>3, <2>1
<1> HIDE DEF built
<1>11. ASSUME NEW n \in 1 .. N, NEW m \in 1 .. N, n < m
       PROVE  built[n].id # built[m].id /\ built[n].priority >= built[m].priority
  <2>1. Routing!Nth(upto, n) \in 1 .. 12 /\ Routing!Nth(upto, m) \in 1 .. 12
    BY <1>4, <1>7
  <2>2. Routing!Nth(upto, n) < Routing!Nth(upto, m)
    BY <1>8, <1>11
  <2>3. built[n].id # built[m].id
    BY <1>9, <2>1, <2>2, IdsFacts
  <2>4. built[n].priority = 105 - 5 * n
    BY <1>9, <2>1, <2>2
  <2>5. built[m].priority = 1 \/ built[m].priority = 105 - 5 * m
    BY <1>9
  <2>6. n <= 12 /\ n \in Nat /\ m \in Nat
    BY <1>3
  <2> QED
    BY <1>11, <2>3, <2>4, <2>5, <2>6
<1>12. WellKept(built)
  BY <1>10, <1>11 DEF WellKept, Routing!OneRuleEach, Routing!InOrder
<1> QED
  BY <1>1, <1>10, <1>12

-----------------------------------------------------------------------------
RoutingRecord == [at : {"idle", "read", "open", "write", "create", "load", "save", "save write",
                     "commit", "commit write", "unlink"}, rule : NewRules \cup {<<>>},
                       meant : Nat, index : Nat,
               answers : Seq(Nat), rules : Seq(AnyRule)]
SessionRecord == [is : {"absent", "empty", "torn", "there"}, index : Nat, answers : Seq(Nat)]
FileRecord == [is : {"absent", "empty", "torn", "there"}, rules : Seq(AnyRule)]

FilesTypeOK ==
    /\ file \in FileRecord
    /\ session \in SessionRecord
    /\ shown \in Nat
    /\ spent \in [{"calls", "faults"} -> Nat]
    /\ routingOverlaps \in BOOLEAN

\* What is in a file that is not torn is what was shipped or is well kept, and what a call may
\* write there is well kept.
KeptFile(f) == f.is # "torn"
  => Routing!OneRuleEach(f.rules) /\ (f.rules = Routing!Shipped \/ Routing!InOrder(f.rules))
KeptCall(r) == WellKept(r.rules) /\ (r.at \in {"read", "open", "write"} => r.rule \in NewRules)

-----------------------------------------------------------------------------
(* As long as calls do not overlap and nothing fails.                      *)

RoutingCalm == ~routingOverlaps /\ spent["faults"] = 0

\* The rules are those the calls were told of.
FileOK == file.is \in {"absent", "there"} /\ Routing!ById(file.rules) = rulebook

\* The first n answers are to the first n questions.
Counted(n, answers) == Len(answers) = n /\ \A i \in 1 .. n : answers[i] = i

\* The operator sees the question after those that were answered.
SessionOK ==
    \/ session = Routing!NoSession /\ shown = 0
    \/ /\ session.is = "there" /\ session.index < Questions
       /\ Counted(session.index, session.answers)
       /\ shown = session.index + 1

\* What call c has made of the files so far, and what it will write.
DoingFor(c) ==
    /\ IF routingCall[c].at \in {"write", "commit write"} THEN file = Routing!File("empty", <<>>)
         ELSE FileOK
    /\ IF routingCall[c].at = "save write" THEN session.answers = <<>> /\ session.is = "empty"
       ELSE SessionOK
    /\ routingCall[c].at \in {"open", "write"} =>
           Routing!ById(routingCall[c].rules)
             = {r \in rulebook : r.id # routingCall[c].rule.id} \cup {routingCall[c].rule}
    /\ routingCall[c].at = "load" => routingCall[c].meant = shown /\ shown # 0
    /\ routingCall[c].at \in {"save", "save write"} =>
           Counted(routingCall[c].index, routingCall[c].answers)
             /\ routingCall[c].index < Questions

OneAtATime == \A c,
  d \in Calls : c # d => routingCall[c] = Routing!Idle \/ routingCall[d] = Routing!Idle

RoutingCalmInv ==
    RoutingCalm =>
      /\ OneAtATime
      /\ (\A c \in Calls : routingCall[c] = Routing!Idle) => FileOK /\ SessionOK
      /\ \A c \in Calls : routingCall[c] # Routing!Idle => DoingFor(c)

RoutingInv ==
    /\ FilesTypeOK /\ KeptFile(file)
    /\ routingCall \in [Calls -> RoutingRecord] /\ \A c \in Calls : KeptCall(routingCall[c])
    /\ RoutingCalmInv

-----------------------------------------------------------------------------
LEMMA IdleCall == Routing!Idle \in RoutingRecord /\ KeptCall(Routing!Idle)
  /\ Routing!Idle.at = "idle" /\ Routing!Idle.rules = <<>>
<1>1. <<>> \in Seq(Nat) /\ <<>> \in Seq(AnyRule)
  OBVIOUS
<1> QED
  BY <1>1 DEF Routing!Idle, RoutingRecord, KeptCall, WellKept, Routing!OneRuleEach,
     Routing!InOrder

LEMMA RoutingInitInv == Routing!RoutingAssumption /\ Routing!Init => RoutingInv
<1> SUFFICES ASSUME Routing!RoutingAssumption, Routing!Init
             PROVE  RoutingInv
  OBVIOUS
<1>1. <<>> \in Seq(Nat) /\ <<>> \in Seq(AnyRule) /\ WellKept(<<>>)
  BY DEF WellKept, Routing!OneRuleEach, Routing!InOrder
<1>2. file \in FileRecord /\ KeptFile(file) /\ FileOK
  <2>1. PICK is \in {"absent", "there"},
          rules \in {<<>>, Routing!Shipped} : file = Routing!File(is, rules)
    BY DEF Routing!Init
  <2>2. file.is = is /\ file.rules = rules /\ rulebook = Routing!ById(rules)
    BY <2>1 DEF Routing!Init, Routing!File
  <2>3. rules \in Seq(AnyRule) /\ Routing!OneRuleEach(rules)
          /\ (rules = Routing!Shipped \/ Routing!InOrder(rules))
    BY <1>1, ShippedFacts DEF WellKept
  <2>4. file \in FileRecord
    BY <2>1, <2>3 DEF Routing!File, FileRecord
  <2> QED
    BY <2>2, <2>3, <2>4 DEF KeptFile, FileOK
<1>3. session \in SessionRecord /\ shown \in Nat /\ routingOverlaps \in BOOLEAN /\ SessionOK
  BY <1>1 DEF Routing!Init, Routing!NoSession, SessionRecord, SessionOK
<1>4. spent \in [{"calls", "faults"} -> Nat]
  BY DEF Routing!Init, Routing!Limits
<1>5. routingCall \in [Calls -> RoutingRecord] /\ \A c \in Calls : KeptCall(routingCall[c])
        /\ routingCall[c] = Routing!Idle
  BY IdleCall DEF Routing!Init
<1> QED
  BY <1>2, <1>3, <1>4, <1>5 DEF RoutingInv, FilesTypeOK, RoutingCalmInv, OneAtATime

\* A call comes in, and has not changed anything.
LEMMA RoutingBeginStep ==
  ASSUME RoutingInv, NEW c \in Calls, NEW new \in RoutingRecord, KeptCall(new),
         new.at \in {"read", "create", "load"}, new.at = "load" => new.meant = shown /\ shown # 0,
         Routing!Begin(c, new), UNCHANGED <<file, session, shown, rulebook>>
  PROVE  RoutingInv'
<1>1. /\ routingCall' = [routingCall EXCEPT ![c] = new]
      /\ routingCall \in [Calls -> RoutingRecord] /\ routingCall[c] = Routing!Idle
      /\ routingOverlaps'
           = (routingOverlaps \/ \E d \in Calls \ {c} : routingCall[d] # Routing!Idle)
      /\ FilesTypeOK
  BY DEF Routing!Begin, RoutingInv
<1>2. /\ routingCall' \in [Calls -> RoutingRecord] /\ routingCall'[c] = new
      /\ \A d \in Calls : d # c => routingCall'[d] = routingCall[d]
  BY <1>1
<1>3. spent' \in [{"calls", "faults"} -> Nat] /\ spent'["faults"] = spent["faults"]
  BY <1>1 DEF Routing!Begin, Routing!Spend, FilesTypeOK
<1>4. FilesTypeOK' /\ KeptFile(file)'
  <2>1. routingOverlaps' \in BOOLEAN
    BY <1>1
  <2> QED
    BY <1>1, <1>3, <2>1 DEF FilesTypeOK, KeptFile, RoutingInv
<1>5. \A d \in Calls : KeptCall(routingCall'[d])
  BY <1>2 DEF RoutingInv
<1>6. RoutingCalmInv'
  <2> SUFFICES ASSUME RoutingCalm'
               PROVE  /\ OneAtATime'
                      /\ (\A d \in Calls : routingCall'[d] = Routing!Idle)
                           => FileOK' /\ SessionOK'
                      /\ \A d \in Calls : routingCall'[d] # Routing!Idle => DoingFor(d)'
    BY DEF RoutingCalmInv
  <2>1. ~routingOverlaps' /\ spent'["faults"] = 0
    BY DEF RoutingCalm
  <2>2. \A d \in Calls : routingCall[d] = Routing!Idle
    BY <1>1, <2>1
  <2>3. ~routingOverlaps
    BY <1>1, <2>1
  <2>4. FileOK /\ SessionOK
    BY <1>3, <2>1, <2>2, <2>3 DEF RoutingInv, RoutingCalmInv, RoutingCalm
  <2>5. FileOK' /\ SessionOK'
    BY <2>4 DEF FileOK, SessionOK
  <2>6. DoingFor(c)'
    BY <1>2, <2>5 DEF DoingFor
  <2> QED
    BY <1>2, <2>2, <2>5, <2>6 DEF OneAtATime
<1> QED
  BY <1>2, <1>4, <1>5, <1>6 DEF RoutingInv

\* A call takes a step, or responds, that keeps what it says of the files.
LEMMA RoutingCallStep ==
  ASSUME RoutingInv, NEW c \in Calls, routingCall[c] # Routing!Idle, NEW new \in RoutingRecord,
         KeptCall(new),
         routingCall' = [routingCall EXCEPT ![c] = new], UNCHANGED routingOverlaps,
         file' \in FileRecord, KeptFile(file'), session' \in SessionRecord, shown' \in Nat,
         spent' \in [{"calls", "faults"} -> Nat], spent'["faults"] >= spent["faults"],
         RoutingCalm /\ DoingFor(c) /\ spent'["faults"] = 0 =>
             IF new = Routing!Idle THEN FileOK' /\ SessionOK' ELSE DoingFor(c)'
  PROVE  RoutingInv'
<1>1. FilesTypeOK /\ routingCall \in [Calls -> RoutingRecord]
  BY DEF RoutingInv
<1>2. /\ routingCall' \in [Calls -> RoutingRecord] /\ routingCall'[c] = new
      /\ \A d \in Calls : d # c => routingCall'[d] = routingCall[d]
  BY <1>1
<1>3. FilesTypeOK' /\ KeptFile(file)'
  BY <1>1 DEF FilesTypeOK, KeptFile
<1>4. \A d \in Calls : KeptCall(routingCall'[d])
  BY <1>2 DEF RoutingInv
<1>5. RoutingCalmInv'
  <2> SUFFICES ASSUME RoutingCalm'
               PROVE  /\ OneAtATime'
                      /\ (\A d \in Calls : routingCall'[d] = Routing!Idle)
                           => FileOK' /\ SessionOK'
                      /\ \A d \in Calls : routingCall'[d] # Routing!Idle => DoingFor(d)'
    BY DEF RoutingCalmInv
  <2>1. spent'["faults"] = 0 /\ spent["faults"] \in Nat
    BY <1>1 DEF RoutingCalm, FilesTypeOK
  <2>2. spent["faults"] = 0
    BY <2>1
  <2>3. RoutingCalm
    BY <2>2 DEF RoutingCalm
  <2>4. DoingFor(c) /\ \A d \in Calls : d # c => routingCall[d] = Routing!Idle
    BY <2>3 DEF RoutingInv, RoutingCalmInv, OneAtATime
  <2>5. IF new = Routing!Idle THEN FileOK' /\ SessionOK' ELSE DoingFor(c)'
    BY <2>1, <2>3, <2>4
  <2> QED
    BY <1>2, <2>4, <2>5 DEF OneAtATime
<1> QED
  BY <1>2, <1>3, <1>4, <1>5 DEF RoutingInv

LEMMA RoutingTypes ==
  ASSUME RoutingInv, NEW c \in Calls
  PROVE  /\ routingCall[c] \in RoutingRecord /\ KeptCall(routingCall[c])
         /\ routingCall \in [Calls -> RoutingRecord]
         /\ file \in FileRecord /\ KeptFile(file) /\ session \in SessionRecord /\ shown \in Nat
         /\ spent \in [{"calls", "faults"} -> Nat] /\ spent["faults"] >= spent["faults"]
         /\ routingCall[c].at # "idle" => routingCall[c] # Routing!Idle
<1>1. spent["faults"] \in Nat
  BY DEF RoutingInv, FilesTypeOK
<1> QED
  BY <1>1, IdleCall DEF RoutingInv, FilesTypeOK

LEMMA FaultFacts ==
  ASSUME RoutingInv, Routing!Spend("faults")
  PROVE  /\ spent' \in [{"calls", "faults"} -> Nat] /\ spent'["faults"] >= spent["faults"]
         /\ spent'["faults"] # 0
BY DEF RoutingInv, FilesTypeOK, Routing!Spend

LEMMA SetRuleStep ==
  ASSUME RoutingInv, NEW c \in Calls, NEW r \in NewRules, Routing!SetRule(c, r)
  PROVE  RoutingInv'
<1> DEFINE new == [Routing!Idle EXCEPT !.at = "read", !.rule = r]
<1>1. /\ new \in RoutingRecord /\ new.at = "read" /\ new.rule = r /\ new.rules = <<>>
      /\ WellKept(new.rules)
  BY IdleCall DEF Routing!Idle, RoutingRecord, KeptCall
<1>2. Routing!Begin(c, new) /\ UNCHANGED <<file, session, shown, rulebook>>
  BY DEF Routing!SetRule
<1> HIDE DEF new
<1>3. KeptCall(new)
  BY <1>1 DEF KeptCall
<1> QED
  BY <1>1, <1>2, <1>3, RoutingBeginStep

LEMMA StartInterviewStep ==
  ASSUME RoutingInv, NEW c \in Calls, Routing!StartInterview(c)
  PROVE  RoutingInv'
<1> DEFINE new == [Routing!Idle EXCEPT !.at = "create"]
<1>1. new \in RoutingRecord /\ new.at = "create" /\ new.rules = <<>> /\ WellKept(new.rules)
  BY IdleCall DEF Routing!Idle, RoutingRecord, KeptCall
<1>2. Routing!Begin(c, new) /\ UNCHANGED <<file, session, shown, rulebook>>
  BY DEF Routing!StartInterview
<1> HIDE DEF new
<1>3. KeptCall(new)
  BY <1>1 DEF KeptCall
<1> QED
  BY <1>1, <1>2, <1>3, RoutingBeginStep

LEMMA AnswerStep ==
  ASSUME RoutingInv, NEW c \in Calls, Routing!Answer(c)
  PROVE  RoutingInv'
<1> DEFINE new == [Routing!Idle EXCEPT !.at = "load", !.meant = shown]
<1>0. shown \in Nat /\ shown # 0
  BY RoutingTypes DEF Routing!Answer
<1>1. /\ new \in RoutingRecord /\ new.at = "load" /\ new.meant = shown /\ new.rules = <<>>
      /\ WellKept(new.rules)
  BY <1>0, IdleCall DEF Routing!Idle, RoutingRecord, KeptCall
<1>2. Routing!Begin(c, new) /\ UNCHANGED <<file, session, shown, rulebook>>
  BY DEF Routing!Answer
<1> HIDE DEF new
<1>3. KeptCall(new)
  BY <1>1 DEF KeptCall
<1> QED
  BY <1>0, <1>1, <1>2, <1>3, RoutingBeginStep

LEMMA ReadRulesStep ==
  ASSUME Routing!RoutingAssumption, RoutingInv, NEW c \in Calls, Routing!ReadRules(c)
  PROVE  RoutingInv'
<1>1. /\ routingCall[c].at = "read" /\ routingCall[c] # Routing!Idle
      /\ routingCall[c].rule \in NewRules
      /\ UNCHANGED <<file, session, shown, spent, rulebook, routingOverlaps>>
  BY RoutingTypes DEF Routing!ReadRules, KeptCall
<1>2. CASE file.is = "torn"
  <2>1. routingCall' = [routingCall EXCEPT ![c] = Routing!Idle]
    BY <1>2 DEF Routing!ReadRules, Routing!Respond
  <2>2. DoingFor(c) => FileOK' /\ SessionOK'
    BY <1>1 DEF DoingFor, FileOK, SessionOK
  <2> QED
    BY <1>1, <2>1, <2>2, IdleCall, RoutingTypes, RoutingCallStep
<1>3. CASE file.is # "torn"
  <2> DEFINE rules == Routing!Upsert(file.rules, routingCall[c].rule)
             new == [routingCall[c] EXCEPT !.at = "open", !.rules = rules]
  <2>1. routingCall' = [routingCall EXCEPT ![c] = new]
    BY <1>3, RoutingTypes DEF Routing!ReadRules
  <2>2. /\ rules \in Seq(AnyRule) /\ WellKept(rules)
        /\ Routing!ById(rules)
             = {r \in Routing!ById(file.rules) :
               r.id # routingCall[c].rule.id} \cup {routingCall[c].rule}
    <3>1. file.rules \in Seq(AnyRule) /\ Routing!OneRuleEach(file.rules)
      BY <1>3, RoutingTypes DEF FileRecord, KeptFile
    <3>2. routingCall[c].rule \in AnyRule
      BY <1>1 DEF AnyRule
    <3> QED
      BY <3>1, <3>2, UpsertFacts
  <2> HIDE DEF rules
  <2>3. /\ new \in RoutingRecord /\ new.at = "open" /\ new.rules = rules
        /\ new.rule = routingCall[c].rule
        /\ new # Routing!Idle
    BY <2>2, RoutingTypes, IdleCall DEF RoutingRecord
  <2>4. KeptCall(new)
    BY <1>1, <2>2, <2>3 DEF KeptCall
  <2>5. routingCall'[c] = new
    BY <2>1, RoutingTypes
  <2> HIDE DEF new
  <2>6. DoingFor(c) => DoingFor(c)'
    <3> SUFFICES ASSUME DoingFor(c)
                 PROVE  DoingFor(c)'
      OBVIOUS
    <3>1. FileOK /\ SessionOK
      BY <1>1 DEF DoingFor
    <3>2. FileOK' /\ SessionOK'
      BY <1>1, <3>1 DEF FileOK, SessionOK
    <3>3. Routing!ById(new.rules) = {r \in rulebook : r.id # new.rule.id} \cup {new.rule}
      BY <2>2, <2>3, <3>1 DEF FileOK
    <3> QED
      BY <1>1, <2>3, <2>5, <3>2, <3>3 DEF DoingFor
  <2> QED
    BY <1>1, <2>1, <2>3, <2>4, <2>6, RoutingTypes, RoutingCallStep
<1> QED
  BY <1>2, <1>3

LEMMA OpenFileStep ==
  ASSUME RoutingInv, NEW c \in Calls, Routing!OpenFile(c)
  PROVE  RoutingInv'
<1> DEFINE new == [routingCall[c] EXCEPT !.at = IF routingCall[c].at = "open" THEN "write"
      ELSE "commit write"]
<1>1. /\ routingCall[c].at \in {"open", "commit"} /\ file' = Routing!File("empty", <<>>)
      /\ UNCHANGED <<session, shown, spent, rulebook, routingOverlaps>>
  BY DEF Routing!OpenFile
<1>2. routingCall[c] # Routing!Idle
  BY <1>1, RoutingTypes
<1>3. routingCall' = [routingCall EXCEPT ![c] = new] /\ routingCall'[c] = new
  BY RoutingTypes DEF Routing!OpenFile, Routing!Goto
<1>4. /\ new \in RoutingRecord
      /\ new.at = IF routingCall[c].at = "open" THEN "write" ELSE "commit write"
      /\ new.rules = routingCall[c].rules /\ new.rule = routingCall[c].rule /\ new # Routing!Idle
  BY RoutingTypes, IdleCall DEF RoutingRecord
<1> HIDE DEF new
<1>5. KeptCall(new)
  BY <1>1, <1>4, RoutingTypes DEF KeptCall
<1>6. file' \in FileRecord /\ KeptFile(file')
  <2>1. <<>> \in Seq(AnyRule) /\ WellKept(<<>>)
    BY DEF WellKept, Routing!OneRuleEach, Routing!InOrder
  <2> QED
    BY <1>1, <2>1 DEF Routing!File, FileRecord, KeptFile, WellKept
<1>7. DoingFor(c) => DoingFor(c)'
  <2> SUFFICES ASSUME DoingFor(c)
               PROVE  DoingFor(c)'
    OBVIOUS
  <2>1. SessionOK
    BY <1>1 DEF DoingFor
  <2>2. SessionOK'
    BY <1>1, <2>1 DEF SessionOK
  <2> QED
    BY <1>1, <1>3, <1>4, <2>2 DEF DoingFor
<1> QED
  BY <1>1, <1>2, <1>3, <1>4, <1>5, <1>6, <1>7, RoutingTypes, RoutingCallStep

\* What a writer leaves: its text, or a torn file.
LEMMA CloseFileFacts ==
  ASSUME NEW f \in FileRecord, NEW rules \in Seq(AnyRule), WellKept(rules),
         NEW g \in Routing!Close(f, Routing!File("there", rules))
  PROVE  /\ g \in FileRecord /\ KeptFile(g)
         /\ f = Routing!File("empty", <<>>) => g = Routing!File("there", rules)
<1>1. Routing!File("there", rules) \in FileRecord /\ KeptFile(Routing!File("there", rules))
  BY DEF Routing!File, FileRecord, KeptFile, WellKept
<1>2. /\ [f EXCEPT !.is = "torn"] \in FileRecord
      /\ KeptFile([f EXCEPT !.is = "torn"])
  BY DEF FileRecord, KeptFile
<1>3. Routing!File("empty", <<>>).is = "empty"
  BY DEF Routing!File
<1>4. g = Routing!File("there", rules) \/ (f.is # "empty" /\ g = [f EXCEPT !.is = "torn"])
  BY DEF Routing!Close
<1> QED
  BY <1>1, <1>2, <1>3, <1>4

LEMMA WriteRulesStep ==
  ASSUME RoutingInv, NEW c \in Calls, Routing!WriteRules(c)
  PROVE  RoutingInv'
<1>1. /\ routingCall[c].at = "write"
      /\ file' \in Routing!Close(file, Routing!File("there", routingCall[c].rules))
      /\ rulebook' = {r \in rulebook : r.id # routingCall[c].rule.id} \cup {routingCall[c].rule}
      /\ routingCall' = [routingCall EXCEPT ![c] = Routing!Idle]
      /\ UNCHANGED <<session, shown, spent, routingOverlaps>>
  BY DEF Routing!WriteRules, Routing!Respond
<1>2. routingCall[c].rules \in Seq(AnyRule) /\ WellKept(routingCall[c].rules)
        /\ file \in FileRecord
  BY RoutingTypes DEF RoutingRecord, KeptCall
<1>3. /\ file' \in FileRecord /\ KeptFile(file')
      /\ file = Routing!File("empty", <<>>) => file' = Routing!File("there", routingCall[c].rules)
  BY <1>1, <1>2, CloseFileFacts
<1>4. DoingFor(c) => FileOK' /\ SessionOK'
  <2> SUFFICES ASSUME DoingFor(c)
               PROVE  FileOK' /\ SessionOK'
    OBVIOUS
  <2>1. file' = Routing!File("there", routingCall[c].rules) /\ SessionOK
          /\ Routing!ById(routingCall[c].rules) = rulebook'
    BY <1>1, <1>3 DEF DoingFor
  <2> QED
    BY <1>1, <2>1 DEF Routing!File, FileOK, SessionOK
<1> QED
  BY <1>1, <1>3, <1>4, IdleCall, RoutingTypes, RoutingCallStep

LEMMA CommitRulesStep ==
  ASSUME RoutingInv, NEW c \in Calls, Routing!CommitRules(c)
  PROVE  RoutingInv'
<1> DEFINE new == [routingCall[c] EXCEPT !.at = "unlink"]
<1>1. /\ routingCall[c].at = "commit write"
      /\ file' \in Routing!Close(file, Routing!File("there", routingCall[c].rules))
      /\ rulebook' = Routing!ById(routingCall[c].rules)
      /\ UNCHANGED <<session, shown, spent, routingOverlaps>>
  BY DEF Routing!CommitRules
<1>2. routingCall' = [routingCall EXCEPT ![c] = new] /\ routingCall'[c] = new
  BY RoutingTypes DEF Routing!CommitRules, Routing!Goto
<1>3. new \in RoutingRecord /\ new.at = "unlink" /\ new.rules = routingCall[c].rules
        /\ new # Routing!Idle
  BY RoutingTypes, IdleCall DEF RoutingRecord
<1>4. routingCall[c].rules \in Seq(AnyRule) /\ WellKept(routingCall[c].rules)
        /\ file \in FileRecord
  BY RoutingTypes DEF RoutingRecord, KeptCall
<1> HIDE DEF new
<1>5. KeptCall(new)
  BY <1>3, <1>4 DEF KeptCall
<1>6. /\ file' \in FileRecord /\ KeptFile(file')
      /\ file = Routing!File("empty", <<>>) => file' = Routing!File("there", routingCall[c].rules)
  BY <1>1, <1>4, CloseFileFacts
<1>7. DoingFor(c) => DoingFor(c)'
  <2> SUFFICES ASSUME DoingFor(c)
               PROVE  DoingFor(c)'
    OBVIOUS
  <2>1. file' = Routing!File("there", routingCall[c].rules) /\ SessionOK
    BY <1>1, <1>6 DEF DoingFor
  <2>2. FileOK' /\ SessionOK'
    BY <1>1, <2>1 DEF Routing!File, FileOK, SessionOK
  <2> QED
    BY <1>2, <1>3, <2>2 DEF DoingFor
<1> QED
  BY <1>1, <1>2, <1>3, <1>5, <1>6, <1>7, RoutingTypes, RoutingCallStep

LEMMA CreateSessionStep ==
  ASSUME Routing!RoutingAssumption, RoutingInv, NEW c \in Calls, Routing!CreateSession(c)
  PROVE  RoutingInv'
<1>1. /\ routingCall[c].at = "create" /\ routingCall' = [routingCall EXCEPT ![c] = Routing!Idle]
      /\ session' = [is |-> "there", index |-> 0, answers |-> <<>>] /\ shown' = 1
      /\ UNCHANGED <<file, spent, rulebook, routingOverlaps>>
  BY DEF Routing!CreateSession, Routing!Respond
<1>2. session' \in SessionRecord
  BY <1>1 DEF SessionRecord
<1>3. SessionOK'
  <2>1. Counted(0, <<>>) /\ 0 < Questions
    BY DEF Counted, Routing!RoutingAssumption
  <2> QED
    BY <1>1, <2>1 DEF SessionOK
<1>4. DoingFor(c) => FileOK'
  BY <1>1 DEF DoingFor, FileOK
<1> QED
  BY <1>1, <1>2, <1>3, <1>4, IdleCall, RoutingTypes, RoutingCallStep

LEMMA CountedOneMore ==
  ASSUME NEW n \in Nat, NEW answers \in Seq(Nat), Counted(n, answers)
  PROVE  Counted(n + 1, Append(answers, n + 1))
<1> DEFINE more == Append(answers, n + 1)
<1>1. /\ Len(answers) = n /\ \A i \in 1 .. n : answers[i] = i
      /\ Len(more) = Len(answers) + 1 /\ more[Len(answers) + 1] = n + 1
      /\ \A i \in 1 .. Len(answers) : more[i] = answers[i]
  BY DEF Counted
<1> HIDE DEF more
<1>2. \A i \in 1 .. n + 1 : i = n + 1 \/ i \in 1 .. n
  OBVIOUS
<1>3. Counted(n + 1, more)
  BY <1>1, <1>2 DEF Counted
<1> QED
  BY <1>3 DEF more

LEMMA LoadSessionStep ==
  ASSUME Routing!RoutingAssumption, RoutingInv, NEW c \in Calls, Routing!LoadSession(c)
  PROVE  RoutingInv'
<1>1. /\ routingCall[c].at = "load" /\ routingCall[c] # Routing!Idle
      /\ UNCHANGED <<file, session, shown, spent, rulebook, routingOverlaps>>
  BY RoutingTypes DEF Routing!LoadSession
<1>2. DoingFor(c) => FileOK' /\ SessionOK'
  BY <1>1 DEF DoingFor, FileOK, SessionOK
<1>3. CASE Routing!Respond(c)
  <2>1. routingCall' = [routingCall EXCEPT ![c] = Routing!Idle]
    BY <1>3 DEF Routing!Respond
  <2> QED
    BY <1>1, <1>2, <2>1, IdleCall, RoutingTypes, RoutingCallStep
<1>4. CASE ~Routing!Respond(c)
  <2> DEFINE n == session.index
             answers == Append(session.answers, routingCall[c].meant)
             rules(yes) == IF n + 1 < Questions THEN <<>> ELSE Routing!BuildRules(yes)
             next(yes) == [routingCall[c] EXCEPT !.at = IF n + 1 < Questions THEN "save"
               ELSE "commit",
                                          !.index = n + 1, !.answers = answers,
                                          !.rules = rules(yes)]
  <2>1. PICK yes : session.is = "there" /\ routingCall' = [routingCall EXCEPT ![c] = next(yes)]
    <3>1. PICK yes : /\ session.is = "there"
                     /\ routingCall'
                          = [routingCall EXCEPT ![c].at = IF n + 1 < Questions THEN "save"
                            ELSE "commit",
                                             ![c].index = n + 1, ![c].answers = answers,
                                             ![c].rules = rules(yes)]
      BY <1>4 DEF Routing!LoadSession
    <3> HIDE DEF n, answers, rules
    <3> QED
      BY <3>1, RoutingTypes
  <2>2. rules(yes) \in Seq(AnyRule) /\ WellKept(rules(yes))
    <3>1. <<>> \in Seq(AnyRule) /\ WellKept(<<>>)
      BY DEF WellKept, Routing!OneRuleEach, Routing!InOrder
    <3> QED
      BY <3>1, BuildFacts
  <2>3. n \in Nat /\ session.answers \in Seq(Nat) /\ routingCall[c].meant \in Nat
    BY RoutingTypes DEF SessionRecord, RoutingRecord
  <2>4. answers \in Seq(Nat) /\ n + 1 \in Nat
    BY <2>3
  <2> DEFINE new == next(yes)
  <2> HIDE DEF rules, answers, n
  <2>5. /\ new \in RoutingRecord /\ new.at = IF n + 1 < Questions THEN "save" ELSE "commit"
        /\ new.index = n + 1 /\ new.answers = answers /\ new.rules = rules(yes)
    BY <2>2, <2>4, RoutingTypes DEF RoutingRecord
  <2> HIDE DEF next
  <2>6. KeptCall(new) /\ new # Routing!Idle
    BY <2>2, <2>5, IdleCall DEF KeptCall
  <2>7. routingCall' = [routingCall EXCEPT ![c] = new] /\ routingCall'[c] = new
    BY <2>1, RoutingTypes
  <2> HIDE DEF new
  <2>8. DoingFor(c) => DoingFor(c)'
    <3> SUFFICES ASSUME DoingFor(c)
                 PROVE  DoingFor(c)'
      OBVIOUS
    <3>1. SessionOK /\ routingCall[c].meant = shown /\ shown # 0
      BY <1>1 DEF DoingFor
    <3>2. Counted(n, session.answers) /\ routingCall[c].meant = n + 1
      BY <3>1 DEF SessionOK, n
    <3>3. Counted(n + 1, answers)
      BY <2>3, <3>2, CountedOneMore DEF answers
    <3> QED
      BY <1>2, <2>5, <2>7, <3>3 DEF DoingFor
  <2> QED
    BY <1>1, <2>5, <2>6, <2>7, <2>8, RoutingTypes, RoutingCallStep
<1> QED
  BY <1>3, <1>4

LEMMA DeclineStep ==
  ASSUME RoutingInv, NEW c \in Calls, Routing!Decline(c)
  PROVE  RoutingInv'
<1> DEFINE new == [routingCall[c] EXCEPT !.at = "unlink"]
<1>1. /\ routingCall[c].at = "commit" /\ routingCall[c] # Routing!Idle
      /\ UNCHANGED <<file, session, shown, spent, rulebook, routingOverlaps>>
  BY RoutingTypes DEF Routing!Decline
<1>2. routingCall' = [routingCall EXCEPT ![c] = new] /\ routingCall'[c] = new
  BY RoutingTypes DEF Routing!Decline, Routing!Goto
<1>3. new \in RoutingRecord /\ new.at = "unlink" /\ new.rules = routingCall[c].rules
        /\ new # Routing!Idle
  BY RoutingTypes, IdleCall DEF RoutingRecord
<1> HIDE DEF new
<1>4. KeptCall(new)
  BY <1>3, RoutingTypes DEF KeptCall
<1>5. DoingFor(c) => FileOK' /\ SessionOK'
  BY <1>1 DEF DoingFor, FileOK, SessionOK
<1>6. DoingFor(c) => DoingFor(c)'
  BY <1>2, <1>3, <1>5 DEF DoingFor
<1> QED
  BY <1>1, <1>2, <1>3, <1>4, <1>6, RoutingTypes, RoutingCallStep

LEMMA EndInterviewStep ==
  ASSUME RoutingInv, NEW c \in Calls, Routing!EndInterview(c)
  PROVE  RoutingInv'
<1>1. /\ routingCall[c].at = "unlink" /\ routingCall' = [routingCall EXCEPT ![c] = Routing!Idle]
      /\ session' = Routing!NoSession /\ shown' = 0
      /\ UNCHANGED <<file, spent, rulebook, routingOverlaps>>
  BY DEF Routing!EndInterview, Routing!Respond
<1>2. session' \in SessionRecord
  BY <1>1 DEF Routing!NoSession, SessionRecord
<1>3. DoingFor(c) => FileOK' /\ SessionOK'
  BY <1>1 DEF DoingFor, FileOK, SessionOK
<1> QED
  BY <1>1, <1>2, <1>3, IdleCall, RoutingTypes, RoutingCallStep

LEMMA OpenSessionStep ==
  ASSUME RoutingInv, NEW c \in Calls, Routing!OpenSession(c)
  PROVE  RoutingInv'
<1> DEFINE new == [routingCall[c] EXCEPT !.at = "save write"]
<1>1. /\ routingCall[c].at = "save" /\ session' = [is |-> "empty", index |-> 0, answers |-> <<>>]
      /\ UNCHANGED <<file, shown, spent, rulebook, routingOverlaps>>
  BY DEF Routing!OpenSession
<1>2. routingCall' = [routingCall EXCEPT ![c] = new] /\ routingCall'[c] = new
  BY RoutingTypes DEF Routing!OpenSession, Routing!Goto
<1>3. /\ new \in RoutingRecord /\ new.at = "save write" /\ new.rules = routingCall[c].rules
      /\ new.index = routingCall[c].index /\ new.answers = routingCall[c].answers
      /\ new # Routing!Idle
  BY RoutingTypes, IdleCall DEF RoutingRecord
<1> HIDE DEF new
<1>4. KeptCall(new)
  BY <1>3, RoutingTypes DEF KeptCall
<1>5. session' \in SessionRecord /\ session'.is = "empty" /\ session'.answers = <<>>
  BY <1>1 DEF SessionRecord
<1>6. DoingFor(c) => DoingFor(c)'
  <2> SUFFICES ASSUME DoingFor(c)
               PROVE  DoingFor(c)'
    OBVIOUS
  <2>1. FileOK /\ Counted(routingCall[c].index, routingCall[c].answers)
          /\ routingCall[c].index < Questions
    BY <1>1 DEF DoingFor
  <2>2. FileOK'
    BY <1>1, <2>1 DEF FileOK
  <2> QED
    BY <1>2, <1>3, <1>5, <2>1, <2>2 DEF DoingFor
<1> QED
  BY <1>1, <1>2, <1>3, <1>4, <1>5, <1>6, RoutingTypes, RoutingCallStep

\* What a call saves is a session, or leaves a torn one.
LEMMA SaveFacts ==
  ASSUME RoutingInv, NEW c \in Calls,
         NEW t \in Routing!Close(session, [is |-> "there", index |-> routingCall[c].index,
                                   answers |-> routingCall[c].answers])
  PROVE  /\ t \in SessionRecord
         /\ session.is = "empty" => t = [is |-> "there", index |-> routingCall[c].index,
                                         answers |-> routingCall[c].answers]
<1> DEFINE text == [is |-> "there", index |-> routingCall[c].index,
      answers |-> routingCall[c].answers]
<1>1. routingCall[c].index \in Nat /\ routingCall[c].answers \in Seq(Nat)
        /\ session \in SessionRecord
  BY RoutingTypes DEF RoutingRecord
<1>2. text \in SessionRecord /\ [session EXCEPT !.is = "torn"] \in SessionRecord
  BY <1>1 DEF SessionRecord
<1> HIDE DEF text
<1>3. t = text \/ (session.is # "empty" /\ t = [session EXCEPT !.is = "torn"])
  <2>1. t \in Routing!Close(session, text)
    BY DEF text
  <2> QED
    <3>1. t \in IF session.is = "empty" THEN {text}
               ELSE {text, [session EXCEPT !.is = "torn"]}
      BY <2>1 DEF Routing!Close
    <3> QED
      BY <3>1
<1> QED
  BY <1>2, <1>3 DEF text

LEMMA SaveSessionStep ==
  ASSUME RoutingInv, NEW c \in Calls, Routing!SaveSession(c)
  PROVE  RoutingInv'
<1>1. /\ routingCall[c].at = "save write"
      /\ routingCall' = [routingCall EXCEPT ![c] = Routing!Idle]
      /\ shown' = routingCall[c].index + 1
      /\ UNCHANGED <<file, spent, rulebook, routingOverlaps>>
  BY DEF Routing!SaveSession, Routing!Respond
<1>2. \/ session.is = "absent" /\ session' = session
      \/ session.is # "absent"
         /\ session' \in Routing!Close(session, [is |-> "there", index |-> routingCall[c].index,
                                         answers |-> routingCall[c].answers])
  BY DEF Routing!SaveSession
<1>3. /\ session' \in SessionRecord
      /\ session.is = "empty" => session' = [is |-> "there", index |-> routingCall[c].index,
                                             answers |-> routingCall[c].answers]
  BY <1>2, SaveFacts, RoutingTypes
<1>4. shown' \in Nat
  <2>1. PICK n \in Nat : routingCall[c].index = n
    BY RoutingTypes DEF RoutingRecord
  <2>2. n + 1 \in Nat
    OBVIOUS
  <2>3. shown' = n + 1
    BY <1>1, <2>1
  <2> QED
    BY <2>2, <2>3
<1>5. DoingFor(c) => FileOK' /\ SessionOK'
  <2> SUFFICES ASSUME DoingFor(c)
               PROVE  FileOK' /\ SessionOK'
    OBVIOUS
  <2>1. /\ FileOK /\ session.is = "empty"
        /\ Counted(routingCall[c].index, routingCall[c].answers)
        /\ routingCall[c].index < Questions
    BY <1>1 DEF DoingFor
  <2>2. FileOK'
    BY <1>1, <2>1 DEF FileOK
  <2>3. /\ session'.is = "there" /\ session'.index = routingCall[c].index
        /\ session'.answers = routingCall[c].answers
    BY <1>3, <2>1
  <2> QED
    BY <1>1, <2>1, <2>2, <2>3 DEF SessionOK
<1> QED
  BY <1>1, <1>3, <1>4, <1>5, IdleCall, RoutingTypes, RoutingCallStep

LEMMA ResponseLostStep ==
  ASSUME RoutingInv, NEW c \in Calls, Routing!ResponseLost(c)
  PROVE  RoutingInv'
<1>1. /\ routingCall[c].at = "save write"
      /\ routingCall' = [routingCall EXCEPT ![c] = Routing!Idle] /\ Routing!Spend("faults")
      /\ session' \in Routing!Close(session, [is |-> "there", index |-> routingCall[c].index,
                                      answers |-> routingCall[c].answers])
      /\ UNCHANGED <<file, shown, rulebook, routingOverlaps>>
  BY DEF Routing!ResponseLost, Routing!Respond
<1>2. session' \in SessionRecord
  BY <1>1, SaveFacts
<1> QED
  BY <1>1, <1>2, FaultFacts, IdleCall, RoutingTypes, RoutingCallStep

LEMMA WriteFailsStep ==
  ASSUME RoutingInv, NEW c \in Calls, Routing!WriteFails(c)
  PROVE  RoutingInv'
<1>1. /\ routingCall[c].at # "idle" /\ routingCall' = [routingCall EXCEPT ![c] = Routing!Idle]
      /\ Routing!Spend("faults")
      /\ (session' = Routing!NoSession /\ shown' = 0) \/ UNCHANGED <<session, shown>>
      /\ UNCHANGED <<file, rulebook, routingOverlaps>>
  BY DEF Routing!WriteFails, Routing!Respond
<1>2. session' \in SessionRecord /\ shown' \in Nat
  <2>1. Routing!NoSession \in SessionRecord
    BY DEF Routing!NoSession, SessionRecord
  <2> QED
    BY <1>1, <2>1, RoutingTypes
<1> QED
  BY <1>1, <1>2, FaultFacts, IdleCall, RoutingTypes, RoutingCallStep

LEMMA RoutingCrashStep ==
  ASSUME RoutingInv, Routing!Crash
  PROVE  RoutingInv'
<1>1. /\ Routing!Spend("faults") /\ routingCall' = [c \in Calls |-> Routing!Idle]
      /\ UNCHANGED <<file, session, shown, rulebook, routingOverlaps>>
  BY DEF Routing!Crash
<1>2. routingCall' \in [Calls -> RoutingRecord] /\ \A c \in Calls : KeptCall(routingCall'[c])
  BY <1>1, IdleCall
<1>3. ~RoutingCalm'
  BY <1>1, FaultFacts DEF RoutingCalm
<1>4. FilesTypeOK' /\ KeptFile(file)'
  BY <1>1, FaultFacts DEF RoutingInv, FilesTypeOK, KeptFile
<1> QED
  BY <1>2, <1>3, <1>4 DEF RoutingInv, RoutingCalmInv

LEMMA RoutingInvStep == Routing!RoutingAssumption /\ RoutingInv /\ [Routing!Next]_(Routing!vars)
  => RoutingInv'
<1> SUFFICES ASSUME Routing!RoutingAssumption, RoutingInv, [Routing!Next]_(Routing!vars)
             PROVE  RoutingInv'
  OBVIOUS
<1>1. ASSUME NEW c \in Calls, NEW r \in NewRules, Routing!SetRule(c, r)
      PROVE  RoutingInv'
  BY <1>1, SetRuleStep
<1>2. ASSUME NEW c \in Calls, Routing!ReadRules(c) \/ Routing!OpenFile(c) \/ Routing!WriteRules(c)
      PROVE  RoutingInv'
  BY <1>2, ReadRulesStep, OpenFileStep, WriteRulesStep
<1>3. ASSUME NEW c \in Calls,
             Routing!StartInterview(c) \/ Routing!CreateSession(c) \/ Routing!Answer(c)
               \/ Routing!LoadSession(c)
      PROVE  RoutingInv'
  BY <1>3, StartInterviewStep, CreateSessionStep, AnswerStep, LoadSessionStep
<1>4. ASSUME NEW c \in Calls,
             \/ Routing!Decline(c) \/ Routing!CommitRules(c) \/ Routing!EndInterview(c)
             \/ Routing!OpenSession(c) \/ Routing!SaveSession(c) \/ Routing!ResponseLost(c)
             \/ Routing!WriteFails(c)
      PROVE  RoutingInv'
  BY <1>4, DeclineStep, CommitRulesStep, EndInterviewStep, OpenSessionStep, SaveSessionStep,
     ResponseLostStep, WriteFailsStep
<1>5. CASE UNCHANGED Routing!vars
  BY <1>5 DEF Routing!vars, RoutingInv, FilesTypeOK, KeptFile, RoutingCalmInv, OneAtATime,
     RoutingCalm,
                   FileOK, SessionOK, DoingFor
<1> QED
  BY <1>1, <1>2, <1>3, <1>4, <1>5, RoutingCrashStep DEF Routing!Next

LEMMA RoutingHolds == RoutingInv => Routing!RulesSurvive
<1> SUFFICES ASSUME RoutingInv
             PROVE  Routing!RulesSurvive
  OBVIOUS
<1>1. file.is = "there" => /\ Routing!OneRuleEach(file.rules)
                           /\ file.rules = Routing!Shipped \/ Routing!InOrder(file.rules)
  BY DEF RoutingInv, KeptFile
<1>2. ASSUME RoutingCalm
      PROVE  /\ \A i \in DOMAIN session.answers : session.answers[i] = i
             /\ (\A c \in Calls : routingCall[c] = Routing!Idle)
                  => Routing!ById(file.rules) = rulebook
  <2>1. SessionOK \/ session.answers = <<>>
    BY <1>2 DEF RoutingInv, RoutingCalmInv, DoingFor
  <2>2. \A i \in DOMAIN session.answers : session.answers[i] = i
    <3>1. session.answers \in Seq(Nat)
      BY DEF RoutingInv, FilesTypeOK, SessionRecord
    <3>2. session.answers = <<>> \/ Counted(session.index, session.answers)
      BY <2>1 DEF SessionOK, Routing!NoSession
    <3> QED
      BY <3>1, <3>2 DEF Counted
  <2> QED
    BY <1>2, <2>2 DEF RoutingInv, RoutingCalmInv, FileOK
<1> QED
  BY <1>1, <1>2 DEF Routing!RulesSurvive, RoutingCalm

\* set_compute_routing and intake_compute_routing: a routing file that can be read has one
\* rule for an id and is the one that was shipped or in the order of priority, whatever
\* overlaps and fails; as long as nothing does, every answer is recorded for its
\* question and no rule a call was told it had written is lost.
THEOREM RulesSurviveTheorem == Spec => []RulesSurvive
<1>1. Routing!Init => RoutingInv
  BY RoutingInitInv, ServicesAssumption DEF ServicesAssumption
<1>2. RoutingInv /\ [Routing!Next]_(Routing!vars) => RoutingInv'
  BY RoutingInvStep, ServicesAssumption DEF ServicesAssumption
<1>3. RoutingInv => RulesSurvive
  BY RoutingHolds DEF RulesSurvive
<1> QED
  BY <1>1, <1>2, <1>3, RoutingPart, PTL DEF Routing!Spec

=============================================================================
