---------------------------- MODULE MemoryProofs ----------------------------
(***************************************************************************)
(* Proofs about Memory, for any fields, thresholds, numbers of rows and    *)
(* days, and any number of failures.                                       *)
(*                                                                         *)
(* NothingLost is not inductive: a field may be removed because of a value *)
(* that was inserted before.  CarriedInv says what a run carries: a value  *)
(* of the batch is the last one of its field, and the one whose HDEL is    *)
(* next has been inserted, unless the field was written since the hash was *)
(* read.                                                                   *)
(*                                                                         *)
(* Behind RemovedIsStale is StaleInv, about the rows the decay pass is to  *)
(* remove; behind PromotedOnce are OnceHash and OnceRows, which hold until *)
(* the first failure.                                                      *)
(***************************************************************************)
EXTENDS Memory, TLAPS

\* What is in the hash is what was written last.
HashInv == \A e \in Entries : hot[e] = Gone \/ hot[e] = last[e]

CarriedInv ==
    /\ \A b \in batch : b[1] \notin overtaken => b[2] = last[b[1]]
    /\ \A e \in doomed : e \notin overtaken => <<e, last[e].access>> \in inserted
    /\ pass # "promote" => doomed = {}

\* The fields of a state that NothingLost depends on are well typed.
HashType ==
    /\ hot \in [Entries -> Values \cup {Gone}]
    /\ last \in [Entries -> Values \cup {Gone}]
    /\ batch \subseteq Entries \X Values
    /\ doomed \subseteq Entries

IInv == HashType /\ HashInv /\ CarriedInv /\ NothingLost

-----------------------------------------------------------------------------
LEMMA InitIInv == Init => IInv
  BY DEF Init, IInv, HashType, HashInv, CarriedInv, NothingLost

\* An agent's write is of a field that nobody carries, or makes what is carried overtaken.
LEMMA WriteStep ==
    ASSUME IInv, NEW e \in Entries, NEW s \in Shapes, AgentWrites(e, s)
    PROVE  IInv'
  <1> DEFINE n == last[e].access + IF s = "good" THEN 1 ELSE 0
             v == [shape |-> s, access |-> n]
  <1> USE DEF IInv, HashType
  <1>1. last[e].access \in Nat
    BY DEF Values, Gone
  <1>2. v \in Values
    <2>1. n \in Nat
      BY <1>1
    <2>2. QED
      BY <2>1 DEF Values
  <1>3. v # Gone
    <2>1. v.shape = s /\ Gone.shape = "gone" /\ s # "gone"
      BY DEF Gone, Shapes
    <2>2. QED
      BY <2>1
  <1>4. /\ hot' = [hot EXCEPT ![e] = v]
        /\ last' = [last EXCEPT ![e] = v]
        /\ UNCHANGED <<batch, doomed, pass, inserted>>
        /\ overtaken \subseteq overtaken'
        /\ e \in doomed \cup {b[1] : b \in batch} => e \in overtaken'
        /\ \A d \in Entries \ {e} : hot'[d] = hot[d] /\ last'[d] = last[d]
        /\ hot'[e] = v /\ last'[e] = v
    <2>1. hot' = [hot EXCEPT ![e] = v] /\ UNCHANGED <<batch, doomed, pass, inserted>>
      BY DEF AgentWrites, runVars
    <2>2. hot'[e] = v
      BY <2>1
    <2>3. last' = [last EXCEPT ![e] = v]
      BY <2>2 DEF AgentWrites
    <2>4. /\ overtaken \subseteq overtaken'
          /\ e \in doomed \cup {b[1] : b \in batch} => e \in overtaken'
      BY DEF AgentWrites
    <2>5. \A d \in Entries \ {e} : hot'[d] = hot[d] /\ last'[d] = last[d]
      BY <2>1, <2>3
    <2>6. QED
      BY <2>1, <2>2, <2>3, <2>4, <2>5
  <1> HIDE DEF v, n
  <1>5. HashType'
    BY <1>2, <1>4
  <1>6. HashInv'
    BY <1>4 DEF HashInv
  <1>7. CarriedInv'
    <2>1. ASSUME NEW b \in batch, b[1] \notin overtaken' PROVE b[2] = last'[b[1]]
      <3>1. b[1] # e /\ b[1] \in Entries /\ b[1] \notin overtaken
        BY <1>4, <2>1
      <3>2. QED
        BY <1>4, <3>1 DEF CarriedInv
    <2>2. ASSUME NEW d \in doomed, d \notin overtaken' PROVE <<d, last'[d].access>> \in inserted
      <3>1. d # e /\ d \in Entries /\ d \notin overtaken
        BY <1>4, <2>2
      <3>2. QED
        BY <1>4, <3>1 DEF CarriedInv
    <2>3. QED
      BY <1>4, <2>1, <2>2 DEF CarriedInv
  <1>8. NothingLost'
    <2>1. ASSUME NEW d \in Entries, hot'[d] = Gone, last'[d] # Gone, d \notin overtaken'
          PROVE  <<d, last'[d].access>> \in inserted'
      <3>1. d # e /\ d \notin overtaken
        BY <1>3, <1>4, <2>1
      <3>2. QED
        BY <1>4, <2>1, <3>1 DEF NothingLost
    <2>2. QED
      BY <2>1 DEF NothingLost
  <1>9. QED
    BY <1>5, <1>6, <1>7, <1>8

\* A run reads the hash: what it holds is the last value of each field.
LEMMA StartStep == IInv /\ StartRun => IInv'
  <1> SUFFICES ASSUME IInv, StartRun PROVE IInv'
    OBVIOUS
  <1> USE DEF IInv, HashType
  <1>1. UNCHANGED <<hot, doomed, inserted, last>> /\ doomed = {}
    BY DEF StartRun, CarriedInv
  <1>2. CASE UNCHANGED <<batch, overtaken>>
    BY <1>1, <1>2 DEF HashInv, CarriedInv, NothingLost
  <1>3. CASE /\ batch' = {<<e, hot[e]>> : e \in {f \in Entries : hot[f] # Gone}}
             /\ overtaken' = {e \in overtaken : hot[e] = Gone}
    <2>1. \A b \in batch' : b[1] \in Entries /\ hot[b[1]] # Gone /\ b = <<b[1], hot[b[1]]>>
      BY <1>3
    <2>2. \A b \in batch' : b \in Entries \X Values
      BY <2>1
    <2>3. HashType'
      BY <1>1, <2>2
    <2>4. \A b \in batch' : b[2] = last[b[1]]
      BY <2>1 DEF HashInv
    <2>5. HashInv' /\ CarriedInv'
      BY <1>1, <2>4 DEF HashInv, CarriedInv
    <2>6. NothingLost'
      BY <1>1, <1>3 DEF NothingLost
    <2>7. QED
      BY <2>3, <2>5, <2>6
  <1>4. QED
    BY <1>2, <1>3 DEF StartRun

\* A value is inserted before the field is doomed, and a doomed field is removed.
LEMMA PromoteStep ==
    ASSUME IInv, NEW b \in batch, Promote(b) \/ PromoteFails(b)
    PROVE  IInv'
  <1> USE DEF IInv, HashType
  <1>1. /\ UNCHANGED <<hot, last, pass, overtaken>>
        /\ pass = "promote" /\ doomed = {}
        /\ batch' = batch \ {b}
        /\ inserted \subseteq inserted'
        /\ doomed' \in {{}, {b[1]}}
        /\ doomed' # {} => <<b[1], b[2].access>> \in inserted'
    BY DEF Promote, PromoteFails, Take
  <1>2. b[1] \in Entries
    OBVIOUS
  <1>3. HashType' /\ HashInv'
    BY <1>1, <1>2 DEF HashInv
  <1>4. CarriedInv'
    BY <1>1 DEF CarriedInv
  <1>5. NothingLost'
    BY <1>1 DEF NothingLost
  <1>6. QED
    BY <1>3, <1>4, <1>5

LEMMA RemoveFieldStep ==
    ASSUME IInv, NEW e \in Entries, RemoveField(e) \/ RemoveFieldFails(e)
    PROVE  IInv'
  <1> USE DEF IInv, HashType
  <1>1. /\ UNCHANGED <<last, pass, batch, inserted, overtaken>>
        /\ e \in doomed /\ doomed' = {}
        /\ hot' = hot \/ hot' = [hot EXCEPT ![e] = Gone]
    BY DEF RemoveField, RemoveFieldFails, historyVars
  <1>2. \A d \in Entries : \/ hot'[d] = hot[d]
                           \/ d = e /\ hot'[d] = Gone
    BY <1>1
  <1>3. HashType' /\ HashInv' /\ CarriedInv'
    BY <1>1, <1>2 DEF HashInv, CarriedInv
  <1>4. NothingLost'
    BY <1>1, <1>2 DEF NothingLost, CarriedInv
  <1>5. QED
    BY <1>3, <1>4

\* The other steps take values out of the batch at most.
LEMMA QuietStep ==
    ASSUME IInv, UNCHANGED <<hot, last, inserted, overtaken>>, batch' \subseteq batch,
           doomed' \subseteq doomed, pass' # "promote" => doomed' = {}
    PROVE  IInv'
  <1> USE DEF IInv, HashType
  <1>1. HashType' /\ HashInv'
    BY DEF HashInv
  <1>2. CarriedInv'
    BY DEF CarriedInv
  <1>3. NothingLost'
    BY DEF NothingLost
  <1>4. QED
    BY <1>1, <1>2, <1>3

LEMMA IInvStep == IInv /\ [Next]_vars => IInv'
  <1> SUFFICES ASSUME IInv, [Next]_vars PROVE IInv'
    OBVIOUS
  <1> USE DEF runVars, historyVars
  <1>1. ASSUME NEW e \in Entries, NEW s \in Shapes, AgentWrites(e, s) PROVE IInv'
    BY <1>1, WriteStep
  <1>2. CASE StartRun
    BY <1>2, StartStep
  <1>3. ASSUME NEW b \in batch, Promote(b) \/ PromoteFails(b) PROVE IInv'
    BY <1>3, PromoteStep
  <1>4. ASSUME NEW e \in Entries, RemoveField(e) \/ RemoveFieldFails(e) PROVE IInv'
    BY <1>4, RemoveFieldStep
  <1>5. ASSUME NEW b \in batch, Skip(b) \/ Stumble(b) PROVE IInv'
    <2>1. /\ UNCHANGED <<hot, last, inserted, overtaken, doomed>>
          /\ batch' \subseteq batch
          /\ doomed = {}
      BY <1>5 DEF Skip, Stumble
    <2>2. QED
      BY <2>1, QuietStep
  <1>6. ASSUME NEW left \in Lifetimes, StoreMemory(left) PROVE IInv'
    BY <1>6, QuietStep DEF StoreMemory, IInv, CarriedInv
  <1>7. ASSUME NEW S \in SUBSET Live, Recall(S) PROVE IInv'
    BY <1>7, QuietStep DEF Recall, IInv, CarriedInv
  <1>8. CASE Touch \/ NextDay
    BY <1>8, QuietStep DEF Touch, NextDay, IInv, CarriedInv
  <1>9. CASE EndPromotion
    BY <1>9, QuietStep DEF EndPromotion
  <1>10. CASE SelectStale
    BY <1>10, QuietStep DEF SelectStale, IInv, CarriedInv
  <1>11. ASSUME NEW u \in updates, Decay(u) \/ DecayFails(u) PROVE IInv'
    BY <1>11, QuietStep DEF Decay, DecayFails, IInv, CarriedInv
  <1>12. CASE Remove
    BY <1>12, QuietStep DEF Remove, IInv, CarriedInv
  <1>13. CASE Expire
    BY <1>13, QuietStep DEF Expire, IInv, CarriedInv
  <1>14. CASE Killed
    BY <1>14, QuietStep DEF Killed
  <1>15. CASE UNCHANGED vars
    BY <1>15, QuietStep DEF vars, IInv, CarriedInv
  <1>16. QED
    BY <1>1, <1>2, <1>3, <1>4, <1>5, <1>6, <1>7, <1>8, <1>9, <1>10, <1>11, <1>12, <1>13, <1>14,
       <1>15 DEF Next, RunStep

-----------------------------------------------------------------------------
\* promote_working_memory: what an agent wrote last is in the hash or was inserted, unless
\* it was written while a run held an older value of that field.
THEOREM NothingLostTheorem == Spec => []NothingLost
  <1>1. Init => IInv
    BY InitIInv
  <1>2. IInv /\ [Next]_vars => IInv'
    BY IInvStep
  <1>3. IInv => NothingLost
    BY DEF IInv
  <1>4. QED
    BY <1>1, <1>2, <1>3, PTL DEF Spec

-----------------------------------------------------------------------------
(* Type correctness.                                                       *)

LEMMA InitTypeOK == Init => TypeOK
  BY MemoryAssumption DEF Init, TypeOK, Passes, Limits

LEMMA SpendType ==
    ASSUME TypeOK, NEW l \in DOMAIN Limits, Spend(l)
    PROVE  clock' \in [DOMAIN Limits -> Nat]
  BY DEF TypeOK, Spend

\* A row goes where none is, and nobody holds its id.
LEMMA AddRowStep ==
    ASSUME TypeOK, NEW of \in (Entries \X Nat) \cup {Stored}, NEW left \in Nat \cup {Never},
           AddRow(of, left)
    PROVE  /\ rows' \in [RowIds -> Row \cup {Free}]
           /\ \E r \in FreeIds : /\ rows'[r].of = of
                                 /\ \A s \in RowIds \ {r} : rows'[s] = rows[s]
  <1> DEFINE r == CHOOSE r \in FreeIds : TRUE
             v == [of |-> of, faded |-> 0, idle |-> 0, left |-> left]
  <1>1. r \in FreeIds /\ r \in RowIds
    BY DEF AddRow, FreeIds
  <1>2. v \in Row /\ v.of = of
    BY DEF Row
  <1>3. rows' = [rows EXCEPT ![r] = v]
    BY DEF AddRow
  <1> HIDE DEF r, v
  <1>4. rows' \in [RowIds -> Row \cup {Free}]
    BY <1>1, <1>2, <1>3 DEF TypeOK
  <1>5. rows'[r].of = of /\ \A s \in RowIds \ {r} : rows'[s] = rows[s]
    BY <1>1, <1>2, <1>3 DEF TypeOK
  <1>6. QED
    BY <1>1, <1>4, <1>5

\* Whatever is done to a row that is there, it stays a row.
LEMMA RowFields ==
    ASSUME NEW v \in Row, NEW n \in Nat, NEW w \in Nat \cup {Never}
    PROVE  /\ [v EXCEPT !.idle = n] \in Row
           /\ [v EXCEPT !.faded = n] \in Row
           /\ [v EXCEPT !.idle = n, !.left = w] \in Row
           /\ [v EXCEPT !.idle = n].of = v.of
           /\ [v EXCEPT !.faded = n].of = v.of
           /\ [v EXCEPT !.idle = n, !.left = w].of = v.of
           /\ [v EXCEPT !.faded = n].idle = v.idle
  BY DEF Row

LEMMA LiveRow == ASSUME TypeOK, NEW r \in Live PROVE r \in RowIds /\ rows[r] \in Row
  BY DEF TypeOK, Live

LEMMA WriteType ==
    ASSUME TypeOK, NEW e \in Entries, NEW s \in Shapes, AgentWrites(e, s)
    PROVE  TypeOK'
  <1> DEFINE n == last[e].access + IF s = "good" THEN 1 ELSE 0
             v == [shape |-> s, access |-> n]
  <1> USE DEF TypeOK
  <1>1. last[e].access \in Nat
    BY DEF Values, Gone
  <1>2. n \in Nat
    BY <1>1
  <1>3. v \in Values
    BY <1>2 DEF Values
  <1> HIDE DEF n
  <1>4. /\ hot' = [hot EXCEPT ![e] = v] /\ last' = [last EXCEPT ![e] = hot'[e]]
        /\ overtaken' \subseteq overtaken \cup {e}
        /\ UNCHANGED <<rows, runVars, recalled, clock, inserted, touched>>
    BY DEF AgentWrites, n
  <1> HIDE DEF v
  <1>5. hot' \in [Entries -> Values \cup {Gone}] /\ hot'[e] = v
    BY <1>3, <1>4
  <1>6. last' \in [Entries -> Values \cup {Gone}]
    BY <1>3, <1>4, <1>5
  <1>7. QED
    BY <1>4, <1>5, <1>6 DEF runVars

LEMMA StoreType ==
    ASSUME TypeOK, NEW left \in Lifetimes, StoreMemory(left)
    PROVE  TypeOK'
  <1>1. left \in Nat \cup {Never}
    BY MemoryAssumption
  <1>2. clock' \in [DOMAIN Limits -> Nat]
    BY SpendType DEF StoreMemory, Limits
  <1>3. rows' \in [RowIds -> Row \cup {Free}]
    BY <1>1, AddRowStep DEF StoreMemory
  <1>4. QED
    BY <1>2, <1>3 DEF TypeOK, StoreMemory, runVars, historyVars

LEMMA TouchType == ASSUME TypeOK, Touch PROVE TypeOK'
  <1>1. \A r \in RowIds : (IF r \in recalled \cap Live THEN [rows[r] EXCEPT !.idle = 0]
                           ELSE rows[r]) \in Row \cup {Free}
    <2>1. ASSUME NEW r \in Live PROVE [rows[r] EXCEPT !.idle = 0] \in Row
      BY LiveRow, RowFields
    <2>2. QED
      BY <2>1 DEF TypeOK
  <1>2. rows' \in [RowIds -> Row \cup {Free}]
    BY <1>1 DEF Touch
  <1>3. QED
    BY <1>2 DEF TypeOK, Touch, runVars

LEMMA NextDayType == ASSUME TypeOK, NextDay PROVE TypeOK'
  <1> DEFINE day(r) == IF r \notin Live THEN rows[r]
                       ELSE [rows[r] EXCEPT !.idle = @ + 1,
                                            !.left = IF @ \in Nat \ {0} THEN @ - 1 ELSE @]
  <1>1. \A r \in RowIds : day(r) \in Row \cup {Free}
    <2>1. ASSUME NEW r \in Live PROVE day(r) \in Row
      <3>1. rows[r] \in Row
        BY LiveRow
      <3>2. rows[r].idle + 1 \in Nat
        BY <3>1 DEF Row
      <3>3. (IF rows[r].left \in Nat \ {0} THEN rows[r].left - 1 ELSE rows[r].left)
              \in Nat \cup {Never}
        BY <3>1 DEF Row
      <3>4. QED
        BY <3>1, <3>2, <3>3, RowFields
    <2>2. QED
      BY <2>1 DEF TypeOK
  <1>2. rows' = [r \in RowIds |-> day(r)]
    BY DEF NextDay
  <1> HIDE DEF day
  <1>3. rows' \in [RowIds -> Row \cup {Free}]
    BY <1>1, <1>2
  <1>4. clock' \in [DOMAIN Limits -> Nat]
    BY SpendType DEF NextDay, Limits
  <1>5. QED
    BY <1>3, <1>4 DEF TypeOK, NextDay, runVars, historyVars

LEMMA StartType == ASSUME TypeOK, StartRun PROVE TypeOK'
  <1>1. CASE pass' = "promote" /\ UNCHANGED clock
    <2>1. batch' \in SUBSET (Entries \X Values) /\ overtaken' \subseteq Entries
      BY <1>1 DEF TypeOK, StartRun
    <2>2. QED
      BY <1>1, <2>1 DEF TypeOK, StartRun, Passes
  <1>2. CASE pass' = "decay" /\ Spend("faults")
    <2>1. clock' \in [DOMAIN Limits -> Nat]
      BY <1>2, SpendType DEF Limits
    <2>2. QED
      BY <1>2, <2>1 DEF TypeOK, StartRun, Passes
  <1>3. QED
    BY <1>1, <1>2 DEF StartRun

LEMMA PromoteType ==
    ASSUME TypeOK, NEW b \in batch, Promote(b) \/ PromoteFails(b)
    PROVE  TypeOK'
  <1> DEFINE of == <<b[1], b[2].access>>
  <1>1. of \in Entries \X Nat /\ b[1] \in Entries
    BY DEF TypeOK, Values
  <1>2. rows' \in [RowIds -> Row \cup {Free}]
    <2>1. AddRow(of, Never) \/ rows' = rows
      BY DEF Promote, PromoteFails
    <2>2. QED
      BY <1>1, <2>1, AddRowStep DEF TypeOK
  <1>3. clock' \in [DOMAIN Limits -> Nat]
    BY SpendType DEF Promote, PromoteFails, TypeOK, Limits
  <1>4. /\ inserted' \subseteq inserted \cup {of}
        /\ doomed' \subseteq doomed \cup {b[1]}
        /\ batch' \subseteq batch
        /\ UNCHANGED <<hot, pass, updates, removable, recalled, last, overtaken, touched>>
    BY DEF Promote, PromoteFails, Take
  <1>5. QED
    BY <1>1, <1>2, <1>3, <1>4 DEF TypeOK

LEMMA RemoveFieldType ==
    ASSUME TypeOK, NEW e \in Entries, RemoveField(e) \/ RemoveFieldFails(e)
    PROVE  TypeOK'
  <1>1. hot' \in [Entries -> Values \cup {Gone}]
    <2>1. hot' = hot \/ hot' = [hot EXCEPT ![e] = Gone]
      BY DEF RemoveField, RemoveFieldFails
    <2>2. QED
      BY <2>1 DEF TypeOK
  <1>2. clock' \in [DOMAIN Limits -> Nat]
    BY SpendType DEF RemoveField, RemoveFieldFails, TypeOK, Limits
  <1>3. QED
    BY <1>1, <1>2 DEF TypeOK, RemoveField, RemoveFieldFails, historyVars

LEMMA SelectType == ASSUME TypeOK, SelectStale PROVE TypeOK'
  <1> DEFINE S == {r \in Unexpired : rows[r].idle >= HalfLife /\ rows[r].faded < FloorDays}
  <1>1. \A r \in S : r \in RowIds /\ rows[r].faded + rows[r].idle \in Nat
    BY LiveRow DEF Unexpired, Row
  <1>2. updates' \subseteq RowIds \X Nat /\ removable' \subseteq RowIds
    BY <1>1 DEF SelectStale, Evaluate
  <1>3. QED
    BY <1>2 DEF TypeOK, SelectStale, Passes

LEMMA DecayType ==
    ASSUME TypeOK, NEW u \in updates, Decay(u) \/ DecayFails(u)
    PROVE  TypeOK'
  <1>1. u[1] \in RowIds /\ u[2] \in Nat
    BY DEF TypeOK
  <1>2. rows' \in [RowIds -> Row \cup {Free}]
    <2>1. CASE u[1] \in Live /\ rows' = [rows EXCEPT ![u[1]].faded = u[2]]
      <3>1. [rows[u[1]] EXCEPT !.faded = u[2]] \in Row
        BY <1>1, <2>1, LiveRow, RowFields
      <3>2. QED
        BY <1>1, <2>1, <3>1 DEF TypeOK
    <2>2. CASE rows' = rows
      BY <2>2 DEF TypeOK
    <2>3. QED
      BY <2>1, <2>2 DEF Decay, DecayFails
  <1>3. clock' \in [DOMAIN Limits -> Nat]
    BY SpendType DEF Decay, DecayFails, TypeOK, Limits
  <1>4. QED
    BY <1>2, <1>3 DEF TypeOK, Decay, DecayFails, historyVars

\* The steps that delete rows, or fail to.
LEMMA DeleteType == ASSUME TypeOK, Remove \/ Expire \/ Killed PROVE TypeOK'
  <1>1. rows' \in [RowIds -> Row \cup {Free}]
    BY DEF Remove, Expire, Killed, DeleteRows, TypeOK
  <1>2. clock' \in [DOMAIN Limits -> Nat]
    BY SpendType DEF Remove, Expire, Killed, TypeOK, Limits
  <1>3. pass' \in Passes
    BY DEF Remove, Expire, Killed, Passes
  <1>4. QED
    BY <1>1, <1>2, <1>3 DEF TypeOK, Remove, Expire, Killed, historyVars

LEMMA TypeOKStep == TypeOK /\ [Next]_vars => TypeOK'
  <1> SUFFICES ASSUME TypeOK, [Next]_vars PROVE TypeOK'
    OBVIOUS
  <1>1. ASSUME NEW e \in Entries, NEW s \in Shapes, AgentWrites(e, s) PROVE TypeOK'
    BY <1>1, WriteType
  <1>2. ASSUME NEW left \in Lifetimes, StoreMemory(left) PROVE TypeOK'
    BY <1>2, StoreType
  <1>3. ASSUME NEW S \in SUBSET Live, Recall(S) PROVE TypeOK'
    BY <1>3 DEF Recall, TypeOK, Live, runVars, historyVars
  <1>4. CASE Touch \/ NextDay
    BY <1>4, TouchType, NextDayType
  <1>5. CASE StartRun
    BY <1>5, StartType
  <1>6. ASSUME NEW b \in batch, Skip(b) \/ Stumble(b) PROVE TypeOK'
    BY <1>6 DEF Skip, Stumble, TypeOK, Passes, historyVars
  <1>7. ASSUME NEW b \in batch, Promote(b) \/ PromoteFails(b) PROVE TypeOK'
    BY <1>7, PromoteType
  <1>8. ASSUME NEW e \in Entries, RemoveField(e) \/ RemoveFieldFails(e) PROVE TypeOK'
    BY <1>8, RemoveFieldType
  <1>9. CASE EndPromotion
    BY <1>9 DEF EndPromotion, TypeOK, Passes, historyVars
  <1>10. CASE SelectStale
    BY <1>10, SelectType
  <1>11. ASSUME NEW u \in updates, Decay(u) \/ DecayFails(u) PROVE TypeOK'
    BY <1>11, DecayType
  <1>12. CASE Remove \/ Expire \/ Killed
    BY <1>12, DeleteType
  <1>13. CASE UNCHANGED vars
    BY <1>13 DEF vars, TypeOK, runVars, historyVars
  <1>14. QED
    BY <1>1, <1>2, <1>3, <1>4, <1>5, <1>6, <1>7, <1>8, <1>9, <1>10, <1>11, <1>12, <1>13
       DEF Next, RunStep

\* Every reachable state of hash, rows, run and callers is well typed.
THEOREM TypeCorrect == Spec => []TypeOK
  <1>1. Init => TypeOK
    BY InitTypeOK
  <1>2. TypeOK /\ [Next]_vars => TypeOK'
    BY TypeOKStep
  <1>3. QED
    BY <1>1, <1>2, PTL DEF Spec

-----------------------------------------------------------------------------
(* What the decay pass removes.                                            *)

\* What is to be removed was old when it was read, and is unless it was touched since.
StaleInv ==
    /\ removable # {} => pass = "update"
    /\ \A r \in removable : r \in Live => rows[r].idle >= HalfLife \/ r \in touched

\* Steps that leave age and touch alone.
LEMMA StaleKept ==
    ASSUME TypeOK, StaleInv, removable' \subseteq removable,
           removable' # {} => pass' = pass /\ touched \subseteq touched',
           \A r \in removable' : r \in Live' => r \in Live /\ rows'[r].idle = rows[r].idle
    PROVE  StaleInv'
  BY DEF StaleInv

LEMMA AddedElsewhere ==
    ASSUME TypeOK, NEW of \in (Entries \X Nat) \cup {Stored}, NEW left \in Nat \cup {Never},
           AddRow(of, left)
    PROVE  \A r \in removable : r \in RowIds /\ rows'[r] = rows[r]
  <1>1. PICK r \in FreeIds : \A s \in RowIds \ {r} : rows'[s] = rows[s]
    BY AddRowStep
  <1>2. r \notin removable
    BY <1>1 DEF FreeIds
  <1>3. QED
    BY <1>1, <1>2 DEF TypeOK

LEMMA StaleStep == TypeOK /\ StaleInv /\ [Next]_vars => StaleInv'
  <1> SUFFICES ASSUME TypeOK, StaleInv, [Next]_vars PROVE StaleInv'
    OBVIOUS
  <1> USE DEF runVars, historyVars
  <1>1. ASSUME NEW e \in Entries, NEW s \in Shapes, AgentWrites(e, s) PROVE StaleInv'
    BY <1>1, StaleKept DEF AgentWrites, Live
  <1>2. ASSUME NEW left \in Lifetimes, StoreMemory(left) PROVE StaleInv'
    <2>1. left \in Nat \cup {Never} /\ AddRow(Stored, left)
      BY <1>2, MemoryAssumption DEF StoreMemory
    <2>2. \A r \in removable : r \in RowIds /\ rows'[r] = rows[r]
      BY <2>1, AddedElsewhere
    <2>3. QED
      BY <1>2, <2>2, StaleKept DEF StoreMemory, Live
  <1>3. ASSUME NEW S \in SUBSET Live, Recall(S) PROVE StaleInv'
    BY <1>3, StaleKept DEF Recall, Live
  <1>4. CASE Touch
    <2>1. \A r \in RowIds \ (recalled \cap Live) : rows'[r] = rows[r]
      BY <1>4 DEF Touch
    <2>2. removable' = removable /\ pass' = pass
      BY <1>4 DEF Touch
    <2>3. CASE pass = "update"
      BY <1>4, <2>1, <2>2, <2>3 DEF Touch, StaleInv, Live
    <2>4. CASE pass # "update"
      BY <2>2, <2>4 DEF StaleInv
    <2>5. QED
      BY <2>3, <2>4
  <1>5. CASE NextDay
    BY <1>5 DEF NextDay, StaleInv
  <1>6. CASE StartRun
    BY <1>6 DEF StartRun, StaleInv
  <1>7. ASSUME NEW b \in batch, Skip(b) \/ Stumble(b) PROVE StaleInv'
    BY <1>7 DEF Skip, Stumble, StaleInv
  <1>8. ASSUME NEW b \in batch, Promote(b) \/ PromoteFails(b) PROVE StaleInv'
    BY <1>8 DEF Promote, PromoteFails, Take, StaleInv
  <1>9. ASSUME NEW e \in Entries, RemoveField(e) \/ RemoveFieldFails(e) PROVE StaleInv'
    BY <1>9, StaleKept DEF RemoveField, RemoveFieldFails, Live
  <1>10. CASE EndPromotion
    BY <1>10 DEF EndPromotion, StaleInv
  <1>11. CASE SelectStale
    <2>1. /\ pass' = "update" /\ UNCHANGED rows
          /\ removable' \subseteq {r \in Unexpired : rows[r].idle >= HalfLife}
      BY <1>11 DEF SelectStale, Evaluate
    <2>2. QED
      BY <2>1 DEF StaleInv
  <1>12. ASSUME NEW u \in updates, Decay(u) \/ DecayFails(u) PROVE StaleInv'
    <2>1. UNCHANGED <<pass, removable, touched>>
      BY <1>12 DEF Decay, DecayFails
    <2>2. CASE UNCHANGED rows
      BY <2>1, <2>2, StaleKept DEF Live
    <2>3. CASE u[1] \in Live /\ rows' = [rows EXCEPT ![u[1]].faded = u[2]]
      <3>1. \A r \in Live' : r \in Live /\ rows'[r].idle = rows[r].idle
        <4>1. u[2] \in Nat /\ u[1] \in RowIds /\ rows[u[1]] \in Row
          BY <2>3, LiveRow DEF TypeOK
        <4>2. [rows[u[1]] EXCEPT !.faded = u[2]].idle = rows[u[1]].idle
          BY <4>1, RowFields
        <4>3. QED
          BY <2>3, <4>1, <4>2 DEF Live, TypeOK
      <3>2. QED
        BY <2>1, <3>1, StaleKept
    <2>4. QED
      BY <1>12, <2>2, <2>3 DEF Decay, DecayFails
  <1>13. CASE Remove
    BY <1>13 DEF Remove, StaleInv
  <1>14. CASE Expire
    BY <1>14 DEF Expire, StaleInv
  <1>15. CASE Killed
    BY <1>15 DEF Killed, StaleInv
  <1>16. CASE UNCHANGED vars
    BY <1>16, StaleKept DEF vars, Live
  <1>17. QED
    BY <1>1, <1>2, <1>3, <1>4, <1>5, <1>6, <1>7, <1>8, <1>9, <1>10, <1>11, <1>12, <1>13, <1>14,
       <1>15, <1>16 DEF Next, RunStep

\* decay_stale_entries: what it removes nobody had accessed for half a life, or was recalled
\* after it had been read.
THEOREM RemovedIsStaleTheorem == Spec => RemovedIsStale
  <1>1. Init => TypeOK /\ StaleInv
    BY InitTypeOK DEF Init, StaleInv
  <1>2. TypeOK /\ StaleInv /\ [Next]_vars => (TypeOK /\ StaleInv)'
    BY TypeOKStep, StaleStep
  <1>3. TypeOK /\ StaleInv /\ [Next]_vars =>
          [\A r \in removable \ removable' :
             (r \in Live /\ rows'[r] = Free) => (rows[r].idle >= HalfLife \/ r \in touched)]_vars
    BY DEF StaleInv
  <1>4. QED
    BY <1>1, <1>2, <1>3, PTL DEF Spec, RemovedIsStale

-----------------------------------------------------------------------------
(* No value is promoted twice.                                             *)

\* What is inserted is a value that was written, and not one that a run may yet insert.
OnceHash ==
    /\ pass # "promote" => batch = {} /\ doomed = {}
    /\ \A d, e \in doomed : d = e
    /\ \A x \in inserted : x[2] <= last[x[1]].access
    /\ \A e \in Entries \ doomed :
         hot[e].shape = "good" => <<e, hot[e].access>> \notin inserted
    /\ \A b \in batch : /\ b[2].access <= last[b[1]].access
                        /\ b[2].shape = "good" => <<b[1], b[2].access>> \notin inserted
    /\ \A b, c \in batch : b[1] = c[1] => b = c

\* A promoted row's value is inserted, and is in no other row.
OnceRows ==
    /\ \A r \in Live : rows[r].of # Stored => rows[r].of \in inserted
    /\ \A r, s \in Live : (rows[r].of = rows[s].of /\ rows[r].of # Stored) => r = s

OnceInv == TypeOK /\ HashInv /\ (clock.faults = 0 => OnceHash /\ OnceRows)

\* A failure ends what the property says.
LEMMA FaultStep == ASSUME TypeOK, Spend("faults") PROVE clock'.faults # 0
  <1>1. clock.faults \in Nat /\ clock'.faults = clock.faults + 1
    BY DEF TypeOK, Limits, Spend
  <1>2. QED
    BY <1>1

\* Rows go, or come to another age.
LEMMA RowsKept ==
    ASSUME OnceRows, inserted \subseteq inserted',
           \A r \in Live' : r \in Live /\ rows'[r].of = rows[r].of
    PROVE  OnceRows'
  BY DEF OnceRows

LEMMA RowAdded ==
    ASSUME TypeOK, OnceRows, inserted \subseteq inserted',
           NEW of \in (Entries \X Nat) \cup {Stored}, NEW left \in Nat \cup {Never},
           AddRow(of, left), of = Stored \/ (of \notin inserted /\ of \in inserted')
    PROVE  OnceRows'
  <1>1. PICK r \in FreeIds : /\ rows'[r].of = of
                             /\ \A s \in RowIds \ {r} : rows'[s] = rows[s]
    BY AddRowStep
  <1>2. \A s \in Live' \ {r} : s \in Live /\ rows'[s].of = rows[s].of
    BY <1>1 DEF Live
  <1>3. \A s \in Live' \ {r} : rows'[s].of # Stored => rows'[s].of # of
    BY <1>2 DEF OnceRows
  <1>4. QED
    BY <1>1, <1>2, <1>3 DEF OnceRows

\* Steps that leave what is written, held and inserted alone.
LEMMA HashKept ==
    ASSUME OnceHash, UNCHANGED <<hot, last, inserted, doomed>>,
           batch' \subseteq batch, pass' # "promote" => batch' = {} /\ doomed' = {}
    PROVE  OnceHash'
  BY DEF OnceHash

\* A rewritten field has been accessed once more.
LEMMA WriteOnce ==
    ASSUME OnceInv, OnceHash, NEW e \in Entries, NEW s \in Shapes, AgentWrites(e, s)
    PROVE  OnceHash'
  <1> DEFINE n == last[e].access + IF s = "good" THEN 1 ELSE 0
             v == [shape |-> s, access |-> n]
  <1> USE DEF OnceInv, TypeOK
  <1>1. \A d \in Entries : last[d].access \in Nat
    BY DEF Values, Gone
  <1>2. n \in Nat /\ last[e].access <= n /\ (s = "good" => last[e].access < n)
    BY <1>1
  <1>3. v.shape = s /\ v.access = n
    OBVIOUS
  <1> HIDE DEF n
  <1>4. /\ hot' = [hot EXCEPT ![e] = v] /\ last' = [last EXCEPT ![e] = hot'[e]]
        /\ UNCHANGED <<pass, batch, doomed, inserted>>
    BY DEF AgentWrites, runVars, n
  <1> HIDE DEF v
  <1>5. /\ hot'[e] = v /\ last'[e] = v
        /\ \A d \in Entries \ {e} : hot'[d] = hot[d] /\ last'[d] = last[d]
    BY <1>4
  <1>6. \A d \in Entries : last[d].access <= last'[d].access
    BY <1>1, <1>2, <1>3, <1>5
  <1>7. /\ \A x \in inserted : x[1] \in Entries /\ x[2] \in Nat
        /\ \A b \in batch : b[1] \in Entries /\ b[2].access \in Nat
    BY DEF Values
  <1>8. \A x \in inserted' : x[2] <= last'[x[1]].access
    BY <1>1, <1>2, <1>3, <1>4, <1>5, <1>7 DEF OnceHash
  <1>9. \A b \in batch' : b[2].access <= last'[b[1]].access
    <2>1. ASSUME NEW b \in batch PROVE b[2].access <= last'[b[1]].access
      <3>1. b[1] \in Entries /\ b[2].access \in Nat /\ b[2].access <= last[b[1]].access
        BY <1>7 DEF OnceHash
      <3>2. last'[b[1]].access \in Nat
        BY <1>1, <1>2, <1>3, <1>5, <3>1
      <3>3. QED
        BY <1>1, <1>6, <3>1, <3>2
    <2>2. QED
      BY <1>4, <2>1
  <1>10. hot'[e].shape = "good" => <<e, hot'[e].access>> \notin inserted'
    BY <1>1, <1>2, <1>3, <1>4, <1>5 DEF OnceHash
  <1>11. QED
    BY <1>4, <1>5, <1>8, <1>9, <1>10 DEF OnceHash

\* The hash that a run reads has only values that were never inserted.
LEMMA StartOnce ==
    ASSUME OnceInv, OnceHash, StartRun, clock'.faults = 0
    PROVE  OnceHash'
  <1> USE DEF OnceInv, TypeOK
  <1>1. /\ pass = "idle" /\ pass' = "promote"
        /\ batch' = {<<e, hot[e]>> : e \in {f \in Entries : hot[f] # Gone}}
        /\ UNCHANGED <<hot, last, inserted, doomed>>
    BY FaultStep DEF StartRun
  <1>2. doomed = {}
    BY <1>1 DEF OnceHash
  <1>3. \A b \in batch' : /\ b[1] \in Entries /\ b[2] = hot[b[1]] /\ b = <<b[1], hot[b[1]]>>
                          /\ hot[b[1]] = last[b[1]]
    BY <1>1 DEF HashInv
  <1>4. \A b \in batch' : b[2].access <= last[b[1]].access
    BY <1>3 DEF Values, Gone
  <1>5. QED
    BY <1>1, <1>2, <1>3, <1>4 DEF OnceHash

LEMMA PromoteOnce ==
    ASSUME OnceInv, OnceHash, OnceRows, NEW b \in batch, Promote(b)
    PROVE  OnceHash' /\ OnceRows'
  <1> DEFINE of == <<b[1], b[2].access>>
  <1> USE DEF OnceInv, TypeOK
  <1>1. /\ batch' = batch \ {b} /\ doomed = {} /\ doomed' = {b[1]}
        /\ inserted' = inserted \cup {of}
        /\ pass = "promote" /\ UNCHANGED <<hot, last, pass>>
        /\ AddRow(of, Never) /\ b[2].shape = "good"
    BY DEF Promote, Take, Worthy
  <1>2. of \in Entries \X Nat /\ of \notin inserted
    BY <1>1 DEF OnceHash, Values
  <1>3. OnceRows'
    BY <1>1, <1>2, RowAdded
  <1>4. \A c \in batch' : c[1] # b[1]
    BY <1>1 DEF OnceHash
  <1>5. OnceHash'
    BY <1>1, <1>2, <1>4 DEF OnceHash
  <1>6. QED
    BY <1>3, <1>5

LEMMA RemoveFieldOnce ==
    ASSUME OnceInv, OnceHash, NEW e \in Entries, RemoveField(e)
    PROVE  OnceHash'
  <1> USE DEF OnceInv, TypeOK
  <1>1. /\ hot' = [hot EXCEPT ![e] = Gone] /\ e \in doomed /\ doomed' = {}
        /\ UNCHANGED <<pass, batch, last, inserted>>
    BY DEF RemoveField, historyVars
  <1>2. hot'[e].shape # "good" /\ \A d \in Entries \ {e} : hot'[d] = hot[d] /\ d \notin doomed
    BY <1>1 DEF OnceHash, Gone
  <1>3. QED
    BY <1>1, <1>2 DEF OnceHash

\* Nothing that comes to a row changes what it was made of.
LEMMA OfKept ==
    ASSUME TypeOK, NextDay \/ Touch \/ \E u \in updates : Decay(u)
    PROVE  \A r \in Live' : r \in Live /\ rows'[r].of = rows[r].of
  <1>1. CASE NextDay
    <2>1. ASSUME NEW r \in Live PROVE rows'[r].of = rows[r].of
      <3>1. rows[r] \in Row /\ r \in RowIds
        BY LiveRow
      <3>2. \E n, w : rows'[r] = [rows[r] EXCEPT !.idle = n, !.left = w]
        BY <1>1, <3>1 DEF NextDay
      <3>3. QED
        BY <3>1, <3>2 DEF Row
    <2>2. \A r \in Live' : r \in Live
      BY <1>1 DEF NextDay, Live
    <2>3. QED
      BY <2>1, <2>2
  <1>2. CASE Touch
    <2>1. ASSUME NEW r \in Live PROVE rows'[r].of = rows[r].of
      BY <1>2, LiveRow, RowFields DEF Touch
    <2>2. \A r \in Live' : r \in Live
      BY <1>2 DEF Touch, Live
    <2>3. QED
      BY <2>1, <2>2
  <1>3. ASSUME NEW u \in updates, Decay(u)
        PROVE  \A r \in Live' : r \in Live /\ rows'[r].of = rows[r].of
    <2>1. CASE rows' = rows
      BY <2>1 DEF Live
    <2>2. CASE u[1] \in Live /\ rows' = [rows EXCEPT ![u[1]].faded = u[2]]
      <3>1. u[2] \in Nat /\ u[1] \in RowIds /\ rows[u[1]] \in Row
        BY <2>2, LiveRow DEF TypeOK
      <3>2. [rows[u[1]] EXCEPT !.faded = u[2]].of = rows[u[1]].of
        BY <3>1, RowFields
      <3>3. QED
        BY <2>2, <3>1, <3>2 DEF Live, TypeOK
    <2>3. QED
      BY <1>3, <2>1, <2>2 DEF Decay
  <1>4. QED
    BY <1>1, <1>2, <1>3

LEMMA OnceStep ==
    ASSUME OnceInv, [Next]_vars, clock'.faults = 0
    PROVE  (clock.faults = 0 => OnceHash /\ OnceRows) => OnceHash' /\ OnceRows'
  <1> SUFFICES ASSUME clock.faults = 0 => OnceHash /\ OnceRows PROVE OnceHash' /\ OnceRows'
    OBVIOUS
  <1> USE DEF runVars, historyVars
  <1>1. ~Spend("faults") /\ clock.faults = 0
    <2>1. ~Spend("faults")
      BY FaultStep DEF OnceInv
    <2>2. clock'.faults = clock.faults
      BY <2>1 DEF OnceInv, TypeOK, Limits, Next, RunStep, AgentWrites, StoreMemory, Recall,
         Touch, NextDay, StartRun, Skip, Stumble, Promote, PromoteFails, RemoveField,
         RemoveFieldFails, EndPromotion, SelectStale, Decay, DecayFails, Remove, Expire,
         Killed, Spend, vars
    <2>3. QED
      BY <2>1, <2>2
  <1>2. OnceHash /\ OnceRows /\ TypeOK
    BY <1>1 DEF OnceInv
  <1>3. ASSUME NEW e \in Entries, NEW s \in Shapes, AgentWrites(e, s)
        PROVE  OnceHash' /\ OnceRows'
    BY <1>2, <1>3, WriteOnce, RowsKept DEF AgentWrites, Live
  <1>4. ASSUME NEW left \in Lifetimes, StoreMemory(left) PROVE OnceHash' /\ OnceRows'
    <2>1. left \in Nat \cup {Never} /\ AddRow(Stored, left)
      BY <1>4, MemoryAssumption DEF StoreMemory
    <2>2. OnceRows'
      BY <1>2, <1>4, <2>1, RowAdded DEF StoreMemory
    <2>3. OnceHash'
      BY <1>2, <1>4, HashKept DEF StoreMemory, OnceHash
    <2>4. QED
      BY <2>2, <2>3
  <1>5. ASSUME NEW S \in SUBSET Live, Recall(S) PROVE OnceHash' /\ OnceRows'
    BY <1>2, <1>5, HashKept, RowsKept DEF Recall, OnceHash, Live
  <1>6. CASE Touch \/ NextDay
    <2>1. OnceRows'
      BY <1>2, <1>6, OfKept, RowsKept DEF Touch, NextDay
    <2>2. OnceHash'
      BY <1>2, <1>6, HashKept DEF Touch, NextDay, OnceHash
    <2>3. QED
      BY <2>1, <2>2
  <1>7. CASE StartRun
    BY <1>2, <1>7, StartOnce, RowsKept DEF StartRun, Live
  <1>8. ASSUME NEW b \in batch, Skip(b) \/ Stumble(b) PROVE OnceHash' /\ OnceRows'
    <2>1. /\ UNCHANGED <<hot, rows, last, inserted, doomed>>
          /\ batch' \subseteq batch /\ doomed = {} /\ pass = "promote"
          /\ pass' = "promote" \/ batch' = {}
      BY <1>8 DEF Skip, Stumble
    <2>2. QED
      BY <1>2, <2>1, HashKept, RowsKept DEF Live
  <1>9. ASSUME NEW b \in batch, Promote(b) PROVE OnceHash' /\ OnceRows'
    BY <1>2, <1>9, PromoteOnce
  <1>10. ASSUME NEW e \in Entries, RemoveField(e) PROVE OnceHash' /\ OnceRows'
    BY <1>2, <1>10, RemoveFieldOnce, RowsKept DEF RemoveField, Live
  <1>11. CASE EndPromotion
    BY <1>2, <1>11, HashKept, RowsKept DEF EndPromotion, Live
  <1>12. CASE SelectStale
    BY <1>2, <1>12, HashKept, RowsKept DEF SelectStale, OnceHash, Live
  <1>13. ASSUME NEW u \in updates, Decay(u) PROVE OnceHash' /\ OnceRows'
    <2>1. OnceRows'
      BY <1>2, <1>13, OfKept, RowsKept DEF Decay
    <2>2. OnceHash'
      BY <1>2, <1>13, HashKept DEF Decay, OnceHash
    <2>3. QED
      BY <2>1, <2>2
  <1>14. CASE Remove \/ Expire
    <2>1. \A r \in Live' : r \in Live /\ rows'[r].of = rows[r].of
      BY <1>1, <1>14 DEF Remove, Expire, DeleteRows, Live
    <2>2. OnceRows'
      BY <1>2, <1>14, <2>1, RowsKept DEF Remove, Expire
    <2>3. OnceHash'
      BY <1>2, <1>14, HashKept DEF Remove, Expire, OnceHash
    <2>4. QED
      BY <2>2, <2>3
  <1>15. CASE UNCHANGED vars
    BY <1>2, <1>15, HashKept, RowsKept DEF vars, OnceHash, Live
  <1>16. QED
    BY <1>1, <1>3, <1>4, <1>5, <1>6, <1>7, <1>8, <1>9, <1>10, <1>11, <1>12, <1>13, <1>14, <1>15
       DEF Next, RunStep, PromoteFails, RemoveFieldFails, DecayFails, Killed

\* promote_working_memory: no two rows hold the same promoted value, unless something
\* failed between INSERT and HDEL.
THEOREM PromotedOnceTheorem == Spec => []PromotedOnce
  <1> DEFINE Inv == IInv /\ OnceInv
  <1>1. Init => Inv
    <2>1. Init => OnceInv
      BY InitTypeOK DEF Init, OnceInv, HashInv, OnceHash, OnceRows, Live, Gone
    <2>2. QED
      BY <2>1, InitIInv
  <1>2. Inv /\ [Next]_vars => Inv'
    <2>1. OnceInv /\ [Next]_vars /\ IInv' => OnceInv'
      BY TypeOKStep, OnceStep DEF OnceInv, IInv
    <2>2. QED
      BY <2>1, IInvStep
  <1>3. Inv => PromotedOnce
    BY DEF OnceInv, OnceRows, PromotedOnce
  <1>4. QED
    BY <1>1, <1>2, <1>3, PTL DEF Spec
=============================================================================
