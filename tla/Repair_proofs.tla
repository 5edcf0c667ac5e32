---------------------------- MODULE Repair_proofs ----------------------------
(***************************************************************************)
(* Theorems about Repair, for any namespaces, _ids, texts and versions,    *)
(* and any number of failures and writes.                                  *)
(***************************************************************************)
EXTENDS Repair, FiniteSetTheorems, TLAPS

Collections == [NS -> [IDs -> Versions \cup {NoDoc}]]

LEMMA Bounds ==
  NoDoc \notin Versions /\ NoNS \notin NS /\ MaxFaults \in Nat /\ MaxWrites \in Nat
  BY RepairAssumption

LEMMA ReportType ==
  ASSUME NEW n \in NS, NEW r \in Reports(n)
  PROVE  r \in [passed : BOOLEAN, missing : SUBSET IDs, different : SUBSET IDs]
  BY DEF Reports, Sampled, MissingDocs, DifferentDocs

LEMMA InitType == Init => TypeOK
<1> SUFFICES ASSUME Init PROVE TypeOK
  OBVIOUS
<1>1. PICK data \in InitialData : src = data[1] /\ tgt = data[2]
  BY DEF Init
<1>2. src \in Collections /\ tgt \in Collections
  BY <1>1, RepairAssumption DEF Collections
<1>3. report \in [NS -> [passed : BOOLEAN, missing : SUBSET IDs, different : SUBSET IDs]]
  <2>1. PICK R : report \in [NS -> R]
    BY DEF Init
  <2>2. \A n \in NS : report[n] \in Reports(n)
    BY DEF Init
  <2>3. \A n \in NS :
           report[n] \in [passed : BOOLEAN, missing : SUBSET IDs, different : SUBSET IDs]
    BY <2>2, ReportType
  <2> QED BY <2>1, <2>3
<1>4. had \in [NS -> [IDs -> SUBSET (Versions \cup {NoDoc})]]
  BY <1>2 DEF Init, Collections
<1>5. results \in [NS -> [visited : BOOLEAN, fixed : Nat, failed : Nat]]
  BY DEF Init
<1> QED BY <1>2, <1>3, <1>4, <1>5, RepairAssumption DEF Init, TypeOK, Collections

(* Counting a sample.                                                      *)
LEMMA CountType ==
  ASSUME TypeOK, current \in NS, CountFixed \/ CountFailed
  PROVE  results' \in [NS -> [visited : BOOLEAN, fixed : Nat, failed : Nat]]
<1>1. /\ results \in [NS -> [visited : BOOLEAN, fixed : Nat, failed : Nat]]
      /\ results[current].fixed + 1 \in Nat /\ results[current].failed + 1 \in Nat
  BY DEF TypeOK
<1> QED BY <1>1 DEF CountFixed, CountFailed

LEMMA SampleType ==
  ASSUME TypeOK, NEW text, NextSample(text)
  PROVE  /\ current \in NS /\ doc = {}
         /\ missing' \in SUBSET IDs /\ different' \in SUBSET IDs
  BY DEF NextSample, TypeOK

LEMMA DocType ==
  ASSUME TypeOK, NEW d \in doc
  PROVE  /\ current \in NS /\ d.id \in IDs /\ d.version \in Versions
         /\ Upserted(d) \in Collections
<1>1. /\ current \in NS
      /\ \E id \in IDs, v \in Versions : d = [id |-> id, version |-> v]
  BY DEF TypeOK
<1>2. d.id \in IDs /\ d.version \in Versions
  BY <1>1
<1> QED BY <1>1, <1>2 DEF TypeOK, Upserted, Collections

LEMMA NextType == TypeOK /\ [Next]_vars => TypeOK'
<1> SUFFICES ASSUME TypeOK, [Next]_vars PROVE TypeOK'
  OBVIOUS
<1> USE Bounds
<1>1. ASSUME NEW n \in NS, Visit(n) PROVE TypeOK'
  <2>1. report[n].missing \in SUBSET IDs /\ report[n].different \in SUBSET IDs
    BY DEF TypeOK
  <2>2. NewRepairResult \in [visited : BOOLEAN, fixed : Nat, failed : Nat]
    BY DEF NewRepairResult
  <2>3. doc = {}
    BY <1>1 DEF Visit, TypeOK
  <2>4. results' \in [NS -> [visited : BOOLEAN, fixed : Nat, failed : Nat]]
    BY <1>1, <2>2 DEF Visit, TypeOK
  <2>5. missing' \in SUBSET IDs /\ different' \in SUBSET IDs /\ current' \in NS \cup {NoNS}
    BY <1>1, <2>1 DEF Visit, TypeOK
  <2> QED BY <1>1, <2>3, <2>4, <2>5 DEF Visit, OutsideWorld, TypeOK
<1>2. CASE Leave
  BY <1>2 DEF Leave, OutsideWorld, TypeOK
<1>3. CASE NoExtractedID
  BY <1>3, SampleType DEF NoExtractedID, OutsideWorld, TypeOK
<1>4. CASE FindInSource
  <2>1. PICK text \in Texts :
           /\ NextSample(text)
           /\ \E id \in Named(text) :
                 src[current][id] # NoDoc /\ doc' = {[id |-> id, version |-> src[current][id]]}
    BY <1>4 DEF FindInSource
  <2>2. PICK id \in IDs :
           src[current][id] # NoDoc /\ doc' = {[id |-> id, version |-> src[current][id]]}
    BY <2>1 DEF Named
  <2>3. /\ current \in NS /\ missing' \in SUBSET IDs /\ different' \in SUBSET IDs
        /\ src[current][id] \in Versions
    BY <2>1, <2>2, SampleType DEF TypeOK
  <2> QED BY <1>4, <2>2, <2>3 DEF FindInSource, OutsideWorld, TypeOK
<1>5. CASE NotInSource
  <2>1. PICK text \in Texts : NextSample(text)
    BY <1>5 DEF NotInSource
  <2>2. faults' \in 0 .. MaxFaults
    BY <1>5 DEF NotInSource, Fault, TypeOK
  <2> QED BY <1>5, <2>1, <2>2, SampleType, CountType DEF NotInSource, TypeOK
<1>6. CASE Replace
  <2>1. PICK d \in doc : tgt' = Upserted(d)
    BY <1>6 DEF Replace
  <2>2. tgt' \in Collections /\ current \in NS
    BY <2>1, DocType
  <2> QED BY <1>6, <2>2, CountType DEF Replace, TypeOK, Collections
<1>7. CASE ReplaceFails
  <2>1. PICK d \in doc : tgt' \in {tgt, Upserted(d)}
    BY <1>7 DEF ReplaceFails
  <2>2. tgt' \in Collections /\ current \in NS
    BY <2>1, DocType DEF TypeOK, Collections
  <2>3. faults' \in 0 .. MaxFaults
    BY <1>7 DEF ReplaceFails, Fault, TypeOK
  <2> QED BY <1>7, <2>2, <2>3, CountType DEF ReplaceFails, TypeOK, Collections
<1>8. ASSUME NEW n \in NS, NEW id \in IDs, NEW v \in Versions \cup {NoDoc},
             SourceWrite(n, id, v)
      PROVE  TypeOK'
  BY <1>8 DEF SourceWrite, repairVars, TypeOK
<1>9. ASSUME NEW n \in NS, NEW id \in IDs, Replicate(n, id) PROVE TypeOK'
  BY <1>9 DEF Replicate, repairVars, TypeOK
<1>10. CASE UNCHANGED vars
  BY <1>10 DEF vars, repairVars, TypeOK
<1> QED BY <1>1, <1>2, <1>3, <1>4, <1>5, <1>6, <1>7, <1>8, <1>9, <1>10
        DEF Next, RepairStep, Environment

(* Types, whatever the samples' texts lead to.                             *)
THEOREM RepairTypeCorrect == Spec => []TypeOK
  BY InitType, NextType, PTL DEF Spec

-----------------------------------------------------------------------------
(* The document in hand is one the source has had, and still has unless    *)
(* somebody wrote it since.                                                *)
InHand ==
    \A d \in doc :
        /\ d.version \in had[current][d.id]
        /\ d.id \notin touched[current] => src[current][d.id] = d.version

Genuine ==
    /\ InHand
    /\ \A n \in NS, id \in IDs : src[n][id] \in had[n][id]
    /\ OnlySourceVersions

LEMMA InitGenuine == Init => Genuine
<1> SUFFICES ASSUME Init PROVE Genuine
  OBVIOUS
<1>1. doc = {} /\ had = [n \in NS |-> [id \in IDs |-> {src[n][id], tgt[n][id]}]]
  BY DEF Init
<1> QED BY <1>1 DEF Genuine, InHand, OnlySourceVersions

(* The samples and the counters lead nowhere.                              *)
LEMMA BookkeepingGenuine ==
  ASSUME Genuine, UNCHANGED <<src, tgt, touched, had>>,
         doc' = {} \/ UNCHANGED <<doc, current>>
  PROVE  Genuine'
  BY DEF Genuine, InHand, OnlySourceVersions

LEMMA FindGenuine == ASSUME TypeOK, Genuine, FindInSource PROVE Genuine'
<1>1. PICK text \in Texts :
         /\ NextSample(text)
         /\ \E id \in Named(text) :
                 src[current][id] # NoDoc /\ doc' = {[id |-> id, version |-> src[current][id]]}
  BY DEF FindInSource
<1>2. PICK id \in IDs : doc' = {[id |-> id, version |-> src[current][id]]}
  BY <1>1 DEF Named
<1>3. UNCHANGED <<src, tgt, touched, had, current>> /\ current \in NS
  BY <1>1, SampleType DEF FindInSource, OutsideWorld
<1> QED BY <1>2, <1>3 DEF Genuine, InHand, OnlySourceVersions

(* What a write of the document in hand leaves.                            *)
LEMMA UpsertGenuine ==
  ASSUME TypeOK, Genuine, NEW d \in doc, tgt' \in {tgt, Upserted(d)}, doc' = {},
         UNCHANGED <<src, touched, had>>
  PROVE  Genuine'
<1>1. current \in NS /\ d.id \in IDs /\ d.version \in had[current][d.id]
  BY DocType DEF Genuine, InHand
<1>2. \A n \in NS, id \in IDs : tgt'[n][id] \in {tgt[n][id]} \cup
          (IF n = current /\ id = d.id THEN {d.version} ELSE {})
  BY <1>1 DEF Upserted, TypeOK
<1> QED BY <1>1, <1>2 DEF Genuine, InHand, OnlySourceVersions

LEMMA WriteGenuine ==
  ASSUME TypeOK, Genuine, NEW n \in NS, NEW id \in IDs, NEW v \in Versions \cup {NoDoc},
         SourceWrite(n, id, v)
  PROVE  Genuine'
<1>1. /\ src' = [src EXCEPT ![n][id] = v]
      /\ touched' = [touched EXCEPT ![n] = @ \cup {id}]
      /\ had' = [had EXCEPT ![n][id] = @ \cup {v}]
      /\ UNCHANGED <<tgt, doc, current>>
  BY DEF SourceWrite, repairVars
<1>2. \A m \in NS, x \in IDs :
         /\ src'[m][x] = IF m = n /\ x = id THEN v ELSE src[m][x]
         /\ had'[m][x] = IF m = n /\ x = id THEN had[m][x] \cup {v} ELSE had[m][x]
  BY <1>1 DEF TypeOK
<1>3. \A m \in NS : touched'[m] = IF m = n THEN touched[m] \cup {id} ELSE touched[m]
  BY <1>1 DEF TypeOK
<1>4. ASSUME NEW d \in doc
      PROVE  /\ d.version \in had'[current][d.id]
             /\ d.id \notin touched'[current] => src'[current][d.id] = d.version
  <2>1. current \in NS /\ d.id \in IDs
    BY DocType
  <2>2. /\ d.version \in had[current][d.id]
        /\ d.id \notin touched[current] => src[current][d.id] = d.version
    BY DEF Genuine, InHand
  <2> QED BY <1>2, <1>3, <2>1, <2>2
<1> QED BY <1>1, <1>2, <1>4 DEF Genuine, InHand, OnlySourceVersions

LEMMA ReplicateGenuine ==
  ASSUME TypeOK, Genuine, NEW n \in NS, NEW id \in IDs, Replicate(n, id)
  PROVE  Genuine'
<1>1. /\ UNCHANGED <<src, touched, had, doc, current>>
      /\ tgt' = [tgt EXCEPT ![n][id] = src[n][id]]
  BY DEF Replicate, repairVars
<1>2. \A m \in NS, x \in IDs : tgt'[m][x] \in {tgt[m][x], src[m][x]}
  BY <1>1 DEF TypeOK
<1> QED BY <1>1, <1>2 DEF Genuine, InHand, OnlySourceVersions

LEMMA NextGenuine == TypeOK /\ Genuine /\ [Next]_vars => Genuine'
<1> SUFFICES ASSUME TypeOK, Genuine, [Next]_vars PROVE Genuine'
  OBVIOUS
<1>1. ASSUME NEW n \in NS, Visit(n) PROVE Genuine'
  <2>1. doc = {} /\ doc' = {}
    BY <1>1 DEF Visit, TypeOK
  <2> QED BY <1>1, <2>1, BookkeepingGenuine DEF Visit, OutsideWorld
<1>2. CASE Leave
  BY <1>2, BookkeepingGenuine DEF Leave, OutsideWorld
<1>3. CASE NoExtractedID \/ NotInSource
  BY <1>3, BookkeepingGenuine DEF NoExtractedID, NotInSource, OutsideWorld
<1>4. CASE FindInSource
  BY <1>4, FindGenuine
<1>5. CASE Replace \/ ReplaceFails
  BY <1>5, UpsertGenuine DEF Replace, ReplaceFails
<1>6. CASE UNCHANGED vars
  BY <1>6, BookkeepingGenuine DEF vars, repairVars
<1> QED BY <1>1, <1>2, <1>3, <1>4, <1>5, <1>6, WriteGenuine, ReplicateGenuine
        DEF Next, RepairStep, Environment

(* The target never holds anything under an _id but what it had or the     *)
(* source has had there.                                                   *)
THEOREM NothingInvented == Spec => []OnlySourceVersions
<1>1. Genuine => OnlySourceVersions
  BY DEF Genuine
<1> QED BY InitType, NextType, InitGenuine, NextGenuine, <1>1, PTL DEF Spec

LEMMA StepKeepsSync ==
  ASSUME TypeOK, Genuine, [Next]_vars, NEW n \in NS, NEW id \in IDs,
         InSync(n, id), id \notin touched'[n]
  PROVE  InSync(n, id)'
<1> USE DEF InSync
<1>1. CASE UNCHANGED <<src, tgt>>
  BY <1>1
<1>2. CASE Replace \/ ReplaceFails
  <2>1. PICK d \in doc : tgt' \in {tgt, Upserted(d)}
    BY <1>2 DEF Replace, ReplaceFails
  <2>2. UNCHANGED <<src, touched>>
    BY <1>2 DEF Replace, ReplaceFails
  <2>3. current \in NS /\ d.id \in IDs
    BY DocType
  <2>4. d.id \notin touched[current] => src[current][d.id] = d.version
    BY DEF Genuine, InHand
  <2>5. tgt'[n][id] \in {tgt[n][id]} \cup
            (IF n = current /\ id = d.id THEN {d.version} ELSE {})
    BY <2>1, <2>3 DEF Upserted, TypeOK
  <2> QED BY <2>2, <2>4, <2>5
<1>3. ASSUME NEW m \in NS, NEW x \in IDs, NEW v \in Versions \cup {NoDoc},
             SourceWrite(m, x, v)
      PROVE  InSync(n, id)'
  BY <1>3 DEF SourceWrite, TypeOK
<1>4. ASSUME NEW m \in NS, NEW x \in IDs, Replicate(m, x) PROVE InSync(n, id)'
  BY <1>4 DEF Replicate, TypeOK
<1>5. ASSUME \/ \E m \in NS : Visit(m)
             \/ Leave \/ NoExtractedID \/ FindInSource \/ NotInSource
             \/ UNCHANGED vars
      PROVE  UNCHANGED <<src, tgt>>
  BY <1>5 DEF Visit, Leave, NoExtractedID, FindInSource, NotInSource, OutsideWorld, vars
<1> QED BY <1>1, <1>2, <1>3, <1>4, <1>5 DEF Next, RepairStep, Environment

(* Repair breaks nothing: a document in sync that nobody writes stays in   *)
(* sync, through failed and half-failed writes.                            *)
THEOREM RepairBreaksNothing == Spec => InSyncStays
<1>1. TypeOK /\ Genuine /\ [Next]_vars =>
        [\A n \in NS, id \in IDs :
           InSync(n, id) /\ id \notin touched'[n] => InSync(n, id)']_vars
  BY StepKeepsSync
<1> QED BY InitType, NextType, InitGenuine, NextGenuine, <1>1, PTL DEF Spec, InSyncStays

-----------------------------------------------------------------------------
(* Samples and their texts.                                                *)
Extractable(ids) == {id \in ids : id.text # <<>>}

LEMMA TextType == ASSUME NEW id \in IDs PROVE id.text \in Seq(Words)
  BY RepairAssumption

LEMMA TextAndTypeAreTheID ==
  ASSUME NEW i \in IDs, NEW j \in IDs, i.type = j.type, i.text = j.text PROVE i = j
<1>1. /\ i \in [type : {"string", "other"}, text : Seq(Words)]
      /\ j \in [type : {"string", "other"}, text : Seq(Words)]
  BY RepairAssumption
<1>2. i = [type |-> i.type, text |-> i.text] /\ j = [type |-> j.type, text |-> j.text]
  BY <1>1
<1> QED BY <1>2

LEMMA OneWordIsExtracted ==
  ASSUME NEW id \in IDs, Len(id.text) = 1 PROVE extractID(id.text) = id.text /\ id.text # <<>>
<1> DEFINE t == id.text
<1>1. t \in Seq(Words) /\ Len(t) = 1
  BY TextType
<1> HIDE DEF t
<1>2. t # <<>>
  BY <1>1
<1>3. <<Head(t)>> = t
  BY <1>1
<1> QED BY <1>2, <1>3 DEF extractID, t

LEMMA NothingExtracted ==
  ASSUME NEW text PROVE extractID(text) = <<>> <=> text = <<>>
<1>1. <<Head(text)>> # <<>>
  OBVIOUS
<1> QED BY <1>1 DEF extractID

(* The next sample is taken from the missing ones, or from the different   *)
(* ones.                                                                   *)
LEMMA SampleTaken ==
  ASSUME TypeOK, NEW text, NextSample(text)
  PROVE  \E x \in IDs :
            \/ /\ FromMissing /\ x \in missing /\ text = x.text
               /\ missing' = missing \ {x} /\ different' = different
            \/ /\ ~FromMissing /\ x \in different /\ text = extractID(x.text)
               /\ different' = different \ {x} /\ missing' = missing
  BY DEF NextSample, FromMissing, TypeOK

-----------------------------------------------------------------------------
(* How many samples are counted, and how many are still to count.          *)
Total(n) == Cardinality(report[n].missing) + Cardinality(Extractable(report[n].different))

ToCount == Cardinality(missing) + Cardinality(Extractable(different))
                                + IF doc = {} THEN 0 ELSE 1

Counted(n) == results[n].fixed + results[n].failed

CountInv ==
    /\ \A n \in NS : report[n].passed => report[n].missing = {} /\ report[n].different = {}
    /\ current # NoNS =>
           /\ current \notin todo
           /\ results[current].visited /\ ~report[current].passed
           /\ Counted(current) + ToCount = Total(current)
    /\ \A n \in todo : ~results[n].visited /\ results[n].fixed = 0 /\ results[n].failed = 0
    /\ \A n \in NS \ todo : n # current =>
           /\ results[n].visited <=> ~report[n].passed
           /\ Counted(n) = Total(n)

LEMMA CountsAreNumbers ==
  ASSUME NEW ids \in SUBSET IDs
  PROVE  /\ IsFiniteSet(ids) /\ Cardinality(ids) \in Nat
         /\ IsFiniteSet(Extractable(ids)) /\ Cardinality(Extractable(ids)) \in Nat
<1>1. ids \subseteq IDs /\ Extractable(ids) \subseteq IDs
  BY DEF Extractable
<1> QED BY <1>1, RepairAssumption, FS_Subset, FS_CardinalityType

(* A sample less; one that has no extracted _id was not to be counted.     *)
LEMMA OneSampleLess ==
  ASSUME NEW ids \in SUBSET IDs, NEW x \in ids
  PROVE  /\ Cardinality(ids \ {x}) = Cardinality(ids) - 1
         /\ Cardinality(Extractable(ids \ {x})) =
               IF x.text = <<>> THEN Cardinality(Extractable(ids))
               ELSE Cardinality(Extractable(ids)) - 1
<1>1. IsFiniteSet(ids) /\ IsFiniteSet(Extractable(ids))
  BY CountsAreNumbers
<1>2. Extractable(ids \ {x}) = Extractable(ids) \ {x}
  BY DEF Extractable
<1>3. x \in Extractable(ids) <=> x.text # <<>>
  BY DEF Extractable
<1> QED BY <1>1, <1>2, <1>3, FS_RemoveElement

LEMMA InitCounts == Init => CountInv
<1> SUFFICES ASSUME Init PROVE CountInv
  OBVIOUS
<1>1. ASSUME NEW n \in NS, report[n].passed
      PROVE  report[n].missing = {} /\ report[n].different = {}
  <2>1. report[n] \in Reports(n)
    BY DEF Init
  <2>2. src[n] = tgt[n]
    BY <1>1, <2>1 DEF Reports
  <2>3. MissingDocs(n) = {} /\ DifferentDocs(n) = {}
    BY <2>2 DEF MissingDocs, DifferentDocs, InSync
  <2> QED BY <2>1, <2>3 DEF Reports, Sampled
<1> QED BY <1>1 DEF Init, CountInv

(* What the types say of the reports and the results.                      *)
LEMMA ResultTypes ==
  ASSUME TypeOK, NEW n \in NS
  PROVE  /\ results[n] \in [visited : BOOLEAN, fixed : Nat, failed : Nat]
         /\ report[n].missing \in SUBSET IDs /\ report[n].different \in SUBSET IDs
         /\ report[n].passed \in BOOLEAN
  BY DEF TypeOK

LEMMA VisitCounts == ASSUME TypeOK, CountInv, NEW n \in NS, Visit(n) PROVE CountInv'
<1>1. /\ current = NoNS /\ n \in todo /\ todo' = todo \ {n} /\ doc' = doc /\ doc = {}
      /\ report' = report /\ current # n
  BY RepairAssumption DEF Visit, TypeOK
<1>2. CASE report[n].passed /\ UNCHANGED <<current, missing, different, results>>
  <2>1. Counted(n) = 0 /\ ~results[n].visited
    BY <1>1, ResultTypes DEF CountInv, Counted
  <2>2. Total(n) = 0
    <3>1. report[n].missing = {} /\ Extractable(report[n].different) = {}
      BY <1>2 DEF CountInv, Extractable
    <3> QED BY <3>1, FS_EmptySet DEF Total
  <2>3. \A m \in NS : Counted(m)' = Counted(m) /\ Total(m)' = Total(m)
    BY <1>1, <1>2 DEF Counted, Total
  <2> QED BY <1>1, <1>2, <2>1, <2>2, <2>3 DEF CountInv
<1>3. CASE /\ ~report[n].passed
           /\ current' = n
           /\ missing' = report[n].missing
           /\ different' = report[n].different
           /\ results' = [results EXCEPT ![n] = NewRepairResult]
  <2>1. /\ results'[n].visited /\ results'[n].fixed = 0 /\ results'[n].failed = 0
        /\ \A m \in NS \ {n} : results'[m] = results[m]
    BY <1>3 DEF NewRepairResult, TypeOK
  <2>2. ToCount' = Total(n) /\ Total(n) \in Nat
    <3>1. Cardinality(report[n].missing) \in Nat
          /\ Cardinality(Extractable(report[n].different)) \in Nat
      BY ResultTypes, CountsAreNumbers
    <3> QED BY <1>1, <1>3, <3>1 DEF ToCount, Total, Extractable
  <2>3. Counted(n)' = 0
    BY <2>1 DEF Counted
  <2>4. \A m \in NS : Total(m)' = Total(m)
    BY <1>1 DEF Total
  <2>5. \A m \in NS \ {n} : Counted(m)' = Counted(m)
    BY <2>1 DEF Counted
  <2>6. Counted(current)' + ToCount' = Total(current)'
    BY <1>1, <1>3, <2>2, <2>3, <2>4
  <2>7. ASSUME NEW m \in NS \ todo', m # current'
        PROVE  /\ results'[m].visited <=> ~report'[m].passed
               /\ Counted(m)' = Total(m)'
    <3>1. m \in NS \ todo /\ m # n /\ m # current
      BY <1>1, <1>3, <2>7, RepairAssumption
    <3> QED BY <1>1, <2>1, <2>4, <2>5, <3>1 DEF CountInv
  <2> QED BY <1>1, <1>3, <2>1, <2>6, <2>7 DEF CountInv
<1> QED BY <1>2, <1>3 DEF Visit

(* Nothing but the count of the namespace in hand changes.                 *)
LEMMA CountsKept ==
  ASSUME TypeOK, CountInv, current \in NS, current # NoNS, UNCHANGED <<report, todo, current>>,
         results'[current].visited = results[current].visited,
         \A n \in NS : n # current => results'[n] = results[n],
         \A n \in NS : n # current => Counted(n)' = Counted(n),
         \A n \in NS : Total(n)' = Total(n),
         Counted(current)' + ToCount' = Total(current)'
  PROVE  CountInv'
<1>1. \A n \in todo : n \in NS /\ n # current
  BY DEF TypeOK, CountInv
<1>2. current' # NoNS =>
           /\ current' \notin todo'
           /\ results'[current'].visited /\ ~report'[current'].passed
           /\ Counted(current)' + ToCount' = Total(current)'
  BY DEF CountInv
<1>3. \A n \in NS \ todo' : n # current' =>
           /\ results'[n].visited <=> ~report'[n].passed
           /\ Counted(n)' = Total(n)'
  BY DEF CountInv
<1>4. \A n \in todo' : ~results'[n].visited /\ results'[n].fixed = 0 /\ results'[n].failed = 0
  BY <1>1 DEF CountInv
<1>5. \A n \in NS : report'[n].passed => report'[n].missing = {} /\ report'[n].different = {}
  BY DEF CountInv
<1> QED BY <1>2, <1>3, <1>4, <1>5 DEF CountInv

(* A sample less to count, counted or in hand.                             *)
LEMMA SampleCounts ==
  ASSUME TypeOK, CountInv, NEW text, NextSample(text), FromMissing \/ text # <<>>,
         UNCHANGED <<report, todo, current>>,
         \/ Cardinality(doc') = 1 /\ doc' # {} /\ results' = results
         \/ doc' = {} /\ CountFailed
  PROVE  CountInv'
<1>1. current \in NS /\ doc = {} /\ current # NoNS /\ current \notin todo
  BY SampleType, Bounds DEF CountInv
<1>2. /\ results \in [NS -> [visited : BOOLEAN, fixed : Nat, failed : Nat]]
      /\ missing \in SUBSET IDs /\ different \in SUBSET IDs
  BY DEF TypeOK
<1>3. /\ Cardinality(missing) \in Nat /\ Cardinality(Extractable(different)) \in Nat
  BY <1>2, CountsAreNumbers
<1>4. \/ /\ Cardinality(missing') = Cardinality(missing) - 1 /\ different' = different
      \/ /\ missing' = missing
         /\ Cardinality(Extractable(different')) = Cardinality(Extractable(different)) - 1
  <2>1. PICK x \in IDs :
            \/ /\ FromMissing /\ x \in missing /\ text = x.text
               /\ missing' = missing \ {x} /\ different' = different
            \/ /\ ~FromMissing /\ x \in different /\ text = extractID(x.text)
               /\ different' = different \ {x} /\ missing' = missing
    BY SampleTaken
  <2>2. CASE FromMissing
    BY <1>2, <2>1, <2>2, OneSampleLess
  <2>3. CASE ~FromMissing
    <3>1. x.text # <<>>
      BY <2>1, <2>3, NothingExtracted
    <3> QED BY <1>2, <2>1, <2>3, <3>1, OneSampleLess
  <2> QED BY <2>2, <2>3
<1>5. ToCount' + (IF doc' = {} THEN 1 ELSE 0) = ToCount /\ ToCount \in Nat /\ ToCount' \in Nat
  <2>1. Extractable(different)' = Extractable(different')
    BY DEF Extractable
  <2>2. ToCount = Cardinality(missing) + Cardinality(Extractable(different))
    BY <1>1, <1>3 DEF ToCount
  <2>3. ToCount' = Cardinality(missing') + Cardinality(Extractable(different'))
                       + IF doc' = {} THEN 0 ELSE 1
    BY <2>1 DEF ToCount
  <2>4. Cardinality(missing') \in Nat /\ Cardinality(Extractable(different')) \in Nat
    BY SampleType, CountsAreNumbers
  <2> QED BY <1>3, <1>4, <2>2, <2>3, <2>4
<1>6. Counted(current) \in Nat
      /\ Counted(current)' = Counted(current) + (IF doc' = {} THEN 1 ELSE 0)
      /\ results'[current].visited = results[current].visited
      /\ \A n \in NS : n # current => results'[n] = results[n]
  <2>1. CASE doc' = {} /\ CountFailed
    <3>1. results' = [results EXCEPT ![current] = [results[current] EXCEPT !.failed = @ + 1]]
      BY <2>1 DEF CountFailed
    <3>2. results[current].failed \in Nat /\ results[current].fixed \in Nat
      BY <1>1, <1>2
    <3>3. /\ results'[current].failed = results[current].failed + 1
          /\ results'[current].fixed = results[current].fixed
          /\ results'[current].visited = results[current].visited
      BY <1>1, <1>2, <3>1
    <3>4. \A n \in NS : n # current => results'[n] = results[n]
      BY <1>2, <3>1
    <3> QED BY <2>1, <3>2, <3>3, <3>4 DEF Counted
  <2>2. CASE doc' # {} /\ results' = results
    BY <1>1, <1>2, <2>2 DEF Counted
  <2> QED BY <2>1, <2>2
<1>7. \A n \in NS : Total(n)' = Total(n)
  BY DEF Total
<1>8. Counted(current) + ToCount = Total(current)
  BY <1>1 DEF CountInv
<1>9. Counted(current)' + ToCount' = Total(current)'
  <2> DEFINE i == IF doc' = {} THEN 1 ELSE 0
  <2>1. Total(current)' = Total(current)
    BY DEF Total
  <2>2. i \in Nat /\ ToCount' + i = ToCount /\ Counted(current)' = Counted(current) + i
    BY <1>5, <1>6
  <2> HIDE DEF i
  <2>3. ToCount' \in Nat /\ Counted(current) \in Nat
    BY <1>5, <1>6
  <2> QED BY <1>8, <2>1, <2>2, <2>3
<1>10. \A n \in NS : n # current => Counted(n)' = Counted(n)
  BY <1>6 DEF Counted
<1> QED BY <1>1, <1>6, <1>7, <1>9, <1>10, CountsKept

LEMMA SkippedCounts == ASSUME TypeOK, CountInv, NoExtractedID PROVE CountInv'
<1>1. NextSample(<<>>) /\ ~FromMissing /\ UNCHANGED <<report, todo, current, doc, results>>
  BY DEF NoExtractedID
<1>2. missing \in SUBSET IDs /\ different \in SUBSET IDs
  BY DEF TypeOK
<1>3. PICK x \in different : <<>> = extractID(x.text) /\ different' = different \ {x}
                             /\ missing' = missing
  BY <1>1, SampleTaken
<1>4. x.text = <<>>
  BY <1>3, NothingExtracted
<1>5. Cardinality(Extractable(different')) = Cardinality(Extractable(different))
  BY <1>2, <1>3, <1>4, OneSampleLess
<1>6. ToCount' = ToCount
  BY <1>1, <1>3, <1>5 DEF ToCount, Extractable
<1>7. \A n \in NS : Total(n)' = Total(n) /\ Counted(n)' = Counted(n)
  BY <1>1 DEF Total, Counted
<1>8. current # NoNS => current \in NS
  BY DEF TypeOK
<1> QED BY <1>1, <1>6, <1>7, <1>8 DEF CountInv

(* The document in hand is written, or not: it is counted.                 *)
LEMMA WriteCounts ==
  ASSUME TypeOK, CountInv, doc # {}, doc' = {}, CountFixed \/ CountFailed,
         UNCHANGED <<report, todo, current, missing, different>>
  PROVE  CountInv'
<1>1. current \in NS /\ current # NoNS /\ current \notin todo
  BY Bounds DEF TypeOK, CountInv
<1>2. /\ results \in [NS -> [visited : BOOLEAN, fixed : Nat, failed : Nat]]
      /\ results[current].failed \in Nat /\ results[current].fixed \in Nat
  BY <1>1 DEF TypeOK
<1>3. Counted(current)' = Counted(current) + 1
      /\ results'[current].visited = results[current].visited
      /\ \A n \in NS : n # current => results'[n] = results[n]
  <2>1. CASE CountFailed
    <3>1. results' = [results EXCEPT ![current] = [results[current] EXCEPT !.failed = @ + 1]]
      BY <2>1 DEF CountFailed
    <3>2. /\ results'[current].failed = results[current].failed + 1
          /\ results'[current].fixed = results[current].fixed
          /\ results'[current].visited = results[current].visited
      BY <1>1, <1>2, <3>1
    <3>3. \A n \in NS : n # current => results'[n] = results[n]
      BY <1>2, <3>1
    <3> QED BY <1>2, <3>2, <3>3 DEF Counted
  <2>2. CASE CountFixed
    <3>1. results' = [results EXCEPT ![current] = [results[current] EXCEPT !.fixed = @ + 1]]
      BY <2>2 DEF CountFixed
    <3>2. /\ results'[current].fixed = results[current].fixed + 1
          /\ results'[current].failed = results[current].failed
          /\ results'[current].visited = results[current].visited
      BY <1>1, <1>2, <3>1
    <3>3. \A n \in NS : n # current => results'[n] = results[n]
      BY <1>2, <3>1
    <3> QED BY <1>2, <3>2, <3>3 DEF Counted
  <2> QED BY <2>1, <2>2
<1>4. ToCount = ToCount' + 1 /\ ToCount' \in Nat
  <2>1. Cardinality(missing) \in Nat /\ Cardinality(Extractable(different)) \in Nat
    BY CountsAreNumbers DEF TypeOK
  <2> QED BY <2>1 DEF ToCount, Extractable
<1>5. \A n \in NS : Total(n)' = Total(n)
  BY DEF Total
<1>6. Counted(current) + ToCount = Total(current) /\ Counted(current) \in Nat
  BY <1>1, <1>2 DEF CountInv, Counted
<1>7. Counted(current)' + ToCount' = Total(current)'
  BY <1>1, <1>3, <1>4, <1>5, <1>6
<1>8. \A n \in NS : n # current => Counted(n)' = Counted(n)
  BY <1>3 DEF Counted
<1> QED BY <1>1, <1>3, <1>5, <1>7, <1>8, CountsKept

LEMMA LeaveCounts == ASSUME TypeOK, CountInv, Leave PROVE CountInv'
<1>1. /\ current \in NS /\ current # NoNS /\ missing = {} /\ different = {} /\ doc = {}
      /\ current' = NoNS /\ UNCHANGED <<report, todo, results>>
  BY DEF Leave, TypeOK
<1>2. ToCount = 0
  <2>1. Extractable(different) = {}
    BY <1>1 DEF Extractable
  <2> QED BY <1>1, <2>1, FS_EmptySet DEF ToCount
<1>3. Counted(current) = Total(current)
  <2>1. Counted(current) \in Nat
    BY <1>1, ResultTypes DEF Counted
  <2> QED BY <1>1, <1>2, <2>1 DEF CountInv
<1>4. \A n \in NS : Total(n)' = Total(n) /\ Counted(n)' = Counted(n)
  BY <1>1 DEF Total, Counted
<1> QED BY <1>1, <1>3, <1>4 DEF CountInv

LEMMA NextCounts == TypeOK /\ CountInv /\ [Next]_vars => CountInv'
<1> SUFFICES ASSUME TypeOK, CountInv, [Next]_vars PROVE CountInv'
  OBVIOUS
<1>1. CASE FindInSource
  <2>1. PICK text \in Texts :
           /\ FromMissing \/ text # <<>>
           /\ NextSample(text)
           /\ \E id \in Named(text) : doc' = {[id |-> id, version |-> src[current][id]]}
    BY <1>1 DEF FindInSource
  <2>2. PICK d : doc' = {d}
    BY <2>1
  <2>3. Cardinality(doc') = 1 /\ doc' # {}
    BY <2>2, FS_Singleton
  <2> QED BY <1>1, <2>1, <2>3, SampleCounts DEF FindInSource, OutsideWorld
<1>2. CASE NotInSource
  <2>1. PICK text \in Texts : (FromMissing \/ text # <<>>) /\ NextSample(text)
    BY <1>2 DEF NotInSource
  <2>2. doc = {} /\ doc' = doc /\ CountFailed /\ UNCHANGED <<report, todo, current>>
    BY <1>2, <2>1 DEF NotInSource, NextSample
  <2> QED BY <2>1, <2>2, SampleCounts
<1>3. CASE Replace \/ ReplaceFails
  BY <1>3, WriteCounts DEF Replace, ReplaceFails
<1>4. CASE Environment \/ UNCHANGED vars
  <2>1. UNCHANGED <<report, todo, current, missing, different, doc, results>>
    BY <1>4 DEF Environment, SourceWrite, Replicate, repairVars, vars
  <2>2. ToCount' = ToCount /\ \A n \in NS : Total(n)' = Total(n) /\ Counted(n)' = Counted(n)
    BY <2>1 DEF ToCount, Total, Counted, Extractable
  <2>3. current # NoNS => current \in NS
    BY DEF TypeOK
  <2> QED BY <2>1, <2>2, <2>3 DEF CountInv
<1> QED BY <1>1, <1>2, <1>3, <1>4, VisitCounts, LeaveCounts, SkippedCounts
        DEF Next, RepairStep

(* Every sample is counted once, as fixed or as failed, however the texts  *)
(* collide and whatever fails.                                             *)
THEOREM SamplesCounted == Spec => []EverySampleCounted
<1>1. TypeOK /\ CountInv => EverySampleCounted
  <2> SUFFICES ASSUME TypeOK, CountInv, Finished, NEW n \in NS
               PROVE  /\ results[n].visited <=> ~report[n].passed
                      /\ Counted(n) = Total(n)
    BY DEF EverySampleCounted, Counted, Total, Extractable
  <2>1. n \in NS \ todo /\ n # current
    BY Bounds DEF Finished
  <2> QED BY <2>1 DEF CountInv
<1> QED BY <1>1, InitType, NextType, InitCounts, NextCounts, PTL DEF Spec

-----------------------------------------------------------------------------
(* As long as no access has failed, a repairable document that nobody      *)
(* wrote is in the source, and in sync unless its turn is still to come.   *)
ToFind(id) == id \in missing \/ (id \in different /\ Len(id.text) = 1)

Waiting(n, id) ==
    \/ n \in todo
    \/ n = current /\ (ToFind(id) \/ \E d \in doc : d.id = id)

RepairProgress ==
    faults = 0 =>
        \A n \in NS : \A id \in Repairable(n) \ touched[n] :
            /\ src[n][id] # NoDoc
            /\ InSync(n, id) \/ Waiting(n, id)

LEMMA RepairableType ==
  ASSUME TypeOK, NEW n \in NS, NEW id \in Repairable(n)
  PROVE  /\ id \in IDs /\ id.type = "string"
         /\ id \in report[n].missing \/ (id \in report[n].different /\ Len(id.text) = 1)
  BY ResultTypes DEF Repairable

LEMMA InitProgress == Init => RepairProgress
<1> SUFFICES ASSUME Init, NEW n \in NS, NEW id \in Repairable(n)
             PROVE  src[n][id] # NoDoc /\ Waiting(n, id)
  BY DEF RepairProgress
<1>1. report[n] \in Reports(n) /\ todo = NS
  BY DEF Init
<1>2. report[n].missing \subseteq MissingDocs(n) /\ report[n].different \subseteq DifferentDocs(n)
  BY <1>1 DEF Reports, Sampled
<1>3. id \in MissingDocs(n) \/ id \in DifferentDocs(n)
  BY <1>2 DEF Repairable
<1> QED BY <1>1, <1>3 DEF Waiting, MissingDocs, DifferentDocs

(* The text of a sample to find is that of its _id.                        *)
LEMMA SampleText ==
  ASSUME TypeOK, NEW text, NextSample(text), NEW id \in IDs, ToFind(id), ~ToFind(id)'
  PROVE  text = id.text /\ (FromMissing \/ text # <<>>)
<1>1. PICK x \in IDs :
            \/ /\ FromMissing /\ x \in missing /\ text = x.text
               /\ missing' = missing \ {x} /\ different' = different
            \/ /\ ~FromMissing /\ x \in different /\ text = extractID(x.text)
               /\ different' = different \ {x} /\ missing' = missing
  BY SampleTaken
<1>2. x = id
  BY <1>1 DEF ToFind
<1>3. CASE FromMissing
  BY <1>1, <1>2, <1>3
<1>4. CASE ~FromMissing
  <2>1. Len(id.text) = 1
    BY <1>4 DEF ToFind, FromMissing
  <2> QED BY <1>1, <1>2, <1>4, <2>1, OneWordIsExtracted
<1> QED BY <1>3, <1>4

(* What a step may not do to a repairable document that nobody wrote.      *)
LEMMA ProgressKept ==
  ASSUME TypeOK, Genuine, RepairProgress, [Next]_vars, UNCHANGED <<src, touched, report>>,
         faults' = 0 => faults = 0,
         \A n \in NS : \A id \in Repairable(n) \ touched[n] :
             faults = 0 /\ faults' = 0 /\ src[n][id] # NoDoc /\ Waiting(n, id)
                 => InSync(n, id)' \/ Waiting(n, id)'
  PROVE  RepairProgress'
<1> SUFFICES ASSUME faults' = 0, NEW n \in NS, NEW id \in Repairable(n) \ touched[n]
             PROVE  src'[n][id] # NoDoc /\ (InSync(n, id)' \/ Waiting(n, id)')
  BY DEF RepairProgress, Repairable
<1>1. faults = 0 /\ src[n][id] # NoDoc /\ (InSync(n, id) \/ Waiting(n, id))
  BY DEF RepairProgress
<1>2. id \in IDs
  BY RepairableType
<1>3. InSync(n, id) => InSync(n, id)'
  BY <1>2, StepKeepsSync
<1> QED BY <1>1, <1>3

LEMMA NextProgress ==
  ASSUME TypeOK, Genuine, CountInv, RepairProgress, [Next]_vars PROVE RepairProgress'
<1>1. ASSUME NEW m \in NS, Visit(m) PROVE RepairProgress'
  <2>1. /\ current = NoNS /\ m \in todo /\ todo' = todo \ {m} /\ doc = {}
        /\ UNCHANGED <<report, src, touched, faults>>
    BY <1>1 DEF Visit, OutsideWorld, TypeOK
  <2>2. ASSUME NEW n \in NS, NEW id \in Repairable(n), Waiting(n, id) PROVE Waiting(n, id)'
    <3>1. CASE n # m
      <4>1. n \in todo
        BY <2>1, <2>2, Bounds DEF Waiting
      <4> QED BY <2>1, <3>1, <4>1 DEF Waiting
    <3>2. CASE n = m
      <4>1. ~report[m].passed
        <5>1. report[m].passed => Repairable(m) = {}
          BY DEF CountInv, Repairable
        <5> QED BY <3>2, <5>1
      <4>2. current' = m /\ missing' = report[m].missing /\ different' = report[m].different
        BY <1>1, <4>1 DEF Visit
      <4>3. id \in report[n].missing \/ (id \in report[n].different /\ Len(id.text) = 1)
        BY RepairableType
      <4> QED BY <3>2, <4>2, <4>3 DEF Waiting, ToFind
    <3> QED BY <3>1, <3>2
  <2> QED BY <2>1, <2>2, ProgressKept
<1>2. CASE Leave
  <2>1. /\ missing = {} /\ different = {} /\ doc = {} /\ todo' = todo
        /\ UNCHANGED <<report, src, touched, faults>>
    BY <1>2 DEF Leave, OutsideWorld
  <2>2. ASSUME NEW n \in NS, NEW id, Waiting(n, id) PROVE Waiting(n, id)'
    BY <2>1, <2>2 DEF Waiting, ToFind
  <2> QED BY <2>1, <2>2, ProgressKept
<1>3. CASE NoExtractedID
  <2>1. /\ NextSample(<<>>) /\ ~FromMissing
        /\ UNCHANGED <<report, src, touched, faults, todo, current, doc>>
    BY <1>3 DEF NoExtractedID, OutsideWorld
  <2>2. ASSUME NEW n \in NS, NEW id \in Repairable(n), Waiting(n, id) PROVE Waiting(n, id)'
    <3>1. id \in IDs
      BY RepairableType
    <3>2. ToFind(id) => ToFind(id)'
      BY <2>1, <3>1, SampleText
    <3> QED BY <2>1, <2>2, <3>2 DEF Waiting
  <2> QED BY <2>1, <2>2, ProgressKept
<1>4. CASE FindInSource
  <2>1. PICK text \in Texts :
           /\ NextSample(text)
           /\ \E id \in Named(text) : doc' = {[id |-> id, version |-> src[current][id]]}
    BY <1>4 DEF FindInSource
  <2>2. PICK x \in Named(text) : doc' = {[id |-> x, version |-> src[current][x]]}
    BY <2>1
  <2>3. UNCHANGED <<report, src, touched, faults, todo, current>> /\ doc = {}
    BY <1>4, <2>1 DEF FindInSource, OutsideWorld, NextSample
  <2>4. ASSUME NEW n \in NS, NEW id \in Repairable(n), Waiting(n, id) PROVE Waiting(n, id)'
    <3>1. id \in IDs /\ id.type = "string"
      BY RepairableType
    <3>2. ASSUME n = current, ToFind(id), ~ToFind(id)' PROVE \E d \in doc' : d.id = id
      <4>1. text = id.text
        BY <2>1, <3>1, <3>2, SampleText
      <4>2. x = id
        BY <3>1, <4>1, TextAndTypeAreTheID DEF Named
      <4> QED BY <2>2, <4>2
    <3> QED BY <2>3, <2>4, <3>2 DEF Waiting
  <2> QED BY <2>3, <2>4, ProgressKept
<1>5. CASE NotInSource
  <2>1. PICK text \in Texts :
           /\ NextSample(text)
           /\ \/ (\A id \in Named(text) : src[current][id] = NoDoc) /\ UNCHANGED faults
              \/ Fault
    BY <1>5 DEF NotInSource
  <2>2. UNCHANGED <<report, src, touched, todo, current, doc>>
    BY <1>5 DEF NotInSource
  <2>3. faults' = 0 => faults = 0 /\ \A id \in Named(text) : src[current][id] = NoDoc
    BY <2>1 DEF Fault, TypeOK
  <2>4. ASSUME NEW n \in NS, NEW id \in Repairable(n), faults' = 0, src[n][id] # NoDoc,
               Waiting(n, id)
        PROVE  Waiting(n, id)'
    <3>1. id \in IDs /\ id.type = "string"
      BY RepairableType
    <3>2. ASSUME n = current, ToFind(id), ~ToFind(id)' PROVE FALSE
      <4>1. text = id.text
        BY <2>1, <3>1, <3>2, SampleText
      <4> QED BY <2>3, <2>4, <3>1, <3>2, <4>1 DEF Named
    <3> QED BY <2>2, <2>4, <3>2 DEF Waiting
  <2> QED BY <2>2, <2>3, <2>4, ProgressKept
<1>6. CASE Replace
  <2>1. PICK d \in doc : tgt' = Upserted(d)
    BY <1>6 DEF Replace
  <2>2. UNCHANGED <<report, todo, current, missing, different, src, faults, touched>>
    BY <1>6 DEF Replace
  <2>3. current \in NS /\ d.id \in IDs /\ doc = {d}
    BY <2>1, DocType DEF TypeOK
  <2>4. ASSUME NEW n \in NS, NEW id \in Repairable(n) \ touched[n], Waiting(n, id)
        PROVE  InSync(n, id)' \/ Waiting(n, id)'
    <3>1. CASE n = current /\ id = d.id
      <4>1. src[current][d.id] = d.version
        BY <3>1 DEF Genuine, InHand
      <4>2. tgt'[current][d.id] = d.version
        BY <2>1, <2>3 DEF Upserted, TypeOK
      <4> QED BY <2>2, <3>1, <4>1, <4>2 DEF InSync
    <3>2. CASE ~(n = current /\ id = d.id)
      BY <2>2, <2>3, <2>4, <3>2 DEF Waiting, ToFind
    <3> QED BY <3>1, <3>2
  <2> QED BY <2>2, <2>4, ProgressKept
<1>7. CASE ReplaceFails
  <2>1. faults' # 0
    BY <1>7 DEF ReplaceFails, Fault, TypeOK
  <2> QED BY <2>1 DEF RepairProgress
<1>8. ASSUME NEW m \in NS, NEW x \in IDs, NEW v \in Versions \cup {NoDoc}, SourceWrite(m, x, v)
      PROVE  RepairProgress'
  <2>1. /\ src' = [src EXCEPT ![m][x] = v]
        /\ touched' = [touched EXCEPT ![m] = @ \cup {x}]
        /\ UNCHANGED <<report, todo, current, missing, different, doc, tgt, faults>>
    BY <1>8 DEF SourceWrite, repairVars
  <2> SUFFICES ASSUME faults' = 0, NEW n \in NS, NEW id \in Repairable(n)', id \notin touched'[n]
               PROVE  src'[n][id] # NoDoc /\ (InSync(n, id)' \/ Waiting(n, id)')
    BY DEF RepairProgress
  <2>2. id \in Repairable(n) /\ id \notin touched[n] /\ ~(n = m /\ id = x)
    BY <2>1 DEF Repairable, TypeOK
  <2>3. id \in IDs
    BY <2>2, RepairableType
  <2>4. src'[n][id] = src[n][id]
    BY <2>1, <2>2, <2>3 DEF TypeOK
  <2>5. src[n][id] # NoDoc /\ (InSync(n, id) \/ Waiting(n, id))
    BY <2>1, <2>2 DEF RepairProgress
  <2> QED BY <2>1, <2>4, <2>5 DEF InSync, Waiting, ToFind
<1>9. ASSUME NEW m \in NS, NEW x \in IDs, Replicate(m, x) PROVE RepairProgress'
  <2>1. UNCHANGED <<report, todo, current, missing, different, doc, src, touched, faults>>
    BY <1>9 DEF Replicate, repairVars
  <2> QED BY <2>1, ProgressKept DEF Waiting, ToFind
<1>10. CASE UNCHANGED vars
  <2>1. UNCHANGED <<report, todo, current, missing, different, doc, src, touched, faults>>
    BY <1>10 DEF vars, repairVars
  <2> QED BY <2>1, ProgressKept DEF Waiting, ToFind
<1> QED BY <1>1, <1>2, <1>3, <1>4, <1>5, <1>6, <1>7, <1>8, <1>9, <1>10
        DEF Next, RepairStep, Environment

(* When RepairAll has returned and no access has failed, every sampled     *)
(* document with a string _id that its text leads back to is in sync       *)
(* unless somebody wrote it meanwhile.                                     *)
THEOREM SampledDocsRepaired == Spec => []RepairedDocsInSync
<1>1. TypeOK /\ RepairProgress => RepairedDocsInSync
  <2> SUFFICES ASSUME TypeOK, RepairProgress, Finished, faults = 0,
                      NEW n \in NS, NEW id \in Repairable(n) \ touched[n]
               PROVE  InSync(n, id)
    BY DEF RepairedDocsInSync
  <2>1. ~Waiting(n, id)
    BY Bounds DEF Waiting, Finished
  <2> QED BY <2>1 DEF RepairProgress
<1>2. TypeOK /\ Genuine /\ CountInv /\ RepairProgress /\ [Next]_vars => RepairProgress'
  BY NextProgress
<1> QED BY <1>1, <1>2, InitType, NextType, InitGenuine, NextGenuine, InitCounts, NextCounts,
           InitProgress, PTL DEF Spec
=============================================================================
