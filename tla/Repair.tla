------------------------------- MODULE Repair -------------------------------
(***************************************************************************)
(* internal/repair/repairer.go: RepairAll copies the documents that the    *)
(* report's samples name from the source to the target, while applications *)
(* may go on writing to the source and the migration to the target.        *)
(*                                                                         *)
(* The samples hold the text of an _id, and repairDoc looks the text up as *)
(* a string, so what a sample finds depends on the type of the _id and,    *)
(* for a different document, on where extractID cuts the text.  An _id is  *)
(* a record of its type and its text; a text is the sequence of its words, *)
(* separated by ' ' or '|'.                                                *)
(***************************************************************************)
EXTENDS Naturals, Sequences, FiniteSets

CONSTANTS
    NS,           \* namespaces in the report
    Words,        \* what a text holds between blanks and bars
    IDs,          \* _ids: [type : {"string", "other"}, text : Seq(Words)]
    Versions,     \* what a document can be
    InitialData,  \* <<source, target>> pairs that the report is about
    SampleCap,    \* 50 in the code
    MaxFaults,    \* bound: failing accesses
    MaxWrites,    \* bound: changes from outside
    NoNS          \* no collection in hand

NoDoc == 0

ASSUME RepairAssumption ==
    /\ NoDoc \notin Versions
    /\ NoNS \notin NS
    /\ IDs \subseteq [type : {"string", "other"}, text : Seq(Words)]
    /\ IsFiniteSet(IDs)
    /\ SampleCap \in Nat
    /\ MaxFaults \in Nat
    /\ MaxWrites \in Nat
    /\ InitialData \subseteq [NS -> [IDs -> Versions \cup {NoDoc}]]
                          \X [NS -> [IDs -> Versions \cup {NoDoc}]]

VARIABLES
    src, tgt,      \* the two clusters
    report,        \* per namespace: passed, and the two samples
    todo,          \* namespaces RepairAll has still to visit
    current,       \* the namespace in hand, or NoNS
    missing,       \* samples of current that repairCollection has to go through:
    different,     \* ... first these, then these
    doc,           \* what repairDoc has read from the source: {} or one document
    results,       \* RepairResult of the namespaces visited
    faults, writes,
    \* observations:
    touched,       \* documents changed from outside since the report was made
    had            \* versions that the source has had of each document

repairVars == <<report, todo, current, missing, different, doc, results>>
vars == <<repairVars, src, tgt, faults, writes, touched, had>>

OutsideWorld == <<src, tgt, faults, writes, touched, had>>

-----------------------------------------------------------------------------
(* What the report says: the first documents of each kind, up to the cap,  *)
(* by the text of their _id; any choice of them here.                      *)
InSync(n, id) == src[n][id] = tgt[n][id]
MissingDocs(n) == {id \in IDs : src[n][id] # NoDoc /\ tgt[n][id] = NoDoc}
DifferentDocs(n) ==
    {id \in IDs : src[n][id] # NoDoc /\ tgt[n][id] # NoDoc /\ ~InSync(n, id)}

Sampled(ids) ==
    {s \in SUBSET ids :
        Cardinality(s) = IF Cardinality(ids) < SampleCap THEN Cardinality(ids) ELSE SampleCap}

Reports(n) ==
    [passed : {tgt[n] = src[n]},
     missing : Sampled(MissingDocs(n)),
     different : Sampled(DifferentDocs(n))]

(* extractID: up to the first blank or bar.                                *)
extractID(text) == IF text = <<>> THEN <<>> ELSE <<Head(text)>>

(* What { _id: text } matches.                                             *)
Named(text) == {id \in IDs : id.type = "string" /\ id.text = text}

-----------------------------------------------------------------------------
(* RepairAll: for ns, data := range rpt.GetData().                         *)
NewRepairResult == [visited |-> TRUE, fixed |-> 0, failed |-> 0]

Visit(n) ==
    /\ current = NoNS
    /\ n \in todo
    /\ todo' = todo \ {n}
    /\ \/ report[n].passed /\ UNCHANGED <<current, missing, different, results>>
       \/ /\ ~report[n].passed
          /\ current' = n
          /\ missing' = report[n].missing
          /\ different' = report[n].different
          /\ results' = [results EXCEPT ![n] = NewRepairResult]
    /\ UNCHANGED <<report, doc, OutsideWorld>>

(* Mutant of Leave: a namespace with failures is visited again.            *)
LeaveUnlessFailed ==
    /\ current # NoNS
    /\ missing = {} /\ different = {} /\ doc = {}
    /\ current' = NoNS
    /\ todo' = IF results[current].failed > 0 THEN todo \cup {current} ELSE todo
    /\ UNCHANGED <<report, missing, different, doc, results, OutsideWorld>>

(* Mutant of Leave: the different documents are left out.                  *)
LeaveAfterMissing ==
    /\ current # NoNS
    /\ missing = {} /\ doc = {}
    /\ current' = NoNS
    /\ UNCHANGED <<report, todo, missing, different, doc, results, OutsideWorld>>

(* The end of repairCollection.                                            *)
Leave ==
    /\ current # NoNS
    /\ missing = {} /\ different = {} /\ doc = {}
    /\ current' = NoNS
    /\ UNCHANGED <<report, todo, missing, different, doc, results, OutsideWorld>>

(* The next sample: the missing ones as they are, then the different ones, *)
(* cut by extractID.                                                       *)
NextSample(text) ==
    /\ current # NoNS
    /\ doc = {}
    /\ \/ \E id \in missing :
              text = id.text /\ missing' = missing \ {id} /\ UNCHANGED different
       \/ /\ missing = {}
          /\ \E id \in different :
                 text = extractID(id.text) /\ different' = different \ {id}
          /\ UNCHANGED missing

Texts == {id.text : id \in IDs} \cup {extractID(id.text) : id \in IDs}
FromMissing == missing # {}

(* A different document whose text begins with a blank has no extracted    *)
(* _id: it is passed over and counted nowhere.                             *)
NoExtractedID ==
    /\ ~FromMissing
    /\ NextSample(<<>>)
    /\ UNCHANGED <<report, todo, current, doc, results, OutsideWorld>>

(* Mutant of FindInSource: no document is taken for an empty one.          *)
FindInSourceUnchecked ==
    /\ \E text \in Texts :
           /\ FromMissing \/ text # <<>>
           /\ NextSample(text)
           /\ \E id \in Named(text) : doc' = {[id |-> id, version |-> src[current][id]]}
    /\ UNCHANGED <<report, todo, current, results, OutsideWorld>>

(* repairDoc: FindOne on the source finds the document ...                 *)
FindInSource ==
    /\ \E text \in Texts :
           /\ FromMissing \/ text # <<>>
           /\ NextSample(text)
           /\ \E id \in Named(text) :
                  /\ src[current][id] # NoDoc
                  /\ doc' = {[id |-> id, version |-> src[current][id]]}
    /\ UNCHANGED <<report, todo, current, results, OutsideWorld>>

Fault == faults < MaxFaults /\ faults' = faults + 1
CountFixed == results' = [results EXCEPT ![current].fixed = @ + 1]
CountFailed == results' = [results EXCEPT ![current].failed = @ + 1]

(* Mutant of NotInSource: the first failure ends the collection.           *)
NotInSourceAborts ==
    /\ \E text \in Texts :
           /\ FromMissing \/ text # <<>>
           /\ current # NoNS /\ doc = {}
           /\ \E id \in missing \cup different : text \in {id.text, extractID(id.text)}
           /\ \A id \in Named(text) : src[current][id] = NoDoc
    /\ missing' = {} /\ different' = {}
    /\ CountFailed
    /\ UNCHANGED <<report, todo, current, doc, OutsideWorld>>

(* ... or does not find it, or fails.                                      *)
NotInSource ==
    /\ \E text \in Texts :
           /\ FromMissing \/ text # <<>>
           /\ NextSample(text)
           /\ \/ (\A id \in Named(text) : src[current][id] = NoDoc) /\ UNCHANGED faults
              \/ Fault
    /\ CountFailed
    /\ UNCHANGED <<report, todo, current, doc, src, tgt, writes, touched, had>>

(* Mutant of Upserted: the filter holds the text of the _id again, and the *)
(* server matches every _id of that text.                                  *)
UpsertedByText(d) ==
    [tgt EXCEPT ![current] =
        [id \in IDs |-> IF id.text = d.id.text THEN d.version ELSE @[id]]]

(* Mutant of Upserted: splitNS keeps the database and drops the            *)
(* collection, so every collection of it is written.                       *)
UpsertedEverywhere(d) == [n \in NS |-> [tgt[n] EXCEPT ![d.id] = d.version]]

(* ReplaceOne({ _id: srcDoc._id }, srcDoc, upsert).                        *)
Upserted(d) == [tgt EXCEPT ![current][d.id] = d.version]

Replace ==
    /\ \E d \in doc : tgt' = Upserted(d)
    /\ doc' = {}
    /\ CountFixed
    /\ UNCHANGED <<report, todo, current, missing, different, src, faults, writes,
                   touched, had>>

(* ReplaceOne fails or times out; the server may have applied it.          *)
ReplaceFails ==
    /\ \E d \in doc : tgt' \in {tgt, Upserted(d)}
    /\ Fault
    /\ doc' = {}
    /\ CountFailed
    /\ UNCHANGED <<report, todo, current, missing, different, src, writes, touched, had>>

RepairStep ==
    \/ \E n \in NS : Visit(n)
    \/ Leave \/ NoExtractedID \/ FindInSource \/ NotInSource \/ Replace \/ ReplaceFails

-----------------------------------------------------------------------------
(* The clusters' other users: applications write to the source, and the    *)
(* migration brings what they wrote to the target, later and at any time.  *)
SourceWrite(n, id, v) ==
    /\ writes < MaxWrites
    /\ src[n][id] # v
    /\ src' = [src EXCEPT ![n][id] = v]
    /\ touched' = [touched EXCEPT ![n] = @ \cup {id}]
    /\ had' = [had EXCEPT ![n][id] = @ \cup {v}]
    /\ writes' = writes + 1
    /\ UNCHANGED <<repairVars, tgt, faults>>

Replicate(n, id) ==
    /\ id \in touched[n]
    /\ ~InSync(n, id)
    /\ tgt' = [tgt EXCEPT ![n][id] = src[n][id]]
    /\ UNCHANGED <<repairVars, src, faults, writes, touched, had>>

Environment ==
    \E n \in NS, id \in IDs :
        \/ \E v \in Versions \cup {NoDoc} : SourceWrite(n, id, v)
        \/ Replicate(n, id)

Init ==
    /\ \E data \in InitialData : src = data[1] /\ tgt = data[2]
    /\ report \in {r \in [NS -> UNION {Reports(n) : n \in NS}] : \A n \in NS : r[n] \in Reports(n)}
    /\ todo = NS
    /\ current = NoNS
    /\ missing = {} /\ different = {} /\ doc = {}
    /\ results = [n \in NS |-> [visited |-> FALSE, fixed |-> 0, failed |-> 0]]
    /\ faults = 0 /\ writes = 0
    /\ touched = [n \in NS |-> {}]
    /\ had = [n \in NS |-> [id \in IDs |-> {src[n][id], tgt[n][id]}]]

Next == RepairStep \/ Environment

Spec == Init /\ [][Next]_vars

(* RepairAll is one goroutine, and every call of the driver returns: the   *)
(* reads when the connection fails at the latest, the write after 10s.     *)
FairSpec == Spec /\ WF_vars(RepairStep)

-----------------------------------------------------------------------------
Finished == todo = {} /\ current = NoNS

TypeOK ==
    /\ src \in [NS -> [IDs -> Versions \cup {NoDoc}]]
    /\ tgt \in [NS -> [IDs -> Versions \cup {NoDoc}]]
    /\ report \in [NS -> [passed : BOOLEAN, missing : SUBSET IDs, different : SUBSET IDs]]
    /\ todo \in SUBSET NS
    /\ current \in NS \cup {NoNS}
    /\ missing \in SUBSET IDs
    /\ different \in SUBSET IDs
    /\ \/ doc = {}
       \/ current # NoNS /\ \E id \in IDs, v \in Versions : doc = {[id |-> id, version |-> v]}
    /\ results \in [NS -> [visited : BOOLEAN, fixed : Nat, failed : Nat]]
    /\ faults \in 0..MaxFaults
    /\ writes \in 0..MaxWrites
    /\ touched \in [NS -> SUBSET IDs]
    /\ had \in [NS -> [IDs -> SUBSET (Versions \cup {NoDoc})]]

(* Sampled documents that a text leads back to: string _ids, and for a     *)
(* different document a text without blank or bar.                         *)
Repairable(n) ==
    {id \in report[n].missing : id.type = "string"}
        \cup {id \in report[n].different : id.type = "string" /\ Len(id.text) = 1}

(* When RepairAll has returned and no access has failed, every sampled     *)
(* document with a string _id is in sync unless somebody wrote it          *)
(* meanwhile; the samples of other _ids, which cannot be found, do not     *)
(* keep the rest from being repaired.                                      *)
RepairedDocsInSync ==
    Finished /\ faults = 0 =>
        \A n \in NS : \A id \in Repairable(n) \ touched[n] : InSync(n, id)

(* Every sample is counted once, as fixed or as failed, except those that  *)
(* extractID makes nothing of; namespaces that passed have no result.      *)
EverySampleCounted ==
    Finished =>
        \A n \in NS :
            /\ results[n].visited <=> ~report[n].passed
            /\ results[n].fixed + results[n].failed =
                   Cardinality(report[n].missing)
                   + Cardinality({id \in report[n].different : id.text # <<>>})

(* Whatever is written meanwhile, and however the samples' texts collide,  *)
(* a document of the target is what the target had or what the source has  *)
(* had under the very same _id.                                            *)
OnlySourceVersions ==
    \A n \in NS, id \in IDs : tgt[n][id] \in had[n][id]

(* Repair never puts a document out of sync that nobody is writing.        *)
InSyncStays ==
    [][\A n \in NS, id \in IDs :
           InSync(n, id) /\ id \notin touched'[n] => InSync(n, id)']_vars

(* RepairAll returns.                                                      *)
RepairEnds == <>Finished

(* "RepairAll fixes every diff found" (repairer.go:31): when it has        *)
(* returned without a failing access or a write from outside, the samples  *)
(* are in sync.                                                            *)
EveryDiffIsFixed ==
    Finished /\ faults = 0 /\ writes = 0 =>
        \A n \in NS : \A id \in report[n].missing \cup report[n].different : InSync(n, id)
=============================================================================
