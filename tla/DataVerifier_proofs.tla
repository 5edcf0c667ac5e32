------------------------- MODULE DataVerifier_proofs -------------------------
(***************************************************************************)
(* Theorems about DataVerifier, for any namespaces, workers, _ids and      *)
(* versions, and any bounds on failures, kills, writes and calls.          *)
(***************************************************************************)
EXTENDS DataVerifier, FiniteSetTheorems, TLAPS

(* The holder of cpMu is past the assignment to the map; a dead process    *)
(* holds nothing.                                                          *)
HolderHasMap == cpMu # Free => proc = "up" /\ cpData # Nil

(* What a worker has in hand where the code uses it; nobody is at work     *)
(* once the call has returned.                                             *)
InHand ==
    \A w \in Workers :
        /\ main = "returned" => pc[w] = "exited"
        /\ task[w] = NoTask <=> pc[w] \in {"idle", "exited"}
        /\ pc[w] \in {"find", "save", "truncate", "write", "report", "findRev"}
               => scan[w].id \in IDs

Types == TypeOK /\ InHand /\ HoldsLock /\ HolderHasMap

LEMMA EmptyMapType == EmptyMap \in Maps
  BY DEF EmptyMap, Maps

LEMMA NewScanType == NewScan \in ScanRecord
  BY VerifierAssumption DEF NewScan, ScanRecord

LEMMA NewResultType == NewResult \in DataResult
  BY DEF NewResult, DataResult

(* The operations on results keep their type.                              *)
LEMMA KeepType ==
  ASSUME NEW s \in Seq(IDs), NEW id \in IDs, NEW cap
  PROVE  Keep(s, id, cap) \in Seq(IDs)
  BY DEF Keep

LEMMA EmptySeqType == <<>> \in Seq(IDs)
  OBVIOUS

LEMMA ResultUpdateTypes ==
  ASSUME NEW r \in DataResult, NEW k \in Nat, NEW s \in Seq(IDs)
  PROVE  /\ [r EXCEPT !.missing = k, !.missingSample = s] \in DataResult
         /\ [r EXCEPT !.different = k, !.diffSample = s] \in DataResult
         /\ [r EXCEPT !.extra = k, !.extraSample = s] \in DataResult
         /\ [r EXCEPT !.srcCount = k] \in DataResult
         /\ [r EXCEPT !.tgtCount = k] \in DataResult
         /\ [r EXCEPT !.errors = k] \in DataResult
         /\ [r EXCEPT !.progressPct = k] \in DataResult
<1>1. [r EXCEPT !.missing = k, !.missingSample = s] \in DataResult
  BY DEF DataResult
<1>2. [r EXCEPT !.different = k, !.diffSample = s] \in DataResult
  BY DEF DataResult
<1>3. [r EXCEPT !.extra = k, !.extraSample = s] \in DataResult
  BY DEF DataResult
<1>4. [r EXCEPT !.srcCount = k] \in DataResult
  BY DEF DataResult
<1>5. [r EXCEPT !.tgtCount = k] \in DataResult
  BY DEF DataResult
<1>6. [r EXCEPT !.errors = k] \in DataResult
  BY DEF DataResult
<1>7. [r EXCEPT !.progressPct = k] \in DataResult
  BY DEF DataResult
<1> QED BY <1>1, <1>2, <1>3, <1>4, <1>5, <1>6, <1>7

LEMMA PassedType ==
  ASSUME NEW r \in DataResult, NEW b \in BOOLEAN
  PROVE  [r EXCEPT !.passed = b] \in DataResult
  BY DEF DataResult

LEMMA ScanFields ==
  ASSUME NEW s \in ScanRecord
  PROVE  /\ s.range \subseteq IDs
         /\ s.tries \in 0 .. RetryCount
         /\ s.processed \in Nat
  BY DEF ScanRecord

LEMMA ResultTypes ==
  ASSUME NEW r \in DataResult, NEW id \in IDs
  PROVE  /\ WithMissing(r, id) \in DataResult
         /\ WithDifferent(r, id) \in DataResult
         /\ WithExtra(r, id) \in DataResult
<1>1. /\ Keep(r.missingSample, id, SampleCap) \in Seq(IDs)
      /\ Keep(r.diffSample, id, SampleCap) \in Seq(IDs)
      /\ Keep(r.extraSample, id, ExtraCap) \in Seq(IDs)
  BY KeepType DEF DataResult
<1>2. r.missing + 1 \in Nat /\ r.different + 1 \in Nat /\ r.extra + 1 \in Nat
  BY DEF DataResult
<1> QED BY <1>1, <1>2, ResultUpdateTypes DEF WithMissing, WithDifferent, WithExtra

LEMMA PctType ==
  ASSUME NEW p \in Nat, NEW total \in Nat PROVE Pct(p, total) \in Nat
  BY DEF Pct, PctInf

LEMMA InitTypes == Init => Types
  BY CheckpointAssumption, VerifierAssumption, EmptyMapType, NewScanType, NewResultType
  DEF Init, Types, TypeOK, InHand, HoldsLock, HolderHasMap, WorkerLabels,
      EmptyReport, NoTask

-----------------------------------------------------------------------------
(* A step of a worker that reads: what such a step may change has its      *)
(* type, the worker goes from one label of verifyOneCollection to another, *)
(* and the mutex is not its business.                                      *)
Elsewhere == {"idle", "exited", "truncate", "write"}
IdLabels == {"find", "save", "report", "findRev"}

ReadTypes ==
    /\ faults' \in 0 .. MaxFaults
    /\ caveat' \in [NS -> SUBSET {"partial", "lost", "gaveUp"}]
    /\ scan' \in [Workers -> ScanRecord]
    /\ result' \in [Workers -> DataResult]
    /\ examined' \in [NS -> SUBSET IDs]
    /\ compared' \in [NS -> SUBSET IDs]
    /\ undecoded' \in [NS -> SUBSET IDs]

Moves(w, l) ==
    /\ proc = "up"
    /\ pc[w] \notin Elsewhere
    /\ l \in WorkerLabels \ Elsewhere
    /\ pc' = [pc EXCEPT ![w] = l]
    /\ \A v \in Workers \ {w} : scan'[v] = scan[v]
    /\ l \in IdLabels => scan'[w].id \in IDs

LEMMA ReadStep ==
  ASSUME Types, NEW w \in Workers, NEW l, Moves(w, l), Read(w), ReadTypes
  PROVE  Types'
<1> USE DEF Types, Read, kept, cpVars, dbVars, callVars
<1>1. TypeOK'
  BY DEF TypeOK, ReadTypes, Moves, Elsewhere
<1>2. InHand'
  BY DEF TypeOK, InHand, Moves, Elsewhere, IdLabels
<1>3. HoldsLock'
  BY DEF TypeOK, HoldsLock, Moves, Elsewhere
<1>4. HolderHasMap'
  BY DEF HolderHasMap
<1> QED BY <1>1, <1>2, <1>3, <1>4

(* The types of what CountWithRetry, a failure and a success write.        *)
LEMMA OutcomeTypes ==
  ASSUME TypeOK, NEW w \in Workers, NEW what \in {"partial", "lost", "gaveUp"},
         Succeeds \/ Fails(w, what)
  PROVE  /\ faults' \in 0 .. MaxFaults
         /\ caveat' \in [NS -> SUBSET {"partial", "lost", "gaveUp"}]
  BY CheckpointAssumption DEF TypeOK, Succeeds, Fails, Fault, Note

LEMMA CountTypes ==
  ASSUME Types, NEW w \in Workers, CountSource(w) \/ CountTarget(w) PROVE Types'
<1> USE DEF Types
<1>0. 0 .. Cardinality(IDs) \subseteq Nat
  BY FS_CardinalityType
<1>1. CASE CountSource(w)
  <2>1. PICK n \in 0 .. Cardinality(IDs) :
           CountWithRetry(w, src, n) /\ result' = [result EXCEPT ![w].srcCount = n]
    BY <1>1 DEF CountSource
  <2>2. result' \in [Workers -> DataResult]
    <3>1. result \in [Workers -> DataResult] /\ n \in Nat
      BY <1>0 DEF TypeOK
    <3> QED BY <2>1, <3>1, ResultUpdateTypes, EmptySeqType
  <2>3. ReadTypes
    BY <1>1, <2>1, <2>2, OutcomeTypes, NewScanType
    DEF ReadTypes, TypeOK, CountSource, CountWithRetry, history
  <2>4. Moves(w, "countTgt") /\ Read(w)
    BY <1>1 DEF CountSource, Moves, At, Goto, TypeOK, Elsewhere, IdLabels, WorkerLabels
  <2> QED BY <2>3, <2>4, ReadStep
<1>2. CASE CountTarget(w)
  <2>1. PICK n \in 0 .. Cardinality(IDs) :
           CountWithRetry(w, tgt, n) /\ result' = [result EXCEPT ![w].tgtCount = n]
    BY <1>2 DEF CountTarget
  <2>2. result' \in [Workers -> DataResult]
    <3>1. result \in [Workers -> DataResult] /\ n \in Nat
      BY <1>0 DEF TypeOK
    <3> QED BY <2>1, <3>1, ResultUpdateTypes, EmptySeqType
  <2>3. ReadTypes
    BY <1>2, <2>1, <2>2, OutcomeTypes, NewScanType
    DEF ReadTypes, TypeOK, CountTarget, CountWithRetry, history
  <2>4. \E l : Moves(w, l) /\ Read(w)
    BY <1>2 DEF CountTarget, Moves, At, Goto, TypeOK, Elsewhere, IdLabels, WorkerLabels
  <2> QED BY <2>3, <2>4, ReadStep
<1> QED BY <1>1, <1>2

LEMMA TryAgainTypes ==
  ASSUME Types, NEW w \in Workers, TryAgain(w) PROVE Types'
<1> USE DEF Types
<1>1. /\ scan' \in [Workers -> ScanRecord]
      /\ \A v \in Workers : scan'[v].id = scan[v].id
  <2>1. scan \in [Workers -> ScanRecord]
    BY DEF TypeOK
  <2>2. scan[w].tries + 1 \in 0 .. RetryCount
    BY <2>1, ScanFields, VerifierAssumption DEF TryAgain, LastTry
  <2>3. [scan[w] EXCEPT !.tries = scan[w].tries + 1] \in ScanRecord
    BY <2>1, <2>2 DEF ScanRecord
  <2> QED BY <2>1, <2>3 DEF TryAgain, ScanRecord
<1>2. ReadTypes
  BY <1>1, CheckpointAssumption DEF ReadTypes, TypeOK, TryAgain, Fault, history
<1>3. Moves(w, pc[w]) /\ Read(w)
  BY <1>1 DEF TryAgain, Moves, TypeOK, InHand, Elsewhere, IdLabels, WorkerLabels,
      Read, kept, cpVars, dbVars
<1> QED BY <1>2, <1>3, ReadStep

LEMMA OpenForwardTypes ==
  ASSUME Types, NEW w \in Workers, OpenForward(w) \/ OpenForwardFails(w) PROVE Types'
<1> USE DEF Types
<1>1. CASE OpenForward(w)
  <2>1. PICK range \in SUBSET IDs :
          /\ scan' = [scan EXCEPT ![w] = [NewScan EXCEPT !.range = range]]
          /\ IF range = IDs THEN UNCHANGED caveat ELSE Note(w, "partial")
    BY <1>1 DEF OpenForward
  <2>2. [NewScan EXCEPT !.range = range] \in ScanRecord
    BY NewScanType DEF ScanRecord
  <2>3. ReadTypes
    BY <1>1, <2>1, <2>2 DEF ReadTypes, TypeOK, OpenForward, Note, history
  <2>4. Moves(w, "next") /\ Read(w)
    BY <1>1, <2>1 DEF OpenForward, Moves, At, Goto, TypeOK, Elsewhere, IdLabels, WorkerLabels
  <2> QED BY <2>3, <2>4, ReadStep
<1>2. CASE OpenForwardFails(w)
  <2>1. result' \in [Workers -> DataResult]
    <3>1. result \in [Workers -> DataResult]
      BY DEF TypeOK
    <3>2. result[w].errors + 1 \in Nat
      BY <3>1 DEF DataResult
    <3> QED BY <1>2, <3>1, <3>2, ResultUpdateTypes, EmptySeqType DEF OpenForwardFails
  <2>2. ReadTypes
    BY <1>2, <2>1, OutcomeTypes DEF ReadTypes, TypeOK, OpenForwardFails, history
  <2>3. Moves(w, EndForward) /\ Read(w)
    BY <1>2 DEF OpenForwardFails, Moves, EndForward, At, Goto, TypeOK, Elsewhere,
       IdLabels, WorkerLabels
  <2> QED BY <2>2, <2>3, ReadStep
<1> QED BY <1>1, <1>2

LEMMA NextForwardTypes ==
  ASSUME Types, NEW w \in Workers, NextForward(w) PROVE Types'
<1> USE DEF Types
<1>1. PICK id \in IDs :
        scan' = [scan EXCEPT
            ![w].range = After(w, id, ~opts.sampled),
            ![w].id = id,
            ![w].version = src[task[w]][id],
            ![w].tries = 0]
  BY DEF NextForward
<1>2. task[w] \in NS
  BY DEF NextForward, At, InHand, TypeOK
<1>3. src[task[w]][id] \in Versions \cup {NoDoc}
  BY <1>2 DEF TypeOK, Collections
<1>4. After(w, id, ~opts.sampled) \in SUBSET IDs
  BY ScanFields DEF TypeOK, After
<1>5. scan \in [Workers -> ScanRecord]
  BY DEF TypeOK
<1>6. /\ scan' \in [Workers -> ScanRecord]
      /\ scan'[w].id = id
      /\ \A v \in Workers \ {w} : scan'[v] = scan[v]
  <2> DEFINE range == After(w, id, ~opts.sampled)
             version == src[task[w]][id]
             s == [scan[w] EXCEPT !.range = range, !.id = id, !.version = version,
                                  !.tries = 0]
  <2>1. scan' = [scan EXCEPT ![w] = s]
    BY <1>1
  <2>2. range \in SUBSET IDs /\ version \in Versions \cup {NoDoc}
    BY <1>3, <1>4
  <2>3. s \in ScanRecord /\ s.id = id
    <3> HIDE DEF range, version
    <3>1. 0 \in 0 .. RetryCount
      BY VerifierAssumption
    <3> QED BY <1>5, <2>2, <3>1 DEF ScanRecord
  <2> HIDE DEF s
  <2> QED BY <1>5, <2>1, <2>3
<1>7. ReadTypes
  BY <1>6 DEF ReadTypes, TypeOK, NextForward, history
<1>8. Moves(w, "find") /\ Read(w)
  BY <1>6 DEF NextForward, Moves, At, Goto, TypeOK, Elsewhere, IdLabels, WorkerLabels
<1> QED BY <1>7, <1>8, ReadStep

LEMMA SkipForwardTypes ==
  ASSUME Types, NEW w \in Workers, SkipForward(w) PROVE Types'
<1> USE DEF Types
<1>1. PICK id \in IDs :
        /\ scan' = [scan EXCEPT ![w].range = After(w, id, ~opts.sampled)]
        /\ undecoded' = [undecoded EXCEPT ![task[w]] = @ \cup {id}]
  BY DEF SkipForward
<1>2. After(w, id, ~opts.sampled) \in SUBSET IDs
  BY ScanFields DEF TypeOK, After
<1>3. scan \in [Workers -> ScanRecord]
  BY DEF TypeOK
<1>4. scan' \in [Workers -> ScanRecord] /\ \A v \in Workers \ {w} : scan'[v] = scan[v]
  <2> DEFINE range == After(w, id, ~opts.sampled)
  <2>1. range \in SUBSET IDs
    BY <1>2
  <2>2. scan' = [scan EXCEPT ![w] = [scan[w] EXCEPT !.range = range]]
    BY <1>1
  <2> HIDE DEF range
  <2>3. [scan[w] EXCEPT !.range = range] \in ScanRecord
    BY <1>3, <2>1 DEF ScanRecord
  <2> QED BY <1>3, <2>2, <2>3
<1>5. ReadTypes
  <2>1. undecoded' \in [NS -> SUBSET IDs]
    BY <1>1 DEF TypeOK
  <2>2. /\ faults' \in 0 .. MaxFaults
        /\ caveat' \in [NS -> SUBSET {"partial", "lost", "gaveUp"}]
    BY OutcomeTypes DEF SkipForward
  <2>3. UNCHANGED <<examined, compared, result>>
    BY DEF SkipForward
  <2> QED BY <1>4, <2>1, <2>2, <2>3 DEF ReadTypes, TypeOK
<1>6. Moves(w, "next") /\ Read(w)
  BY <1>4 DEF SkipForward, Moves, At, Goto, TypeOK, Elsewhere, IdLabels, WorkerLabels
<1> QED BY <1>5, <1>6, ReadStep

LEMMA EndOfForwardTypes ==
  ASSUME Types, NEW w \in Workers, EndOfForward(w) PROVE Types'
<1> USE DEF Types
<1>1. ReadTypes
  BY OutcomeTypes DEF ReadTypes, TypeOK, EndOfForward, CursorEnds, history
<1>2. Moves(w, EndForward) /\ Read(w)
  BY DEF EndOfForward, Moves, EndForward, At, Goto, TypeOK, Elsewhere,
     IdLabels, WorkerLabels
<1> QED BY <1>1, <1>2, ReadStep

LEMMA ProcessedTypes ==
  ASSUME Types, NEW w \in Workers, At(w, "find"), NEW r \in DataResult, Processed(w, r)
  PROVE  /\ scan' \in [Workers -> ScanRecord]
         /\ result' \in [Workers -> DataResult]
         /\ examined' \in [NS -> SUBSET IDs] /\ compared' \in [NS -> SUBSET IDs]
         /\ Moves(w, IF (scan[w].processed + 1) % CheckpointEvery = 0
                     THEN "save" ELSE "next")
<1> USE DEF Types
<1>1. scan \in [Workers -> ScanRecord] /\ scan[w].id \in IDs
  BY DEF TypeOK, InHand, At
<1>2. scan' \in [Workers -> ScanRecord] /\ scan'[w].id = scan[w].id
  BY <1>1 DEF Processed, ScanRecord
<1>3. examined' \in [NS -> SUBSET IDs] /\ compared' \in [NS -> SUBSET IDs]
  BY <1>1 DEF Processed, TypeOK
<1>4. result' \in [Workers -> DataResult]
  BY DEF Processed, TypeOK
<1>5. Moves(w, IF (scan[w].processed + 1) % CheckpointEvery = 0
              THEN "save" ELSE "next")
  BY <1>1, <1>2 DEF Processed, Moves, At, Goto, TypeOK, Elsewhere, IdLabels, WorkerLabels
<1> QED BY <1>2, <1>3, <1>4, <1>5

LEMMA CompareTypes ==
  ASSUME Types, NEW w \in Workers, Compare(w) \/ Missing(w) PROVE Types'
<1> USE DEF Types
<1>1. /\ result[w] \in DataResult
      /\ WithDifferent(result[w], scan[w].id) \in DataResult
      /\ WithMissing(result[w], scan[w].id) \in DataResult
  BY ResultTypes DEF TypeOK, InHand, Compare, Missing, At
<1>2. PICK r \in DataResult : At(w, "find") /\ Processed(w, r)
  BY <1>1 DEF Compare, Missing
<1>3. undecoded' = undecoded /\ Read(w)
  BY DEF Compare, Missing
<1>4. /\ faults' \in 0 .. MaxFaults
      /\ caveat' \in [NS -> SUBSET {"partial", "lost", "gaveUp"}]
  BY OutcomeTypes DEF Compare, Missing, TypeOK, Succeeds
<1>5. ReadTypes
  BY <1>2, <1>3, <1>4, ProcessedTypes DEF ReadTypes, TypeOK
<1> QED BY <1>2, <1>3, <1>5, ProcessedTypes, ReadStep

LEMMA ReverseTypes ==
  ASSUME Types, NEW w \in Workers,
         \/ OpenReverse(w) \/ OpenReverseFails(w) \/ NextReverse(w)
         \/ SkipReverse(w) \/ EndOfReverse(w) \/ LookupSource(w)
  PROVE  Types'
<1> USE DEF Types
<1>0. scan \in [Workers -> ScanRecord]
  BY DEF TypeOK
<1>1. CASE OpenReverse(w)
  <2>1. [NewScan EXCEPT !.range = IDs] \in ScanRecord
    BY NewScanType DEF ScanRecord
  <2>2. ReadTypes
    BY <1>1, <2>1 DEF ReadTypes, TypeOK, OpenReverse, history
  <2>3. Moves(w, "nextRev") /\ Read(w)
    BY <1>1 DEF OpenReverse, Moves, At, Goto, TypeOK, Elsewhere, IdLabels, WorkerLabels
  <2> QED BY <2>2, <2>3, ReadStep
<1>2. CASE OpenReverseFails(w)
  <2>1. ReadTypes
    BY <1>2, OutcomeTypes DEF ReadTypes, TypeOK, OpenReverseFails, history
  <2>2. Moves(w, "publish") /\ Read(w)
    BY <1>2 DEF OpenReverseFails, Moves, At, Goto, TypeOK, Elsewhere, IdLabels, WorkerLabels
  <2> QED BY <2>1, <2>2, ReadStep
<1>3. CASE NextReverse(w)
  <2>1. PICK id \in IDs :
          scan' = [scan EXCEPT ![w].range = After(w, id, TRUE), ![w].id = id]
    BY <1>3 DEF NextReverse
  <2> DEFINE range == After(w, id, TRUE)
             s == [scan[w] EXCEPT !.range = range, !.id = id]
  <2>2. range \in SUBSET IDs
    BY ScanFields DEF TypeOK, After
  <2>3. scan' = [scan EXCEPT ![w] = s]
    BY <2>1
  <2>4. s \in ScanRecord /\ s.id = id
    <3> HIDE DEF range
    <3> QED BY <1>0, <2>2 DEF ScanRecord
  <2> HIDE DEF s
  <2>5. ReadTypes
    BY <1>0, <1>3, <2>3, <2>4 DEF ReadTypes, TypeOK, NextReverse, history
  <2>6. Moves(w, "findRev") /\ Read(w)
    BY <1>0, <1>3, <2>3, <2>4 DEF NextReverse, Moves, At, Goto, TypeOK, Elsewhere,
       IdLabels, WorkerLabels
  <2> QED BY <2>5, <2>6, ReadStep
<1>4. CASE SkipReverse(w)
  <2>1. PICK id \in IDs : scan' = [scan EXCEPT ![w].range = After(w, id, TRUE)]
    BY <1>4 DEF SkipReverse
  <2> DEFINE range == After(w, id, TRUE)
             s == [scan[w] EXCEPT !.range = range]
  <2>2. range \in SUBSET IDs
    BY ScanFields DEF TypeOK, After
  <2>3. scan' = [scan EXCEPT ![w] = s]
    BY <2>1
  <2>4. s \in ScanRecord
    <3> HIDE DEF range
    <3> QED BY <1>0, <2>2 DEF ScanRecord
  <2> HIDE DEF s
  <2>5. ReadTypes
    BY <1>0, <1>4, <2>3, <2>4, OutcomeTypes DEF ReadTypes, TypeOK, SkipReverse, history
  <2>6. Moves(w, "nextRev") /\ Read(w)
    BY <1>0, <1>4, <2>3, <2>4 DEF SkipReverse, Moves, At, Goto, TypeOK, Elsewhere,
       IdLabels, WorkerLabels
  <2> QED BY <2>5, <2>6, ReadStep
<1>5. CASE EndOfReverse(w)
  <2>1. ReadTypes
    BY <1>5, OutcomeTypes DEF ReadTypes, TypeOK, EndOfReverse, CursorEnds, history
  <2>2. Moves(w, "publish") /\ Read(w)
    BY <1>5 DEF EndOfReverse, Moves, At, Goto, TypeOK, Elsewhere, IdLabels, WorkerLabels
  <2> QED BY <2>1, <2>2, ReadStep
<1>6. CASE LookupSource(w)
  <2>1. WithExtra(result[w], scan[w].id) \in DataResult
    BY <1>6, ResultTypes DEF TypeOK, InHand, LookupSource, At
  <2>2. result' \in [Workers -> DataResult]
    BY <1>6, <2>1 DEF TypeOK, LookupSource
  <2>3. ReadTypes
    BY <1>6, <2>2, OutcomeTypes DEF ReadTypes, TypeOK, LookupSource, history
  <2>4. Moves(w, "nextRev") /\ Read(w)
    BY <1>6 DEF LookupSource, Moves, At, Goto, TypeOK, Elsewhere, IdLabels, WorkerLabels
  <2> QED BY <2>3, <2>4, ReadStep
<1> QED BY <1>1, <1>2, <1>3, <1>4, <1>5, <1>6

(* The steps of a worker that are not reads: taking and publishing a task, *)
(* the checkpoint and the progress.                                        *)
LEMMA TakeTypes ==
  ASSUME Types, NEW w \in Workers, Take(w) \/ Exit(w) \/ Publish(w) PROVE Types'
<1> USE VerifierAssumption DEF Types
<1>1. CASE Take(w)
  <2>1. PICK n \in taskCh : task' = [task EXCEPT ![w] = n] /\ taskCh' = taskCh \ {n}
    BY <1>1 DEF Take
  <2>2. n \in NS /\ n # NoTask
    BY DEF TypeOK, NoTask
  <2>3. TypeOK'
    BY <1>1, <2>1, <2>2, NewScanType, NewResultType
    DEF Take, TypeOK, Goto, WorkerLabels, cpVars, dbVars, callVars, history
  <2>4. InHand'
    BY <1>1, <2>1, <2>2 DEF Take, TypeOK, InHand, At, Goto, callVars
  <2>5. HoldsLock' /\ HolderHasMap'
    BY <1>1 DEF Take, TypeOK, HoldsLock, HolderHasMap, At, Goto, cpVars
  <2> QED BY <2>3, <2>4, <2>5
<1>2. CASE Exit(w)
  <2>1. TypeOK'
    BY <1>2 DEF Exit, TypeOK, Goto, WorkerLabels, kept, cpVars, dbVars, callVars, history
  <2>2. InHand'
    BY <1>2 DEF Exit, TypeOK, InHand, At, Goto, kept, callVars
  <2>3. HoldsLock' /\ HolderHasMap'
    BY <1>2 DEF Exit, TypeOK, HoldsLock, HolderHasMap, At, Goto, kept, cpVars
  <2> QED BY <2>1, <2>2, <2>3
<1>3. CASE Publish(w)
  <2>1. [result[w] EXCEPT !.passed = opts.dryRun \/ Passes(result[w])] \in DataResult
    <3>1. result[w] \in DataResult /\ opts.dryRun \in BOOLEAN
      BY DEF TypeOK, OptionSet
    <3>2. (opts.dryRun \/ Passes(result[w])) \in BOOLEAN
      OBVIOUS
    <3> QED BY <3>1, <3>2, PassedType
  <2>2. task[w] \in NS
    BY <1>3 DEF Publish, TypeOK, InHand, At
  <2>3. TypeOK'
    BY <1>3, <2>1, <2>2 DEF Publish, TypeOK, Goto, WorkerLabels, cpVars, dbVars,
       callVars, history
  <2>4. InHand'
    BY <1>3 DEF Publish, TypeOK, InHand, At, Goto, callVars
  <2>5. HoldsLock' /\ HolderHasMap'
    BY <1>3 DEF Publish, TypeOK, HoldsLock, HolderHasMap, At, Goto, cpVars
  <2> QED BY <2>3, <2>4, <2>5
<1> QED BY <1>1, <1>2, <1>3

LEMMA SaveTypes ==
  ASSUME Types, NEW w \in Workers, Save(w) \/ SaveFile(w) \/ UpdateProgress(w)
  PROVE  Types'
<1> USE CheckpointAssumption, VerifierAssumption DEF Types
<1>1. CASE Save(w)
  <2>1. scan[w].id \in IDs
    BY <1>1 DEF Save, SaveCheckpoint, InHand, At
  <2>2. cpData' \in Maps
    BY <1>1, <2>1 DEF Save, SaveCheckpoint, TypeOK, Maps
  <2>3. TypeOK'
    BY <1>1, <2>2 DEF Save, SaveCheckpoint, TypeOK, Goto, WorkerLabels, dbVars,
       callVars, history
  <2>4. InHand'
    BY <1>1, <2>1 DEF Save, SaveCheckpoint, TypeOK, InHand, At, Goto, callVars
  <2>5. HoldsLock' /\ HolderHasMap'
    BY <1>1, <2>2 DEF Save, SaveCheckpoint, TypeOK, HoldsLock, HolderHasMap, At, Goto
  <2> QED BY <2>3, <2>4, <2>5
<1>2. CASE SaveFile(w)
  <2>1. file' \in Maps \cup {Torn} /\ faults' \in 0 .. MaxFaults
    BY <1>2 DEF SaveFile, FileOps, TruncateFile, OpenFileFails, WriteFile,
       WriteFileFails, Fault, TypeOK, At, HoldsLock, HolderHasMap
  <2>2. pc[w] \in {"truncate", "write"} /\ proc = "up" /\ cpMu = w
    BY <1>2 DEF SaveFile, FileOps, TruncateFile, OpenFileFails, WriteFile,
       WriteFileFails, At, HoldsLock
  <2>3. \/ pc' = [pc EXCEPT ![w] = "write"] /\ cpMu' = w
        \/ pc' = [pc EXCEPT ![w] = "report"] /\ cpMu' = Free
    BY <1>2, <2>2 DEF SaveFile, FileOps, TruncateFile, OpenFileFails, WriteFile,
       WriteFileFails, Goto
  <2>4. UNCHANGED <<proc, cpData, crashes, dbVars, callVars, history, task, scan,
                    result, taskCh, rpt, published, caveat>>
    BY <1>2 DEF SaveFile, FileOps, TruncateFile, OpenFileFails, WriteFile, WriteFileFails
  <2>5. TypeOK'
    BY <2>1, <2>3, <2>4 DEF TypeOK, WorkerLabels, dbVars, callVars, history
  <2>6. InHand'
    BY <2>2, <2>3, <2>4 DEF TypeOK, InHand, callVars
  <2>7. HoldsLock' /\ HolderHasMap'
    BY <2>2, <2>3, <2>4 DEF TypeOK, HoldsLock, HolderHasMap
  <2> QED BY <2>5, <2>6, <2>7
<1>3. CASE UpdateProgress(w)
  <2> DEFINE old == IF Reported(task[w]) THEN rpt[task[w]] ELSE NewResult
             pct == Pct(scan[w].processed, result[w].srcCount)
  <2>1. task[w] \in NS
    BY <1>3 DEF UpdateProgress, TypeOK, InHand, At
  <2>2. old \in DataResult
    BY <2>1, NewResultType DEF TypeOK, Reported
  <2>3. pct \in Nat
    BY PctType DEF TypeOK, ScanRecord, DataResult
  <2>4. rpt' = [rpt EXCEPT ![task[w]] = [old EXCEPT !.progressPct = pct]]
    BY <1>3 DEF UpdateProgress
  <2> HIDE DEF old, pct
  <2>5. rpt' \in [NS -> DataResult \cup {NoResult}]
    BY <2>2, <2>3, <2>4, ResultUpdateTypes, EmptySeqType DEF TypeOK
  <2>6. TypeOK'
    BY <1>3, <2>5 DEF UpdateProgress, TypeOK, Goto, WorkerLabels, cpVars, dbVars,
       callVars, history
  <2>7. InHand'
    BY <1>3 DEF UpdateProgress, TypeOK, InHand, At, Goto, callVars
  <2>8. HoldsLock' /\ HolderHasMap'
    BY <1>3 DEF UpdateProgress, TypeOK, HoldsLock, HolderHasMap, At, Goto, cpVars
  <2> QED BY <2>6, <2>7, <2>8
<1> QED BY <1>1, <1>2, <1>3

LEMMA WorkerTypes ==
  ASSUME Types, NEW w \in Workers, WorkerStep(w) PROVE Types'
  BY TakeTypes, CountTypes, TryAgainTypes, OpenForwardTypes, NextForwardTypes,
     SkipForwardTypes, EndOfForwardTypes, CompareTypes, SaveTypes, ReverseTypes
  DEF WorkerStep

(* The process ends, by a kill or a panic.                                 *)
LEMMA ProcessEndsTypes ==
  ASSUME Types, Die, ProcessEnds, faults' \in 0 .. MaxFaults,
         crashes' \in 0 .. MaxCrashes
  PROVE  Types'
<1> USE DEF Types, Die, ProcessEnds, FreshCall
<1>1. TypeOK'
  BY NewScanType, NewResultType
  DEF TypeOK, WorkerLabels, EmptyReport, NoTask, dbVars, history
<1>2. InHand'
  BY DEF InHand
<1>3. HoldsLock' /\ HolderHasMap'
  BY CheckpointAssumption DEF HoldsLock, HolderHasMap
<1> QED BY <1>1, <1>2, <1>3

LEMMA ProcessTypes ==
  ASSUME Types,
         \/ \E w \in Workers : SaveCheckpointPanics(w) \/ BarUpdatePanics(w)
         \/ Return \/ Crash \/ Restart \/ NextCall
  PROVE  Types'
<1> USE CheckpointAssumption, VerifierAssumption
<1>1. ASSUME NEW w \in Workers, SaveCheckpointPanics(w) PROVE Types'
  BY <1>1, ProcessEndsTypes DEF SaveCheckpointPanics, SavePanics, Types, TypeOK
<1>2. ASSUME NEW w \in Workers, BarUpdatePanics(w) PROVE Types'
  BY <1>2, ProcessEndsTypes DEF BarUpdatePanics, Fault, Types, TypeOK
<1>3. CASE Return
  <2>1. TypeOK'
    BY <1>3 DEF Types, Return, TypeOK, allCpVars, dbVars, history
  <2> QED BY <1>3, <2>1 DEF Types, Return, allCpVars, InHand, HoldsLock, HolderHasMap
<1>4. CASE Crash
  BY <1>4, ProcessEndsTypes DEF Crash, Kill, Types, TypeOK
<1>5. CASE Restart
  <2>1. TypeOK'
    BY <1>5 DEF Types, Restart, Boot, Loaded, TypeOK, dbVars, history
  <2> QED BY <1>5, <2>1 DEF Types, Restart, Boot, InHand, HoldsLock, HolderHasMap
<1>6. CASE NextCall
  <2>1. cpMu = Free
    BY <1>6 DEF NextCall, Types, TypeOK, InHand, HoldsLock
  <2>2. TypeOK'
    BY <1>6, NewScanType, NewResultType
    DEF Types, NextCall, FreshCall, TypeOK, WorkerLabels, NoTask, cpVars, dbVars, history
  <2> QED BY <1>6, <2>1, <2>2
          DEF Types, NextCall, FreshCall, InHand, HoldsLock, HolderHasMap, cpVars
<1> QED BY <1>1, <1>2, <1>3, <1>4, <1>5, <1>6

LEMMA ClusterTypes ==
  ASSUME Types, NEW n \in NS, NEW id \in IDs,
         \/ \E v \in Versions \cup {NoDoc} : SourceWrite(n, id, v)
         \/ Replicate(n, id)
  PROVE  Types'
<1> USE VerifierAssumption DEF Types
<1>0. src \in Collections /\ tgt \in Collections
  BY DEF TypeOK
<1>1. src' \in Collections /\ tgt' \in Collections
  <2>1. ASSUME NEW coll \in Collections, NEW v \in Versions \cup {NoDoc}
        PROVE  [coll EXCEPT ![n][id] = v] \in Collections
    BY <2>1 DEF Collections
  <2>2. src[n][id] \in Versions \cup {NoDoc}
    BY <1>0 DEF Collections
  <2>3. CASE \E v \in Versions \cup {NoDoc} : SourceWrite(n, id, v)
    BY <1>0, <2>1, <2>3 DEF SourceWrite
  <2>4. CASE Replicate(n, id)
    BY <1>0, <2>1, <2>2, <2>4 DEF Replicate
  <2> QED BY <2>3, <2>4
<1>2. /\ writes' \in 0 .. MaxWrites
      /\ touched' \in [NS -> SUBSET IDs]
      /\ UNCHANGED <<allCpVars, callVars, history, task, scan, result, taskCh, rpt,
                     published, caveat>>
  BY DEF SourceWrite, Replicate, Writes, TypeOK
<1>3. TypeOK'
  BY <1>1, <1>2 DEF TypeOK, allCpVars, callVars, history
<1> QED BY <1>2, <1>3 DEF allCpVars, callVars, InHand, HoldsLock, HolderHasMap

LEMMA NextTypes == Types /\ [Next]_vars => Types'
<1> SUFFICES ASSUME Types, [Next]_vars PROVE Types'
  OBVIOUS
<1>1. CASE UNCHANGED vars
  <2>1. TypeOK'
    BY <1>1 DEF Types, TypeOK, vars, allCpVars, dbVars, callVars, history
  <2> QED BY <1>1, <2>1 DEF Types, vars, allCpVars, callVars, InHand, HoldsLock, HolderHasMap
<1> QED BY <1>1, WorkerTypes, ProcessTypes, ClusterTypes DEF Next, Stopped

(* Every variable keeps its type, whatever fails, dies or changes.         *)
THEOREM TypeCorrect == Spec => []TypeOK
<1>1. Types => TypeOK
  BY DEF Types
<1> QED BY InitTypes, NextTypes, <1>1, PTL DEF Spec

-----------------------------------------------------------------------------
(* Where the namespaces are, element by element; a worker leaves only when *)
(* the channel is empty.                                                   *)
Placed ==
    /\ \A n \in NS : n \in taskCh \/ n \in published \/ \E w \in Workers : task[w] = n
    /\ taskCh \cap published = {}
    /\ \A w \in Workers : task[w] \notin taskCh \cup published
    /\ \A v, w \in Workers : v # w /\ task[v] # NoTask => task[v] # task[w]
    /\ \A w \in Workers : pc[w] = "exited" => taskCh = {}
    /\ \A n \in published : Reported(n)

(* All but a few of a worker's steps work on its own task only.            *)
OwnWork(w) ==
    /\ UNCHANGED <<taskCh, task, published, rpt>>
    /\ \A v \in Workers : pc'[v] = "exited" => pc[v] = "exited"

LEMMA WorkIsOwn ==
  ASSUME Types, NEW w \in Workers, WorkerStep(w)
  PROVE  OwnWork(w) \/ Take(w) \/ Exit(w) \/ Publish(w) \/ UpdateProgress(w)
<1> USE DEF Types, TypeOK, OwnWork, Goto, Read, kept
<1>1. ASSUME CountSource(w) \/ CountTarget(w) PROVE OwnWork(w)
  BY <1>1 DEF CountSource, CountTarget
<1>8. ASSUME TryAgain(w) PROVE OwnWork(w)
  BY <1>8 DEF TryAgain
<1>2. ASSUME OpenForward(w) \/ OpenForwardFails(w) \/ EndOfForward(w) PROVE OwnWork(w)
  BY <1>2 DEF OpenForward, OpenForwardFails, EndOfForward, EndForward
<1>3. ASSUME NextForward(w) \/ SkipForward(w) PROVE OwnWork(w)
  <2>1. /\ UNCHANGED <<taskCh, task, published, rpt>>
        /\ pc' = [pc EXCEPT ![w] = "find"] \/ pc' = pc
    BY <1>3 DEF NextForward, SkipForward
  <2> QED BY <2>1
<1>4. ASSUME Compare(w) \/ Missing(w) PROVE OwnWork(w)
  BY <1>4 DEF Compare, Missing, Processed
<1>5. ASSUME Save(w) \/ SaveFile(w) PROVE OwnWork(w)
  BY <1>5 DEF Save, SaveCheckpoint, SaveFile, FileOps, TruncateFile, OpenFileFails,
     WriteFile, WriteFileFails
<1>6. ASSUME OpenReverse(w) \/ OpenReverseFails(w) \/ EndOfReverse(w) PROVE OwnWork(w)
  BY <1>6 DEF OpenReverse, OpenReverseFails, EndOfReverse
<1>7. ASSUME NextReverse(w) \/ SkipReverse(w) \/ LookupSource(w) PROVE OwnWork(w)
  BY <1>7 DEF NextReverse, SkipReverse, LookupSource
<1> QED BY <1>1, <1>2, <1>3, <1>4, <1>5, <1>6, <1>7, <1>8 DEF WorkerStep

LEMMA InitPlaced == Init => Placed
  BY VerifierAssumption DEF Init, Placed, NoTask

(* What a fresh call starts from.                                          *)
LEMMA FreshPlaced == ASSUME FreshCall PROVE Placed'
  BY VerifierAssumption DEF FreshCall, Placed, NoTask

LEMMA WorkerPlaced ==
  ASSUME Types, Placed, NEW w \in Workers, WorkerStep(w) PROVE Placed'
<1> USE VerifierAssumption
<1>1. CASE OwnWork(w)
  BY <1>1 DEF OwnWork, Placed, Reported
<1>2. CASE Take(w)
  <2>1. PICK n \in taskCh : task' = [task EXCEPT ![w] = n] /\ taskCh' = taskCh \ {n}
    BY <1>2 DEF Take
  <2>2. /\ n \in NS /\ task[w] = NoTask /\ NoTask \notin NS
        /\ task \in [Workers -> NS \cup {NoTask}]
        /\ pc' = [pc EXCEPT ![w] = "countSrc"] /\ pc \in [Workers -> WorkerLabels]
        /\ UNCHANGED <<published, rpt>>
    BY <1>2 DEF Take, Types, TypeOK, InHand, At, Goto, NoTask
  <2>3. \A m \in NS : m \in taskCh' \/ m \in published' \/ \E v \in Workers : task'[v] = m
    BY <2>1, <2>2 DEF Placed
  <2>4. \A v \in Workers : task'[v] \notin taskCh' \cup published'
    BY <2>1, <2>2 DEF Placed
  <2>5. \A u, v \in Workers : u # v /\ task'[u] # NoTask => task'[u] # task'[v]
    BY <2>1, <2>2 DEF Placed
  <2>6. \A v \in Workers : pc'[v] = "exited" => taskCh' = {}
    BY <2>1, <2>2 DEF Placed
  <2> QED BY <2>1, <2>2, <2>3, <2>4, <2>5, <2>6 DEF Placed, Reported
<1>3. CASE Exit(w)
  BY <1>3 DEF Exit, kept, Goto, Types, TypeOK, Placed, Reported
<1>4. CASE Publish(w)
  <2>1. /\ task[w] \in NS /\ NoTask \notin NS
        /\ task \in [Workers -> NS \cup {NoTask}]
        /\ task' = [task EXCEPT ![w] = NoTask]
        /\ published' = published \cup {task[w]} /\ published \subseteq NS
        /\ taskCh' = taskCh /\ taskCh \subseteq NS
        /\ pc' = [pc EXCEPT ![w] = "idle"] /\ pc \in [Workers -> WorkerLabels]
    BY <1>4 DEF Publish, Types, TypeOK, InHand, At, Goto, NoTask
  <2>2. [result[w] EXCEPT !.passed = opts.dryRun \/ Passes(result[w])] \in DataResult
    <3>1. result[w] \in DataResult /\ (opts.dryRun \/ Passes(result[w])) \in BOOLEAN
      BY DEF Types, TypeOK, OptionSet
    <3> QED BY <3>1, PassedType
  <2>3. \A n \in published' : Reported(n)'
    <3>1. rpt'[task[w]] # NoResult
      BY <1>4, <2>1, <2>2 DEF Publish, Types, TypeOK
    <3>2. \A n \in published : rpt'[n] # NoResult
      BY <1>4, <2>1, <3>1 DEF Publish, Placed, Reported, Types, TypeOK
    <3> QED BY <2>1, <3>1, <3>2 DEF Reported
  <2>4. \A m \in NS : m \in taskCh' \/ m \in published' \/ \E v \in Workers : task'[v] = m
    BY <2>1 DEF Placed
  <2>5. \A v \in Workers : task'[v] \notin taskCh' \cup published'
    BY <2>1 DEF Placed
  <2>6. \A u, v \in Workers : u # v /\ task'[u] # NoTask => task'[u] # task'[v]
    BY <2>1 DEF Placed
  <2>7. \A v \in Workers : pc'[v] = "exited" => taskCh' = {}
    BY <2>1 DEF Placed
  <2>8. taskCh' \cap published' = {}
    BY <2>1 DEF Placed
  <2> QED BY <2>3, <2>4, <2>5, <2>6, <2>7, <2>8 DEF Placed
<1>5. CASE UpdateProgress(w)
  <2>1. UNCHANGED <<taskCh, task, published>> /\ task[w] \notin published
    BY <1>5 DEF UpdateProgress, Placed
  <2>2. \A n \in published : rpt'[n] = rpt[n]
    BY <1>5, <2>1 DEF UpdateProgress, Types, TypeOK
  <2> QED BY <1>5, <2>1, <2>2 DEF UpdateProgress, Goto, Placed, Reported, Types, TypeOK
<1> QED BY <1>1, <1>2, <1>3, <1>4, <1>5, WorkIsOwn

LEMMA NextPlaced == Types /\ Placed /\ [Next]_vars => Placed'
<1> SUFFICES ASSUME Types, Placed, [Next]_vars PROVE Placed'
  OBVIOUS
<1>1. ASSUME NEW w \in Workers, SaveCheckpointPanics(w) \/ BarUpdatePanics(w)
      PROVE  Placed'
  BY <1>1, FreshPlaced DEF SaveCheckpointPanics, BarUpdatePanics, ProcessEnds
<1>2. CASE Crash \/ NextCall
  BY <1>2, FreshPlaced DEF Crash, NextCall, ProcessEnds
<1>3. CASE Return \/ Restart
  BY <1>3 DEF Return, Restart, allCpVars, Placed, Reported
<1>4. ASSUME NEW n \in NS, NEW id \in IDs,
             \/ \E v \in Versions \cup {NoDoc} : SourceWrite(n, id, v)
             \/ Replicate(n, id)
      PROVE  Placed'
  BY <1>4 DEF SourceWrite, Replicate, Writes, allCpVars, Placed, Reported
<1>5. CASE UNCHANGED vars
  BY <1>5 DEF vars, allCpVars, Placed, Reported
<1> QED BY <1>1, <1>2, <1>3, <1>4, <1>5, WorkerPlaced DEF Next, Stopped

LEMMA PlacedEachOnce == Types /\ Placed => EachNamespaceOnce
<1> SUFFICES ASSUME Types, Placed PROVE EachNamespaceOnce
  OBVIOUS
<1>1. \A n : n \in Busy <=> \E w \in Workers : task[w] = n /\ n # NoTask
  BY DEF Busy
<1>2. taskCh \subseteq NS /\ published \subseteq NS /\ Busy \subseteq NS /\ NoTask \notin NS
  BY <1>1, VerifierAssumption DEF Types, TypeOK, NoTask
<1>3. taskCh \cup Busy \cup published = NS
  BY <1>1, <1>2 DEF Placed
<1> QED BY <1>1, <1>2, <1>3 DEF Placed, EachNamespaceOnce

-----------------------------------------------------------------------------
(* Nobody computes a percentage into the result in hand, and the verdict   *)
(* replaces the progress in the report.                                    *)
NoPctInHand == \A w \in Workers : result[w].progressPct = 0

NoPctLeft == NoPctInHand /\ \A n \in published : rpt[n].progressPct = 0

LEMMA ResultPct ==
  ASSUME NEW r \in DataResult, NEW id \in IDs
  PROVE  /\ WithMissing(r, id).progressPct = r.progressPct
         /\ WithDifferent(r, id).progressPct = r.progressPct
         /\ WithExtra(r, id).progressPct = r.progressPct
  BY DEF WithMissing, WithDifferent, WithExtra, DataResult

LEMMA WorkerPct ==
  ASSUME Types, NoPctInHand, NEW w \in Workers, WorkerStep(w) PROVE NoPctInHand'
<1> USE DEF NoPctInHand
<1>0. /\ result \in [Workers -> DataResult]
      /\ \A r \in DataResult, k \in Nat :
            /\ [r EXCEPT !.srcCount = k].progressPct = r.progressPct
            /\ [r EXCEPT !.tgtCount = k].progressPct = r.progressPct
      /\ \A r \in DataResult : [r EXCEPT !.errors = @ + 1].progressPct = r.progressPct
  BY DEF Types, TypeOK, DataResult
<1>1. CASE result' = result
  BY <1>1
<1>2. CASE Take(w)
  BY <1>0, <1>2 DEF Take, NewResult
<1>3. CASE CountSource(w) \/ CountTarget(w)
  <2>1. 0 .. Cardinality(IDs) \subseteq Nat
    BY VerifierAssumption, FS_CardinalityType
  <2>2. PICK n \in Nat : \/ result' = [result EXCEPT ![w].srcCount = n]
                         \/ result' = [result EXCEPT ![w].tgtCount = n]
    BY <1>3, <2>1 DEF CountSource, CountTarget
  <2>3. PICK r : /\ result' = [result EXCEPT ![w] = r]
                 /\ \/ r = [result[w] EXCEPT !.srcCount = n]
                    \/ r = [result[w] EXCEPT !.tgtCount = n]
    BY <2>2
  <2>4. result[w] \in DataResult
    BY <1>0
  <2>5. r.progressPct = result[w].progressPct
    BY <2>3, <2>4 DEF DataResult
  <2> QED BY <1>0, <2>3, <2>5
<1>4. CASE OpenForwardFails(w)
  BY <1>0, <1>4 DEF OpenForwardFails
<1>5. CASE Compare(w) \/ Missing(w)
  <2>1. scan[w].id \in IDs
    BY <1>5 DEF Compare, Missing, Types, InHand, At
  <2>2. PICK r : /\ result' = [result EXCEPT ![w] = r]
                 /\ r \in {result[w], WithDifferent(result[w], scan[w].id),
                           WithMissing(result[w], scan[w].id)}
    BY <1>5 DEF Compare, Missing, Processed
  <2> QED BY <1>0, <2>1, <2>2, ResultPct
<1>6. CASE LookupSource(w)
  <2>1. scan[w].id \in IDs
    BY <1>6 DEF LookupSource, Types, InHand, At
  <2>2. CASE result' = [result EXCEPT ![w] = WithExtra(@, scan[w].id)]
    BY <1>0, <2>1, <2>2, ResultPct
  <2> QED BY <1>1, <1>6, <2>2 DEF LookupSource
<1>7. ASSUME \/ Exit(w) \/ TryAgain(w) \/ OpenForward(w) \/ NextForward(w)
             \/ SkipForward(w) \/ EndOfForward(w) \/ Save(w) \/ SaveFile(w)
             \/ UpdateProgress(w) \/ OpenReverse(w) \/ OpenReverseFails(w)
             \/ NextReverse(w) \/ SkipReverse(w) \/ EndOfReverse(w) \/ Publish(w)
      PROVE  result' = result
  BY <1>7 DEF Exit, TryAgain, OpenForward, NextForward, SkipForward, EndOfForward,
     Save, SaveFile, UpdateProgress, OpenReverse, OpenReverseFails, NextReverse,
     SkipReverse, EndOfReverse, Publish
<1> QED BY <1>1, <1>2, <1>3, <1>4, <1>5, <1>6, <1>7 DEF WorkerStep

LEMMA FreshPct == ASSUME FreshCall PROVE NoPctLeft'
  BY DEF FreshCall, NoPctLeft, NoPctInHand, NewResult

LEMMA NextPct == Types /\ Placed /\ NoPctLeft /\ [Next]_vars => NoPctLeft'
<1> SUFFICES ASSUME Types, Placed, NoPctLeft, [Next]_vars PROVE NoPctLeft'
  OBVIOUS
<1>1. ASSUME NEW w \in Workers, SaveCheckpointPanics(w) \/ BarUpdatePanics(w)
      PROVE  NoPctLeft'
  BY <1>1, FreshPct DEF SaveCheckpointPanics, BarUpdatePanics, ProcessEnds
<1>2. CASE Crash \/ NextCall
  BY <1>2, FreshPct DEF Crash, NextCall, ProcessEnds
<1>3. ASSUME UNCHANGED <<result, rpt, published>> PROVE NoPctLeft'
  BY <1>3 DEF NoPctLeft, NoPctInHand
<1>4. CASE Return \/ Restart \/ UNCHANGED vars
  BY <1>3, <1>4 DEF Return, Restart, vars
<1>5. ASSUME NEW n \in NS, NEW id \in IDs,
             \/ \E v \in Versions \cup {NoDoc} : SourceWrite(n, id, v)
             \/ Replicate(n, id)
      PROVE  NoPctLeft'
  BY <1>3, <1>5 DEF SourceWrite, Replicate, Writes
<1>6. ASSUME NEW w \in Workers, WorkerStep(w) PROVE NoPctLeft'
  <2>1. NoPctInHand'
    BY <1>6, WorkerPct DEF NoPctLeft
  <2>2. CASE OwnWork(w) \/ Take(w) \/ Exit(w)
    BY <2>1, <2>2 DEF OwnWork, Take, Exit, kept, NoPctLeft
  <2>3. CASE UpdateProgress(w)
    <3>1. published' = published /\ \A n \in published : rpt'[n] = rpt[n]
      BY <2>3 DEF UpdateProgress, Placed, Types, TypeOK
    <3> QED BY <2>1, <3>1 DEF NoPctLeft
  <2>4. CASE Publish(w)
    <3>1. /\ task[w] \in NS /\ published \subseteq NS /\ result[w] \in DataResult
          /\ published' = published \cup {task[w]}
      BY <2>4 DEF Publish, Types, TypeOK, InHand, At
    <3>2. rpt'[task[w]] =
              [result[w] EXCEPT !.passed = opts.dryRun \/ Passes(result[w])]
      BY <2>4, <3>1 DEF Publish, Types, TypeOK
    <3>3. rpt'[task[w]].progressPct = 0
      <4>1. ASSUME NEW b PROVE [result[w] EXCEPT !.passed = b].progressPct
                                   = result[w].progressPct
        BY <3>1 DEF DataResult
      <4>2. rpt'[task[w]].progressPct = result[w].progressPct
        BY <3>2, <4>1
      <4> QED BY <4>2 DEF NoPctLeft, NoPctInHand
    <3>4. \A n \in published : rpt'[n] = rpt[n]
      BY <2>4, <3>1 DEF Publish, Placed, Types, TypeOK
    <3> QED BY <2>1, <3>1, <3>3, <3>4 DEF NoPctLeft
  <2> QED BY <1>6, <2>2, <2>3, <2>4, WorkIsOwn
<1> QED BY <1>1, <1>2, <1>4, <1>5, <1>6 DEF Next, Stopped

LEMMA PlacedReturns == Types /\ Placed /\ NoPctLeft => ReturnsComplete
<1> SUFFICES ASSUME Types, Placed, NoPctLeft, main = "returned"
             PROVE  /\ published = NS
                    /\ \A n \in NS : Reported(n) /\ rpt[n].progressPct # PctInf
  BY DEF ReturnsComplete
<1>1. \A w \in Workers : pc[w] = "exited" /\ task[w] = NoTask
  BY DEF Types, InHand
<1>2. taskCh = {} /\ published \subseteq NS /\ NoTask \notin NS
  BY <1>1, VerifierAssumption DEF Placed, Types, TypeOK, NoTask
<1>3. published = NS
  BY <1>1, <1>2 DEF Placed
<1>4. \A n \in NS : rpt[n].progressPct = 0
  BY <1>3 DEF NoPctLeft
<1> QED BY <1>3, <1>4 DEF Placed, PctInf

(* No namespace is verified twice at a time, lost, or published while      *)
(* somebody still works on it, for any number of workers and namespaces.   *)
THEOREM EachOnce == Spec => []EachNamespaceOnce
<1> QED BY InitTypes, NextTypes, InitPlaced, NextPlaced, PlacedEachOnce, PTL DEF Spec

(* VerifyAllData returns with a verdict for every namespace, and with no   *)
(* percentage in the report that has no value.                             *)
THEOREM ReturnIsComplete == Spec => []ReturnsComplete
<1>1. Init => NoPctLeft
  BY DEF Init, NoPctLeft, NoPctInHand, NewResult
<1> QED BY InitTypes, NextTypes, InitPlaced, NextPlaced, NextPct, PlacedReturns, <1>1,
           PTL DEF Spec

-----------------------------------------------------------------------------
(* DataVerifier implements VerifyPool, for any number of goroutines and    *)
(* namespaces, through failures, panics, kills and restarts.               *)

LEMMA InitRefines == Init => Pool!PoolInit
  BY DEF Init, Pool!PoolInit, Busy, NoTask

LEMMA BusyElements ==
  \A n : n \in Busy <=> \E w \in Workers : task[w] = n /\ n # NoTask
  BY DEF Busy

(* A goroutine that is about to take a namespace has none, so fewer        *)
(* namespaces are in hand than there are goroutines.                       *)
LEMMA RoomForOne ==
  ASSUME NEW w \in Workers, task[w] = NoTask
  PROVE  Cardinality(Busy) < Cardinality(Workers)
<1> DEFINE others == Workers \ {w}
           image == {task[v] : v \in others}
           f == [v \in others |-> task[v]]
<1>1. IsFiniteSet(others) /\ Cardinality(others) = Cardinality(Workers) - 1
      /\ Cardinality(Workers) \in Nat
  BY VerifierAssumption, FS_RemoveElement, FS_CardinalityType
<1>2. IsFiniteSet(image) /\ Cardinality(image) <= Cardinality(others)
  <2>1. f \in Surjection(others, image)
    BY DEF Surjection
  <2> HIDE DEF image, f, others
  <2> QED BY <1>1, <2>1, FS_Surjection
<1>3. Busy \subseteq image
  BY DEF Busy
<1>4. Cardinality(Busy) <= Cardinality(image) /\ Cardinality(Busy) \in Nat
      /\ Cardinality(image) \in Nat /\ Cardinality(others) \in Nat
  BY <1>1, <1>2, <1>3, FS_Subset, FS_CardinalityType
<1> QED BY <1>1, <1>2, <1>4

LEMMA TakeRefines ==
  ASSUME Types, Placed, NEW w \in Workers, Take(w) PROVE \E n \in NS : Pool!Begin(n)
<1>1. PICK n \in taskCh : taskCh' = taskCh \ {n} /\ task' = [task EXCEPT ![w] = n]
  BY DEF Take
<1>2. /\ task[w] = NoTask /\ n \in NS /\ n # NoTask
      /\ task \in [Workers -> NS \cup {NoTask}]
  BY VerifierAssumption DEF Take, At, Types, TypeOK, InHand, NoTask
<1>3. Busy' = Busy \cup {n}
  <2>1. \A m : m \in Busy' <=> \E v \in Workers : task'[v] = m /\ m # NoTask
    BY DEF Busy
  <2>2. \A v \in Workers : task'[v] = IF v = w THEN n ELSE task[v]
    BY <1>1, <1>2
  <2>3. ASSUME NEW m PROVE m \in Busy' <=> m \in Busy \/ m = n
    BY <1>2, <2>1, <2>2, BusyElements
  <2> QED BY <2>3
<1>4. published' = published /\ main' = main
  BY DEF Take, callVars
<1>5. Pool!Cardinality(Busy) = Cardinality(Busy)
  BY DEF Pool!Cardinality, Cardinality
<1> QED BY <1>1, <1>2, <1>3, <1>4, <1>5, RoomForOne DEF Pool!Begin

LEMMA PublishRefines ==
  ASSUME Types, Placed, NEW w \in Workers, Publish(w) PROVE \E n \in NS : Pool!End(n)
<1> DEFINE n == task[w]
<1>1. /\ n \in NS /\ n # NoTask
      /\ task \in [Workers -> NS \cup {NoTask}]
      /\ task' = [task EXCEPT ![w] = NoTask]
      /\ published' = published \cup {n}
      /\ UNCHANGED <<taskCh, main>>
  BY VerifierAssumption DEF Publish, At, callVars, Types, TypeOK, InHand, NoTask
<1>2. \A v \in Workers \ {w} : task[v] # n
  BY <1>1 DEF Placed
<1>3. n \in Busy /\ Busy' = Busy \ {n}
  <2>1. \A m : m \in Busy' <=> \E v \in Workers : task'[v] = m /\ m # NoTask
    BY DEF Busy
  <2>2. \A m : m \in Busy' <=> m \in Busy /\ m # n
    BY <1>1, <1>2, <2>1, BusyElements
  <2>3. n \in Busy
    BY <1>1, BusyElements
  <2> QED BY <2>2, <2>3
<1> QED BY <1>1, <1>3 DEF Pool!End

(* The other steps of a goroutine are none of the pool.                    *)
LEMMA OtherWorkStutters ==
  ASSUME NEW w \in Workers, WorkerStep(w),
         OwnWork(w) \/ Exit(w) \/ UpdateProgress(w)
  PROVE  main' = main => UNCHANGED <<taskCh, Busy, published, main = "returned">>
<1>1. UNCHANGED <<taskCh, task, published>>
  BY DEF OwnWork, Exit, UpdateProgress, kept
<1> QED BY <1>1 DEF Busy

LEMMA WorkerKeepsMain ==
  ASSUME NEW w \in Workers, WorkerStep(w) PROVE main' = main
<1> USE DEF Read, kept, callVars
<1>1. CASE Take(w) \/ Exit(w) \/ CountSource(w) \/ CountTarget(w) \/ TryAgain(w)
           \/ OpenForward(w) \/ OpenForwardFails(w) \/ NextForward(w) \/ SkipForward(w)
           \/ EndOfForward(w) \/ Compare(w) \/ Missing(w)
  BY <1>1 DEF Take, Exit, CountSource, CountTarget, TryAgain, OpenForward,
     OpenForwardFails, NextForward, SkipForward, EndOfForward, Compare, Missing
<1>2. CASE Save(w) \/ SaveFile(w) \/ UpdateProgress(w) \/ OpenReverse(w)
           \/ OpenReverseFails(w) \/ NextReverse(w) \/ SkipReverse(w)
           \/ EndOfReverse(w) \/ LookupSource(w) \/ Publish(w)
  BY <1>2 DEF Save, SaveFile, UpdateProgress, OpenReverse, OpenReverseFails,
     NextReverse, SkipReverse, EndOfReverse, LookupSource, Publish
<1> QED BY <1>1, <1>2 DEF WorkerStep

LEMMA FreshRefines == ASSUME FreshCall PROVE Pool!StartOver
  BY DEF FreshCall, Pool!StartOver, Busy

LEMMA ReturnRefines ==
  ASSUME Types, Placed, Return PROVE Pool!ReturnAll
<1>1. \A w \in Workers : pc[w] = "exited" /\ task[w] = NoTask
  BY DEF Return, Types, InHand
<1>2. published = NS
  <2>1. taskCh = {} /\ published \subseteq NS /\ NoTask \notin NS
    BY <1>1, VerifierAssumption DEF Placed, Types, TypeOK, NoTask
  <2> QED BY <1>1, <2>1 DEF Placed
<1>3. UNCHANGED <<taskCh, task, published>> /\ main' = "returned"
  BY DEF Return
<1>4. Busy' = Busy
  BY <1>3 DEF Busy
<1>5. (main = "returned")' = TRUE
  BY <1>3
<1> QED BY <1>2, <1>3, <1>4, <1>5 DEF Pool!ReturnAll

LEMMA NextRefines ==
  Types /\ Placed /\ [Next]_vars => [Pool!PoolNext]_(Pool!poolVars)
<1> SUFFICES ASSUME Types, Placed, [Next]_vars
             PROVE  Pool!PoolNext \/ UNCHANGED Pool!poolVars
  OBVIOUS
<1>1. ASSUME NEW w \in Workers, WorkerStep(w)
      PROVE  Pool!PoolNext \/ UNCHANGED Pool!poolVars
  <2>1. CASE Take(w)
    BY <2>1, TakeRefines DEF Pool!PoolNext
  <2>2. CASE Publish(w)
    BY <2>2, PublishRefines DEF Pool!PoolNext
  <2>3. CASE OwnWork(w) \/ Exit(w) \/ UpdateProgress(w)
    BY <1>1, <2>3, OtherWorkStutters, WorkerKeepsMain DEF Pool!poolVars
  <2> QED BY <1>1, <2>1, <2>2, <2>3, WorkIsOwn
<1>2. ASSUME NEW w \in Workers, SaveCheckpointPanics(w) \/ BarUpdatePanics(w)
      PROVE  Pool!PoolNext
  BY <1>2, FreshRefines DEF SaveCheckpointPanics, BarUpdatePanics, ProcessEnds, Pool!PoolNext
<1>3. CASE Crash \/ NextCall
  BY <1>3, FreshRefines DEF Crash, NextCall, ProcessEnds, Pool!PoolNext
<1>4. CASE Return
  BY <1>4, ReturnRefines DEF Pool!PoolNext
<1>5. ASSUME UNCHANGED <<taskCh, task, published, main>> PROVE UNCHANGED Pool!poolVars
  BY <1>5 DEF Pool!poolVars, Busy
<1>6. CASE Restart \/ UNCHANGED vars
  BY <1>5, <1>6 DEF Restart, vars, callVars
<1>7. ASSUME NEW n \in NS, NEW id \in IDs,
             \/ \E v \in Versions \cup {NoDoc} : SourceWrite(n, id, v)
             \/ Replicate(n, id)
      PROVE  UNCHANGED Pool!poolVars
  BY <1>5, <1>7 DEF SourceWrite, Replicate, Writes, callVars
<1> QED BY <1>1, <1>2, <1>3, <1>4, <1>6, <1>7 DEF Next, Stopped

(* VerifyAllData is a pool: each namespace is begun by one goroutine, no   *)
(* more of them at a time than there are goroutines, published once, and   *)
(* the call returns when all are.                                          *)
THEOREM VerifyAllDataIsAPool == Spec => ImplementsPool
<1> QED BY InitTypes, NextTypes, InitPlaced, NextPlaced, InitRefines, NextRefines,
           PTL DEF Spec, ImplementsPool, Pool!PoolSpec
=============================================================================
