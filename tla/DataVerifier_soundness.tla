----------------------- MODULE DataVerifier_soundness -----------------------
(***************************************************************************)
(* The main theorems about DataVerifier.  PassIsSound: a namespace that     *)
(* passes a full scan is in sync, document by document, except for the     *)
(* documents that somebody changed during the run.  PassCovers: any other  *)
(* pass says this of what it looked up.  FailureIsGenuine: no failure is   *)
(* invented.  QuietDataSurvives: data at rest does not end the process.    *)
(* ReportIsExact: its report is the difference of the two collections, and *)
(* ReportSuitsRepair: repair may start from it.                            *)
(***************************************************************************)
EXTENDS DataVerifier_proofs

(***************************************************************************)
(* The scan of a worker, while nothing made it incomplete: what it has     *)
(* behind it, nobody has touched and it found nothing wrong with, is in    *)
(* sync.                                                                   *)
(***************************************************************************)
Clean(n) == caveat[n] \cap {"partial", "lost"} = {}

NoneMissed(n, left) ==
    \A id \in IDs \ (touched[n] \cup left) : src[n][id] # NoDoc => InSync(n, id)

NoneExtra(n, left) ==
    \A id \in IDs \ (touched[n] \cup left) : tgt[n][id] # NoDoc => src[n][id] # NoDoc

(* What the cursor has not delivered, and the document being looked up.    *)
Left(w) ==
    scan[w].range \cup (IF pc[w] \in {"find", "findRev"} THEN {scan[w].id} ELSE {})

FoundNothing(w) == result[w].missing = 0 /\ result[w].different = 0

ForwardLabels == {"next", "find", "save", "truncate", "write", "report"}
LaterLabels == {"openRev", "nextRev", "findRev", "publish"}

ScanSound(w) ==
    task[w] # NoTask /\ Clean(task[w]) /\ ~opts.dryRun =>
        /\ pc[w] \in ForwardLabels /\ FoundNothing(w) => NoneMissed(task[w], Left(w))
        /\ pc[w] = "find" /\ scan[w].id \notin touched[task[w]] =>
               src[task[w]][scan[w].id] = scan[w].version
        /\ pc[w] \in LaterLabels /\ FoundNothing(w) => NoneMissed(task[w], {})
        /\ pc[w] \in {"nextRev", "findRev"} /\ result[w].extra = 0 =>
               NoneExtra(task[w], Left(w))
        /\ pc[w] = "publish" /\ opts.bidirectional /\ result[w].extra = 0 =>
               NoneExtra(task[w], {})

Sound == NoFalsePass /\ \A w \in Workers : ScanSound(w)

-----------------------------------------------------------------------------
(* Steps of one worker leave the scans of the others alone.                *)
OnlyMoves(w) ==
    /\ UNCHANGED <<src, tgt, touched, opts>>
    /\ \A v \in Workers \ {w} : /\ pc'[v] = pc[v] /\ task'[v] = task[v]
                                /\ scan'[v] = scan[v] /\ result'[v] = result[v]
    /\ \A n \in NS \ {task[w]} : caveat'[n] = caveat[n]

LEMMA WorkerMovesOnly ==
  ASSUME Types, NEW w \in Workers, WorkerStep(w) PROVE OnlyMoves(w)
<1> USE DEF Types, TypeOK, OnlyMoves, Goto, Read, kept, dbVars, callVars, Note,
            Succeeds, Fails
<1>1. ASSUME Take(w) \/ Exit(w) PROVE OnlyMoves(w)
  <2>1. CASE Take(w)
    <3>1. PICK n \in taskCh : task' = [task EXCEPT ![w] = n]
      BY <2>1 DEF Take
    <3> QED BY <2>1, <3>1 DEF Take
  <2>2. CASE Exit(w)
    <3>1. pc' = [pc EXCEPT ![w] = "exited"]
          /\ UNCHANGED <<src, tgt, touched, opts, task, scan, result, caveat>>
      BY <2>2 DEF Exit
    <3> QED BY <3>1
  <2> QED BY <1>1, <2>1, <2>2
<1>2. ASSUME CountSource(w) PROVE OnlyMoves(w)
  BY <1>2 DEF CountSource, CountWithRetry
<1>3. ASSUME CountTarget(w) PROVE OnlyMoves(w)
  BY <1>3 DEF CountTarget, CountWithRetry
<1>4. ASSUME TryAgain(w) PROVE OnlyMoves(w)
  BY <1>4 DEF TryAgain
<1>5. ASSUME OpenForward(w) PROVE OnlyMoves(w)
  BY <1>5 DEF OpenForward
<1>6. ASSUME OpenForwardFails(w) PROVE OnlyMoves(w)
  BY <1>6 DEF OpenForwardFails
<1>7. ASSUME NextForward(w) PROVE OnlyMoves(w)
  <2>1. PICK id \in IDs : scan' = [scan EXCEPT
            ![w].range = After(w, id, ~opts.sampled),
            ![w].id = id,
            ![w].version = src[task[w]][id],
            ![w].tries = 0]
    BY <1>7 DEF NextForward
  <2>2. \A v \in Workers \ {w} : scan'[v] = scan[v]
    BY <2>1
  <2> QED BY <1>7, <2>2 DEF NextForward
<1>8. ASSUME SkipForward(w) PROVE OnlyMoves(w)
  <2>1. PICK s : scan' = [scan EXCEPT ![w] = s]
    BY <1>8 DEF SkipForward
  <2> QED BY <1>8, <2>1 DEF SkipForward
<1>9. ASSUME EndOfForward(w) PROVE OnlyMoves(w)
  BY <1>9 DEF EndOfForward, CursorEnds
<1>10. ASSUME Compare(w) PROVE OnlyMoves(w)
  BY <1>10 DEF Compare, Processed
<1>11. ASSUME Missing(w) PROVE OnlyMoves(w)
  BY <1>11 DEF Missing, Processed
<1>12. ASSUME Save(w) \/ SaveFile(w) PROVE OnlyMoves(w)
  <2>1. UNCHANGED <<dbVars, callVars, task, scan, result, caveat>>
    BY <1>12 DEF Save, SaveFile
  <2>2. PICK l : pc' = [pc EXCEPT ![w] = l]
    BY <1>12 DEF Save, SaveCheckpoint, SaveFile, FileOps, TruncateFile, OpenFileFails,
       WriteFile, WriteFileFails
  <2> QED BY <2>1, <2>2
<1>13. ASSUME UpdateProgress(w) PROVE OnlyMoves(w)
  BY <1>13 DEF UpdateProgress
<1>14. ASSUME OpenReverse(w) PROVE OnlyMoves(w)
  BY <1>14 DEF OpenReverse
<1>15. ASSUME OpenReverseFails(w) PROVE OnlyMoves(w)
  BY <1>15 DEF OpenReverseFails
<1>16. ASSUME NextReverse(w) PROVE OnlyMoves(w)
  <2>1. PICK s : scan' = [scan EXCEPT ![w] = s]
    BY <1>16 DEF NextReverse
  <2> QED BY <1>16, <2>1 DEF NextReverse
<1>17. ASSUME SkipReverse(w) PROVE OnlyMoves(w)
  <2>1. PICK s : scan' = [scan EXCEPT ![w] = s]
    BY <1>17 DEF SkipReverse
  <2> QED BY <1>17, <2>1 DEF SkipReverse
<1>18. ASSUME EndOfReverse(w) PROVE OnlyMoves(w)
  BY <1>18 DEF EndOfReverse, CursorEnds
<1>19. ASSUME LookupSource(w) PROVE OnlyMoves(w)
  BY <1>19 DEF LookupSource
<1>20. ASSUME Publish(w) PROVE OnlyMoves(w)
  BY <1>20 DEF Publish
<1> QED BY <1>1, <1>2, <1>3, <1>4, <1>5, <1>6, <1>7, <1>8, <1>9, <1>10, <1>11, <1>12,
           <1>13, <1>14, <1>15, <1>16, <1>17, <1>18, <1>19, <1>20 DEF WorkerStep

LEMMA OthersSound ==
  ASSUME Types, Placed, NEW w \in Workers, OnlyMoves(w),
         NEW v \in Workers \ {w}, ScanSound(v)
  PROVE  ScanSound(v)'
<1>1. task[v] # NoTask => task[v] \in NS \ {task[w]}
  BY DEF Types, TypeOK, Placed
<1>2. /\ pc'[v] = pc[v] /\ task'[v] = task[v] /\ scan'[v] = scan[v]
      /\ result'[v] = result[v]
      /\ UNCHANGED <<src, tgt, touched, opts>>
      /\ task[v] # NoTask => caveat'[task[v]] = caveat[task[v]]
  BY <1>1 DEF OnlyMoves
<1> QED BY <1>2 DEF ScanSound, Clean, NoneMissed, NoneExtra, Left, FoundNothing, InSync

-----------------------------------------------------------------------------
(* A worker's own scan, action by action.                                  *)
LEMMA CountSound ==
  ASSUME Types, NEW w \in Workers,
         \/ Take(w) \/ Exit(w) \/ CountSource(w) \/ Publish(w)
         \/ CountTarget(w) /\ ~opts.dryRun
  PROVE  ScanSound(w)'
<1>1. pc'[w] \in {"countSrc", "countTgt", "open", "idle", "exited"}
  BY DEF Types, TypeOK, Take, Exit, CountSource, CountTarget, Publish, Goto
<1> QED BY <1>1 DEF ScanSound, ForwardLabels, LaterLabels

LEMMA CountTargetSound ==
  ASSUME Types, NEW w \in Workers, CountTarget(w)
  PROVE  ScanSound(w)'
<1>1. opts'.dryRun = opts.dryRun
  BY DEF CountTarget, Read, kept, callVars
<1>2. CASE opts.dryRun
  BY <1>1, <1>2 DEF ScanSound
<1> QED BY <1>2, CountSound

(* A failure that loses part of the scan takes away the premise.           *)
LEMMA LostSound ==
  ASSUME Types, NEW w \in Workers, task[w] \in NS, task'[w] = task[w],
         Fails(w, "lost")
  PROVE  ScanSound(w)'
<1>1. "lost" \in caveat'[task[w]]
  BY DEF Fails, Note, Types, TypeOK
<1> QED BY <1>1 DEF ScanSound, Clean

LEMMA TryAgainSound ==
  ASSUME Types, NEW w \in Workers, TryAgain(w), ScanSound(w)
  PROVE  ScanSound(w)'
<1>1. /\ UNCHANGED <<src, tgt, touched, opts, task, pc, result, caveat>>
      /\ scan'[w].range = scan[w].range /\ scan'[w].id = scan[w].id
      /\ scan'[w].version = scan[w].version
  BY DEF TryAgain, kept, dbVars, callVars, Types, TypeOK, ScanRecord
<1> QED BY <1>1 DEF ScanSound, Clean, NoneMissed, NoneExtra, Left, FoundNothing, InSync

LEMMA OpenForwardSound ==
  ASSUME Types, NEW w \in Workers, OpenForward(w) PROVE ScanSound(w)'
<1>1. PICK range \in SUBSET IDs :
        /\ scan' = [scan EXCEPT ![w] = [NewScan EXCEPT !.range = range]]
        /\ IF range = IDs THEN UNCHANGED caveat ELSE Note(w, "partial")
  BY DEF OpenForward
<1>2. task[w] \in NS /\ task'[w] = task[w] /\ pc'[w] = "next"
  BY DEF OpenForward, At, Goto, Read, kept, Types, TypeOK, InHand
<1>3. CASE range = IDs
  <2>1. scan'[w].range = IDs
    BY <1>1, <1>3 DEF NewScan, Types, TypeOK
  <2> QED BY <1>2, <2>1 DEF ScanSound, NoneMissed, Left, LaterLabels
<1>4. CASE range # IDs
  <2>1. "partial" \in caveat'[task[w]]
    BY <1>1, <1>2, <1>4 DEF Note, Types, TypeOK
  <2> QED BY <1>2, <2>1 DEF ScanSound, Clean
<1> QED BY <1>3, <1>4

(* What the cursor passes over when it delivers id is not in the           *)
(* collection.                                                             *)
LEMMA CursorPasses ==
  ASSUME Types, NEW w \in Workers, NEW coll, NEW sorted \in BOOLEAN, NEW id \in IDs,
         IsNext(w, coll, id, sorted), NEW x \in IDs,
         x \in scan[w].range, x \notin After(w, id, sorted), x # id
  PROVE  coll[task[w]][x] = NoDoc
<1>1. x \in Nat /\ id \in Nat
  BY CheckpointAssumption
<1>2. CASE sorted
  <2>1. x < id
    BY <1>1, <1>2 DEF After
  <2>2. x \notin Deliverable(w, coll)
    BY <1>1, <1>2, <2>1 DEF IsNext
  <2> QED BY <2>2 DEF Deliverable, Present
<1>3. CASE ~sorted
  BY <1>3 DEF After
<1> QED BY <1>2, <1>3

LEMMA NextForwardSound ==
  ASSUME Types, NEW w \in Workers, NextForward(w), ScanSound(w)
  PROVE  ScanSound(w)'
<1>1. PICK id \in IDs :
        /\ IsNext(w, src, id, ~opts.sampled)
        /\ scan' = [scan EXCEPT
              ![w].range = After(w, id, ~opts.sampled),
              ![w].id = id,
              ![w].version = src[task[w]][id],
              ![w].tries = 0]
  BY DEF NextForward
<1>2. /\ pc[w] = "next" /\ pc'[w] = "find" /\ task[w] \in NS
      /\ UNCHANGED <<src, tgt, touched, opts, task, result, caveat>>
  BY DEF NextForward, At, Goto, Read, kept, dbVars, callVars, Types, TypeOK, InHand
<1> DEFINE range == After(w, id, ~opts.sampled)
<1>3. /\ scan'[w].range = range
      /\ scan'[w].id = id
      /\ scan'[w].version = src[task[w]][id]
  <2> DEFINE version == src[task[w]][id]
  <2>1. scan' = [scan EXCEPT ![w] = [scan[w] EXCEPT !.range = range, !.id = id,
                                       !.version = version, !.tries = 0]]
    BY <1>1
  <2> HIDE DEF range, version
  <2>2. scan \in [Workers -> ScanRecord]
    BY DEF Types, TypeOK
  <2>3. scan'[w].range = range /\ scan'[w].id = id /\ scan'[w].version = version
    BY <2>1, <2>2 DEF ScanRecord
  <2> QED BY <2>3 DEF version
<1>4. ASSUME NEW x \in IDs, x \in scan[w].range, x \notin range, x # id
      PROVE  src[task[w]][x] = NoDoc
  BY <1>1, <1>4, CursorPasses
<1> HIDE DEF range
<1>5. ASSUME NoneMissed(task[w], scan[w].range)
      PROVE  NoneMissed(task[w], range \cup {id})
  BY <1>4, <1>5 DEF NoneMissed
<1>6. Left(w) = scan[w].range /\ Left(w)' = range \cup {id}
  BY <1>2, <1>3 DEF Left
<1> QED BY <1>2, <1>3, <1>5, <1>6
        DEF ScanSound, Clean, FoundNothing, NoneMissed, InSync, ForwardLabels, LaterLabels

(* At the end of a cursor nothing it could still deliver is there.         *)
LEMMA CursorExhausted ==
  ASSUME NEW w \in Workers, NEW coll, Deliverable(w, coll) = {}, NEW x \in IDs,
         x \in scan[w].range
  PROVE  coll[task[w]][x] = NoDoc
  BY DEF Deliverable, Present

LEMMA EndSound ==
  ASSUME Types, NEW w \in Workers, EndOfForward(w) \/ EndOfReverse(w), ScanSound(w)
  PROVE  ScanSound(w)'
<1>1. /\ task[w] \in NS /\ task'[w] = task[w]
      /\ UNCHANGED <<src, tgt, touched, opts, scan, result>>
  BY DEF EndOfForward, EndOfReverse, At, Read, kept, dbVars, callVars, Types, TypeOK, InHand
<1>2. CASE Fails(w, "lost")
  BY <1>1, <1>2, LostSound
<1>3. CASE EndOfForward(w) /\ Deliverable(w, src) = {} /\ Succeeds
  <2>1. /\ pc[w] = "next" /\ pc'[w] \in {"openRev", "publish"} /\ caveat' = caveat
        /\ pc'[w] = "publish" => ~opts.bidirectional
    BY <1>3 DEF EndOfForward, EndForward, At, Goto, Succeeds, Types, TypeOK
  <2>2. NoneMissed(task[w], scan[w].range) => NoneMissed(task[w], {})
    BY <1>3, CursorExhausted DEF NoneMissed
  <2>3. Left(w) = scan[w].range
    BY <2>1 DEF Left
  <2> QED BY <1>1, <2>1, <2>2, <2>3
          DEF ScanSound, Clean, FoundNothing, NoneMissed, InSync, ForwardLabels, LaterLabels
<1>4. CASE EndOfReverse(w) /\ Deliverable(w, tgt) = {} /\ Succeeds
  <2>1. pc[w] = "nextRev" /\ pc'[w] = "publish" /\ caveat' = caveat
    BY <1>4 DEF EndOfReverse, At, Goto, Succeeds, Types, TypeOK
  <2>2. NoneExtra(task[w], scan[w].range) => NoneExtra(task[w], {})
    BY <1>4, CursorExhausted DEF NoneExtra
  <2>3. Left(w) = scan[w].range
    BY <2>1 DEF Left
  <2> QED BY <1>1, <2>1, <2>2, <2>3
          DEF ScanSound, Clean, FoundNothing, NoneMissed, NoneExtra, InSync,
              ForwardLabels, LaterLabels
<1> QED BY <1>2, <1>3, <1>4 DEF EndOfForward, EndOfReverse, CursorEnds

LEMMA LosingSound ==
  ASSUME Types, NEW w \in Workers,
         \/ OpenForwardFails(w) \/ SkipForward(w) \/ OpenReverseFails(w) \/ SkipReverse(w)
  PROVE  ScanSound(w)'
<1>1. Fails(w, "lost") /\ task'[w] = task[w] /\ task[w] \in NS
  BY DEF OpenForwardFails, SkipForward, OpenReverseFails, SkipReverse, At, Read, kept,
     Types, TypeOK, InHand
<1> QED BY <1>1, LostSound

LEMMA CompareSound ==
  ASSUME Types, NEW w \in Workers, Compare(w), ScanSound(w)
  PROVE  ScanSound(w)'
<1> DEFINE id == scan[w].id
           n == task[w]
<1>1. /\ pc[w] = "find" /\ pc'[w] \in {"save", "next"} /\ n \in NS
      /\ UNCHANGED <<src, tgt, touched, opts, task, caveat>>
  BY DEF Compare, Processed, At, Goto, Read, kept, dbVars, callVars, Types, TypeOK, InHand
<1>2. scan'[w].range = scan[w].range
  BY DEF Compare, Processed, Types, TypeOK, ScanRecord
<1>3. Left(w) = scan[w].range \cup {id} /\ Left(w)' = scan[w].range
  BY <1>1, <1>2 DEF Left
<1>4. CASE tgt[n][id] = scan[w].version
  <2>1. result'[w] = result[w]
    BY <1>4 DEF Compare, Processed, Types, TypeOK
  <2>2. ASSUME NoneMissed(n, Left(w)),
               id \notin touched[n] => src[n][id] = scan[w].version
        PROVE  NoneMissed(n, scan[w].range)
    BY <1>3, <1>4, <2>2 DEF NoneMissed, InSync
  <2> QED BY <1>1, <1>3, <2>1, <2>2
          DEF ScanSound, Clean, FoundNothing, NoneMissed, InSync, ForwardLabels, LaterLabels
<1>5. CASE tgt[n][id] # scan[w].version
  <2>1. result'[w] = WithDifferent(result[w], id) /\ result[w] \in DataResult
    BY <1>5 DEF Compare, Processed, Types, TypeOK
  <2>2. result'[w].different = result[w].different + 1 /\ result[w].different \in Nat
    BY <2>1 DEF WithDifferent, DataResult
  <2>3. ~FoundNothing(w)'
    BY <2>2 DEF FoundNothing
  <2> QED BY <1>1, <2>3 DEF ScanSound, ForwardLabels, LaterLabels
<1> QED BY <1>4, <1>5

LEMMA MissingSound ==
  ASSUME Types, NEW w \in Workers, Missing(w)
  PROVE  ScanSound(w)'
<1>1. pc'[w] \in {"save", "next"}
  BY DEF Missing, Processed, Goto, Types, TypeOK
<1>2. result'[w] = WithMissing(result[w], scan[w].id) /\ result[w] \in DataResult
  BY DEF Missing, Processed, Types, TypeOK
<1>3. result'[w].missing = result[w].missing + 1 /\ result[w].missing \in Nat
  BY <1>2 DEF WithMissing, DataResult
<1>4. ~FoundNothing(w)'
  BY <1>3 DEF FoundNothing
<1> QED BY <1>1, <1>4 DEF ScanSound, ForwardLabels, LaterLabels

LEMMA SaveSound ==
  ASSUME Types, NEW w \in Workers, Save(w) \/ SaveFile(w) \/ UpdateProgress(w),
         ScanSound(w)
  PROVE  ScanSound(w)'
<1>1. UNCHANGED <<src, tgt, touched, opts, task, scan, result, caveat>>
  BY DEF Save, SaveFile, UpdateProgress, dbVars, callVars
<1>2. /\ pc[w] \in {"save", "truncate", "write", "report"}
      /\ pc'[w] \in {"truncate", "write", "report", "next"}
  <2>1. CASE Save(w)
    BY <2>1 DEF Save, SaveCheckpoint, At, Goto, Types, TypeOK
  <2>2. CASE SaveFile(w)
    BY <2>2 DEF SaveFile, FileOps, TruncateFile, OpenFileFails, WriteFile,
       WriteFileFails, At, Goto, Types, TypeOK
  <2>3. CASE UpdateProgress(w)
    BY <2>3 DEF UpdateProgress, At, Goto, Types, TypeOK
  <2> QED BY <2>1, <2>2, <2>3
<1> QED BY <1>1, <1>2
        DEF ScanSound, Clean, FoundNothing, NoneMissed, InSync, Left, ForwardLabels, LaterLabels

LEMMA OpenReverseSound ==
  ASSUME Types, NEW w \in Workers, OpenReverse(w), ScanSound(w)
  PROVE  ScanSound(w)'
<1>1. /\ pc[w] = "openRev" /\ pc'[w] = "nextRev"
      /\ UNCHANGED <<src, tgt, touched, opts, task, result, caveat>>
      /\ scan'[w].range = IDs
  BY DEF OpenReverse, At, Goto, Read, kept, dbVars, callVars, Types, TypeOK, NewScan
<1>2. Left(w)' = IDs
  BY <1>1 DEF Left
<1> QED BY <1>1, <1>2
        DEF ScanSound, Clean, FoundNothing, NoneMissed, NoneExtra, InSync,
            ForwardLabels, LaterLabels

LEMMA NextReverseSound ==
  ASSUME Types, NEW w \in Workers, NextReverse(w), ScanSound(w)
  PROVE  ScanSound(w)'
<1>1. PICK id \in IDs :
        /\ IsNext(w, tgt, id, TRUE)
        /\ scan' = [scan EXCEPT ![w].range = After(w, id, TRUE), ![w].id = id]
  BY DEF NextReverse
<1>2. /\ pc[w] = "nextRev" /\ pc'[w] = "findRev" /\ task[w] \in NS
      /\ UNCHANGED <<src, tgt, touched, opts, task, result, caveat>>
  BY DEF NextReverse, At, Goto, Read, kept, dbVars, callVars, Types, TypeOK, InHand
<1> DEFINE range == After(w, id, TRUE)
<1>3. scan'[w].range = range /\ scan'[w].id = id
  BY <1>1 DEF Types, TypeOK, ScanRecord
<1>4. ASSUME NEW x \in IDs, x \in scan[w].range, x \notin range, x # id
      PROVE  tgt[task[w]][x] = NoDoc
  BY <1>1, <1>4, CursorPasses
<1> HIDE DEF range
<1>5. ASSUME NoneExtra(task[w], scan[w].range)
      PROVE  NoneExtra(task[w], range \cup {id})
  BY <1>4, <1>5 DEF NoneExtra
<1>6. Left(w) = scan[w].range /\ Left(w)' = range \cup {id}
  BY <1>2, <1>3 DEF Left
<1> QED BY <1>2, <1>3, <1>5, <1>6
        DEF ScanSound, Clean, FoundNothing, NoneMissed, NoneExtra, InSync,
            ForwardLabels, LaterLabels

LEMMA LookupSourceSound ==
  ASSUME Types, NEW w \in Workers, LookupSource(w), ScanSound(w)
  PROVE  ScanSound(w)'
<1> DEFINE id == scan[w].id
           n == task[w]
<1>1. /\ pc[w] = "findRev" /\ pc'[w] = "nextRev" /\ n \in NS
      /\ UNCHANGED <<src, tgt, touched, opts, task, scan>>
      /\ \/ caveat' = caveat
         \/ Fails(w, "gaveUp")
  BY DEF LookupSource, At, Goto, Read, kept, dbVars, callVars, Succeeds,
     Types, TypeOK, InHand
<1>2. Clean(n)' => Clean(n)
  BY <1>1 DEF Clean, Fails, Note, Types, TypeOK
<1>3. Left(w) = scan[w].range \cup {id} /\ Left(w)' = scan[w].range
  BY <1>1 DEF Left
<1>4. CASE src[n][id] # NoDoc /\ result' = result
  <2>1. ASSUME NoneExtra(n, Left(w)) PROVE NoneExtra(n, scan[w].range)
    BY <1>3, <1>4, <2>1 DEF NoneExtra
  <2> QED BY <1>1, <1>2, <1>3, <1>4, <2>1
          DEF ScanSound, Clean, FoundNothing, NoneMissed, NoneExtra, InSync,
              ForwardLabels, LaterLabels
<1>5. CASE result' = [result EXCEPT ![w] = WithExtra(@, id)]
  <2>1. result'[w] = WithExtra(result[w], id) /\ result[w] \in DataResult
    BY <1>5 DEF Types, TypeOK
  <2>2. /\ result'[w].extra = result[w].extra + 1 /\ result[w].extra \in Nat
        /\ result'[w].missing = result[w].missing
        /\ result'[w].different = result[w].different
    BY <2>1 DEF WithExtra, DataResult
  <2>3. result'[w].extra # 0
    BY <2>2
  <2> QED BY <1>1, <1>2, <2>2, <2>3
          DEF ScanSound, Clean, FoundNothing, NoneMissed, InSync, ForwardLabels, LaterLabels
<1> QED BY <1>4, <1>5 DEF LookupSource

LEMMA OwnScanSound ==
  ASSUME Types, NEW w \in Workers, WorkerStep(w), ScanSound(w)
  PROVE  ScanSound(w)'
  BY CountSound, CountTargetSound, TryAgainSound, OpenForwardSound, NextForwardSound,
     EndSound, LosingSound, CompareSound, MissingSound, SaveSound, OpenReverseSound,
     NextReverseSound, LookupSourceSound
  DEF WorkerStep

-----------------------------------------------------------------------------
(* Publishing turns what the scan knows into the verdict.                  *)
LEMMA PublishPass ==
  ASSUME Types, Placed, NEW w \in Workers, Publish(w), Sound PROVE NoFalsePass'
<1>0. PICK n \in NS : task[w] = n
  BY DEF Publish, At, Types, TypeOK, InHand
<1>1. /\ pc[w] = "publish" /\ n \in NS /\ n # NoTask /\ published' = published \cup {n}
      /\ n \notin published
      /\ UNCHANGED <<src, tgt, touched, opts, caveat>>
  BY <1>0, VerifierAssumption
  DEF Publish, At, dbVars, callVars, Types, TypeOK, InHand, Placed, NoTask
<1>2. \A m \in published : rpt'[m] = rpt[m]
  BY <1>0, <1>1 DEF Publish, Types, TypeOK
<1>3. rpt'[n].passed = (opts.dryRun \/ Passes(result[w]))
  <2>1. result[w] \in DataResult
    BY DEF Types, TypeOK
  <2>2. rpt'[n] = [result[w] EXCEPT !.passed = opts.dryRun \/ Passes(result[w])]
    BY <1>0, <1>1 DEF Publish, Types, TypeOK
  <2> QED BY <2>1, <2>2 DEF DataResult
<1>4. ASSUME FullVerdict(n)', rpt'[n].passed, NEW id \in IDs \ touched[n]
      PROVE  /\ src[n][id] # NoDoc => InSync(n, id)
             /\ opts.bidirectional => InSync(n, id)
  <2>1. ~opts.dryRun /\ Clean(n) /\ Passes(result[w])
    <3>1. ~opts.dryRun /\ Clean(n)
      BY <1>1, <1>4 DEF FullVerdict, Clean
    <3>2. opts.dryRun \/ Passes(result[w])
      BY <1>3, <1>4, Zenon
    <3> QED BY <3>1, <3>2
  <2>2. FoundNothing(w) /\ result[w].extra = 0
    BY <2>1 DEF Passes, FoundNothing
  <2>3. /\ NoneMissed(n, {})
        /\ opts.bidirectional => NoneExtra(n, {})
    BY <1>0, <1>1, <2>1, <2>2 DEF Sound, ScanSound, LaterLabels
  <2> QED BY <2>3 DEF NoneMissed, NoneExtra, InSync
<1>5. ASSUME NEW m \in published, FullVerdict(m)', rpt'[m].passed,
             NEW id \in IDs \ touched[m]
      PROVE  /\ src[m][id] # NoDoc => InSync(m, id)
             /\ opts.bidirectional => InSync(m, id)
  BY <1>1, <1>2, <1>5 DEF Sound, NoFalsePass, FullVerdict, Types, TypeOK
<1>6. ASSUME NEW m \in NS, FullVerdict(m)', rpt'[m].passed, NEW id \in IDs \ touched[m]
      PROVE  /\ src[m][id] # NoDoc => InSync(m, id)
             /\ opts.bidirectional => InSync(m, id)
  <2>1. m \in published \/ m = n
    BY <1>1, <1>6 DEF FullVerdict
  <2> QED BY <1>4, <1>5, <1>6, <2>1
<1>7. /\ touched' = touched /\ opts' = opts
      /\ \A m \in NS, id \in IDs : InSync(m, id)' = InSync(m, id)
      /\ \A m \in NS, id \in IDs : src'[m][id] = src[m][id]
  BY <1>1 DEF InSync
<1> QED BY <1>6, <1>7 DEF NoFalsePass

LEMMA WorkerSound ==
  ASSUME Types, Placed, NEW w \in Workers, WorkerStep(w), Sound PROVE Sound'
<1>1. ScanSound(w)'
  BY OwnScanSound DEF Sound
<1>2. OnlyMoves(w)
  BY WorkerMovesOnly
<1>3. \A v \in Workers \ {w} : ScanSound(v)'
  BY <1>2, OthersSound DEF Sound
<1>4. NoFalsePass'
  <2>1. CASE Publish(w)
    BY <2>1, PublishPass
  <2>2. CASE OwnWork(w) \/ Take(w) \/ Exit(w) \/ UpdateProgress(w)
    <3>1. published' = published /\ \A n \in published : rpt'[n] = rpt[n]
      BY <2>2 DEF OwnWork, Take, Exit, UpdateProgress, kept, Placed, Types, TypeOK
    <3>2. \A n \in published : caveat'[n] = caveat[n]
      BY <1>2 DEF OnlyMoves, Placed, Types, TypeOK
    <3>3. UNCHANGED <<src, tgt, touched, opts>>
      BY <1>2 DEF OnlyMoves
    <3> QED BY <3>1, <3>2, <3>3 DEF Sound, NoFalsePass, FullVerdict, InSync
  <2> QED BY <2>1, <2>2, WorkIsOwn
<1> QED BY <1>1, <1>3, <1>4 DEF Sound

LEMMA FreshSound ==
  ASSUME FreshCall PROVE Sound'
  BY DEF FreshCall, Sound, NoFalsePass, FullVerdict, ScanSound

LEMMA ClusterSound ==
  ASSUME Types, Sound, NEW n \in NS, NEW id \in IDs,
         \/ \E v \in Versions \cup {NoDoc} : SourceWrite(n, id, v)
         \/ Replicate(n, id)
  PROVE  Sound'
<1>1. /\ touched' = [touched EXCEPT ![n] = @ \cup {id}]
      /\ UNCHANGED <<opts, task, scan, result, pc, rpt, published, caveat>>
  BY DEF SourceWrite, Replicate, Writes, allCpVars, callVars
<1>2. /\ src \in [NS -> [IDs -> Versions \cup {NoDoc}]]
      /\ tgt \in [NS -> [IDs -> Versions \cup {NoDoc}]]
      /\ touched \in [NS -> SUBSET IDs]
  BY DEF Types, TypeOK, Collections
<1>3. \A m \in NS : \A x \in IDs \ touched'[m] :
          src'[m][x] = src[m][x] /\ tgt'[m][x] = tgt[m][x] /\ x \notin touched[m]
  <2>1. CASE \E v \in Versions \cup {NoDoc} : SourceWrite(n, id, v)
    BY <1>1, <1>2, <2>1 DEF SourceWrite
  <2>2. CASE Replicate(n, id)
    BY <1>1, <1>2, <2>2 DEF Replicate
  <2> QED BY <2>1, <2>2
<1>4. NoFalsePass'
  BY <1>1, <1>3 DEF Sound, NoFalsePass, FullVerdict, InSync
<1>5. ASSUME NEW w \in Workers PROVE ScanSound(w)'
  <2> SUFFICES ASSUME task[w] # NoTask, Clean(task[w]), ~opts.dryRun PROVE ScanSound(w)'
    BY <1>1 DEF ScanSound, Clean
  <2>1. task[w] \in NS /\ Left(w)' = Left(w)
    BY <1>1 DEF Types, TypeOK, Left
  <2>2. ASSUME NEW left, NoneMissed(task[w], left) PROVE NoneMissed(task[w], left)'
    BY <1>3, <2>1, <2>2, <1>1 DEF NoneMissed, InSync
  <2>3. ASSUME NEW left, NoneExtra(task[w], left) PROVE NoneExtra(task[w], left)'
    BY <1>3, <2>1, <2>3, <1>1 DEF NoneExtra
  <2>4. ScanSound(w)
    BY DEF Sound
  <2>5. pc[w] = "find" /\ scan[w].id \notin touched'[task[w]] =>
           src'[task[w]][scan[w].id] = scan[w].version
    BY <1>3, <2>1, <2>4 DEF ScanSound, Types, InHand
  <2> QED BY <1>1, <2>1, <2>2, <2>3, <2>4, <2>5
          DEF ScanSound, FoundNothing, Clean, NoneMissed, NoneExtra, InSync
<1> QED BY <1>4, <1>5 DEF Sound

(* A dead process has no call: nothing is published, nobody has a task.    *)
Gone == proc = "down" => published = {} /\ \A w \in Workers : task[w] = NoTask

LEMMA NextGone == Gone /\ [Next]_vars => Gone'
<1> SUFFICES ASSUME Gone, [Next]_vars PROVE Gone'
  OBVIOUS
<1> USE DEF Gone
<1>1. ASSUME NEW w \in Workers, WorkerStep(w) PROVE proc = "up" /\ proc' = proc
  <2> USE DEF At, Read, kept, dbVars, callVars
  <2>1. CASE Take(w) \/ Exit(w) \/ CountSource(w) \/ CountTarget(w) \/ TryAgain(w)
    BY <2>1 DEF Take, Exit, CountSource, CountTarget, TryAgain
  <2>2. CASE OpenForward(w) \/ OpenForwardFails(w) \/ NextForward(w) \/ SkipForward(w)
             \/ EndOfForward(w) \/ Compare(w) \/ Missing(w)
    BY <2>2 DEF OpenForward, OpenForwardFails, NextForward, SkipForward, EndOfForward,
       Compare, Missing
  <2>3. CASE Save(w) \/ SaveFile(w) \/ UpdateProgress(w)
    BY <2>3 DEF Save, SaveCheckpoint, SaveFile, FileOps, TruncateFile, OpenFileFails,
       WriteFile, WriteFileFails, UpdateProgress
  <2>4. CASE OpenReverse(w) \/ OpenReverseFails(w) \/ NextReverse(w) \/ SkipReverse(w)
             \/ EndOfReverse(w) \/ LookupSource(w) \/ Publish(w)
    BY <2>4 DEF OpenReverse, OpenReverseFails, NextReverse, SkipReverse, EndOfReverse,
       LookupSource, Publish
  <2> QED BY <1>1, <2>1, <2>2, <2>3, <2>4 DEF WorkerStep
<1>2. ASSUME FreshCall PROVE Gone'
  BY <1>2 DEF FreshCall
<1>3. ASSUME NEW w \in Workers, SaveCheckpointPanics(w) \/ BarUpdatePanics(w)
      PROVE  Gone'
  BY <1>2, <1>3 DEF SaveCheckpointPanics, BarUpdatePanics, ProcessEnds
<1>4. CASE Crash \/ NextCall
  BY <1>2, <1>4 DEF Crash, NextCall, ProcessEnds
<1>5. CASE Return \/ Restart
  BY <1>5 DEF Return, Restart, Boot, allCpVars
<1>6. ASSUME NEW n \in NS, NEW id \in IDs,
             \/ \E v \in Versions \cup {NoDoc} : SourceWrite(n, id, v)
             \/ Replicate(n, id)
      PROVE  Gone'
  BY <1>6 DEF SourceWrite, Replicate, Writes, allCpVars
<1>7. CASE UNCHANGED vars
  BY <1>7 DEF vars, allCpVars
<1> QED BY <1>1, <1>3, <1>4, <1>5, <1>6, <1>7 DEF Next, Stopped

LEMMA InitSound == Init => Sound
  BY DEF Init, Sound, NoFalsePass, FullVerdict, ScanSound

LEMMA NextSound == Types /\ Placed /\ Gone /\ Sound /\ [Next]_vars => Sound'
<1> SUFFICES ASSUME Types, Placed, Gone, Sound, [Next]_vars PROVE Sound'
  OBVIOUS
<1>1. ASSUME NEW w \in Workers, SaveCheckpointPanics(w) \/ BarUpdatePanics(w)
      PROVE  Sound'
  BY <1>1, FreshSound DEF SaveCheckpointPanics, BarUpdatePanics, ProcessEnds
<1>2. CASE Crash \/ NextCall
  BY <1>2, FreshSound DEF Crash, NextCall, ProcessEnds
<1>3. CASE Return
  BY <1>3 DEF Return, allCpVars, dbVars, Sound, NoFalsePass, FullVerdict, ScanSound, Clean,
     NoneMissed, NoneExtra, InSync, Left, FoundNothing
<1>4. CASE Restart
  BY <1>4 DEF Restart, Boot, Gone, Sound, NoFalsePass, FullVerdict, ScanSound
<1>5. CASE UNCHANGED vars
  BY <1>5 DEF vars, allCpVars, dbVars, callVars, Sound, NoFalsePass, FullVerdict,
     ScanSound, Clean, NoneMissed, NoneExtra, InSync, Left, FoundNothing
<1> QED BY <1>1, <1>2, <1>3, <1>4, <1>5, WorkerSound, ClusterSound DEF Next, Stopped

(* Whatever fails, dies or changes, and for any number of workers,         *)
(* namespaces and documents: when a full scan that lost nothing publishes  *)
(* a pass, every source document nobody changed meanwhile is the same in   *)
(* the target, and after a bidirectional one no unchanged document is in   *)
(* the target alone.                                                       *)
THEOREM PassIsSound == Spec => []NoFalsePass
<1>1. Sound => NoFalsePass
  BY DEF Sound
<1>2. Init => Gone
  BY DEF Init, Gone
<1> QED BY InitTypes, NextTypes, InitPlaced, NextPlaced, NextGone, InitSound, NextSound,
           <1>1, <1>2,
           PTL DEF Spec

-----------------------------------------------------------------------------
(* A pass of any scan.  What this call has looked up and nobody touched is *)
(* in sync as long as nothing was counted missing or different; a          *)
(* namespace in the channel has not been looked at.                        *)
Delivered(w) ==
    pc[w] = "find" /\ scan[w].id \notin touched[task[w]] =>
        src[task[w]][scan[w].id] = scan[w].version

InSyncSoFar(w) ==
    FoundNothing(w) => \A id \in examined[task[w]] \ touched[task[w]] : InSync(task[w], id)

LookupSound(w) == task[w] # NoTask => Delivered(w) /\ InSyncSoFar(w)

Covered ==
    /\ PassCoversExamined
    /\ \A n \in taskCh : examined[n] = {}
    /\ \A w \in Workers : LookupSound(w)

(* Only a lookup adds to what was examined, in the worker's namespace.     *)
LEMMA WorkerExamines ==
  ASSUME Types, NEW w \in Workers, WorkerStep(w)
  PROVE  /\ \A n \in NS \ {task[w]} : examined'[n] = examined[n]
         /\ Compare(w) \/ Missing(w) \/ examined' = examined
<1>1. ASSUME Compare(w) \/ Missing(w)
      PROVE  \A n \in NS \ {task[w]} : examined'[n] = examined[n]
  BY <1>1 DEF Compare, Missing, Processed, Types, TypeOK
<1>2. ASSUME ~(Compare(w) \/ Missing(w)) PROVE examined' = examined
  <2> USE DEF history
  <2>1. ASSUME Take(w) \/ Exit(w) \/ CountSource(w) \/ CountTarget(w) \/ TryAgain(w)
               \/ OpenForward(w) \/ OpenForwardFails(w) \/ NextForward(w)
               \/ SkipForward(w) \/ EndOfForward(w)
        PROVE  examined' = examined
    BY <2>1 DEF Take, Exit, CountSource, CountTarget, TryAgain, OpenForward,
       OpenForwardFails, NextForward, SkipForward, EndOfForward
  <2>2. ASSUME Save(w) \/ SaveFile(w) \/ UpdateProgress(w) \/ OpenReverse(w)
               \/ OpenReverseFails(w) \/ NextReverse(w) \/ SkipReverse(w)
               \/ EndOfReverse(w) \/ LookupSource(w) \/ Publish(w)
        PROVE  examined' = examined
    BY <2>2 DEF Save, SaveFile, UpdateProgress, OpenReverse, OpenReverseFails,
       NextReverse, SkipReverse, EndOfReverse, LookupSource, Publish
  <2> QED BY <1>2, <2>1, <2>2 DEF WorkerStep
<1> QED BY <1>1, <1>2

(* The steps that look nothing up and deliver nothing.                     *)
LEMMA QuietStep ==
  ASSUME Types, NEW w \in Workers, WorkerStep(w),
         ~(Take(w) \/ Exit(w) \/ Publish(w) \/ NextForward(w) \/ Compare(w) \/ Missing(w))
  PROVE  /\ task' = task
         /\ FoundNothing(w)' => FoundNothing(w)
         /\ pc'[w] = "find" => /\ pc[w] = "find"
                               /\ scan'[w].id = scan[w].id
                               /\ scan'[w].version = scan[w].version
<1> USE DEF FoundNothing, Goto, Read, kept
<1>1. pc \in [Workers -> WorkerLabels] /\ result \in [Workers -> DataResult]
  BY DEF Types, TypeOK
<1>2. CASE TryAgain(w)
  BY <1>2 DEF TryAgain, Types, TypeOK, ScanRecord
<1>3. CASE CountSource(w) \/ CountTarget(w)
  <2>1. PICK n : \/ result' = [result EXCEPT ![w].srcCount = n]
                 \/ result' = [result EXCEPT ![w].tgtCount = n]
    BY <1>3 DEF CountSource, CountTarget
  <2>2. /\ result'[w].missing = result[w].missing
        /\ result'[w].different = result[w].different
    BY <1>1, <2>1 DEF DataResult
  <2> QED BY <1>1, <1>3, <2>2 DEF CountSource, CountTarget
<1>4. CASE OpenForwardFails(w)
  <2>1. /\ result'[w].missing = result[w].missing
        /\ result'[w].different = result[w].different
    BY <1>1, <1>4 DEF OpenForwardFails, DataResult
  <2> QED BY <1>1, <1>4, <2>1 DEF OpenForwardFails, EndForward
<1>5. CASE OpenForward(w) \/ EndOfForward(w)
  BY <1>1, <1>5 DEF OpenForward, EndOfForward, EndForward
<1>6. CASE SkipForward(w) \/ SkipReverse(w)
  <2>1. task' = task /\ pc' = pc /\ result' = result /\ pc[w] \in {"next", "nextRev"}
    BY <1>6 DEF SkipForward, SkipReverse, At
  <2> QED BY <2>1
<1>7. CASE Save(w) \/ SaveFile(w) \/ UpdateProgress(w)
  <2>1. task' = task /\ result' = result
    BY <1>7 DEF Save, SaveFile, UpdateProgress
  <2>2. pc'[w] # "find"
    BY <1>1, <1>7 DEF Save, SaveCheckpoint, SaveFile, FileOps, TruncateFile,
       OpenFileFails, WriteFile, WriteFileFails, UpdateProgress
  <2> QED BY <2>1, <2>2
<1>8. CASE OpenReverse(w) \/ OpenReverseFails(w) \/ NextReverse(w) \/ EndOfReverse(w)
  <2>1. task' = task /\ result' = result
    BY <1>8 DEF OpenReverse, OpenReverseFails, NextReverse, EndOfReverse
  <2>2. pc'[w] # "find"
    BY <1>1, <1>8 DEF OpenReverse, OpenReverseFails, NextReverse, EndOfReverse
  <2> QED BY <2>1, <2>2
<1>9. CASE LookupSource(w)
  <2>1. \/ result' = result
        \/ result' = [result EXCEPT ![w] = WithExtra(@, scan[w].id)]
    BY <1>9 DEF LookupSource
  <2>2. /\ result'[w].missing = result[w].missing
        /\ result'[w].different = result[w].different
    BY <1>1, <2>1 DEF WithExtra, DataResult
  <2> QED BY <1>1, <1>9, <2>2 DEF LookupSource
<1> QED BY <1>2, <1>3, <1>4, <1>5, <1>6, <1>7, <1>8, <1>9 DEF WorkerStep

LEMMA OwnLookupSound ==
  ASSUME Types, Covered, NEW w \in Workers, WorkerStep(w) PROVE LookupSound(w)'
<1> DEFINE n == task[w]
           id == scan[w].id
<1>1. UNCHANGED <<src, tgt, touched>> /\ LookupSound(w)
  BY WorkerMovesOnly DEF OnlyMoves, Covered
<1>2. CASE Exit(w) \/ Publish(w)
  <2>1. task'[w] = NoTask
    BY <1>2 DEF Exit, Publish, kept, At, Types, TypeOK, InHand
  <2> QED BY <2>1 DEF LookupSound
<1>3. CASE Take(w)
  <2>1. PICK m \in taskCh : task' = [task EXCEPT ![w] = m]
    BY <1>3 DEF Take
  <2>2. task'[w] = m /\ pc'[w] = "countSrc" /\ examined'[m] = {}
    BY <1>3, <2>1 DEF Take, Goto, history, Covered, Types, TypeOK
  <2> QED BY <2>2 DEF LookupSound, Delivered, InSyncSoFar
<1>4. CASE NextForward(w)
  <2>1. PICK x \in IDs : scan' = [scan EXCEPT
            ![w].range = After(w, x, ~opts.sampled),
            ![w].id = x,
            ![w].version = src[task[w]][x],
            ![w].tries = 0]
    BY <1>4 DEF NextForward
  <2> DEFINE range == After(w, x, ~opts.sampled)
             version == src[task[w]][x]
  <2>2. scan' = [scan EXCEPT ![w] = [scan[w] EXCEPT !.range = range, !.id = x,
                                       !.version = version, !.tries = 0]]
    BY <2>1
  <2> HIDE DEF range
  <2>3. scan'[w].id = x /\ scan'[w].version = version
    <3> HIDE DEF version
    <3> QED BY <2>2 DEF Types, TypeOK, ScanRecord
  <2>4. task' = task /\ result' = result /\ examined' = examined
    BY <1>4 DEF NextForward, Read, kept, history
  <2> QED BY <1>1, <2>3, <2>4
          DEF LookupSound, Delivered, InSyncSoFar, FoundNothing, InSync
<1>5. ASSUME Compare(w) \/ Missing(w)
      PROVE  /\ pc'[w] # "find" /\ task' = task /\ n \in NS
             /\ pc[w] = "find"
             /\ examined'[n] = examined[n] \cup {id}
             /\ result[w] \in DataResult
  BY <1>5 DEF Compare, Missing, Processed, At, Goto, Read, kept, Types, TypeOK, InHand
<1>6. CASE Missing(w)
  <2>1. result'[w] = WithMissing(result[w], id)
    BY <1>6 DEF Missing, Processed, Types, TypeOK
  <2>2. result'[w].missing = result[w].missing + 1 /\ result[w].missing \in Nat
    BY <1>5, <1>6, <2>1 DEF WithMissing, DataResult
  <2>3. ~FoundNothing(w)'
    BY <2>2 DEF FoundNothing
  <2> QED BY <1>5, <1>6, <2>3 DEF LookupSound, Delivered, InSyncSoFar
<1>7. CASE Compare(w) /\ tgt[n][id] # scan[w].version
  <2>1. result'[w] = WithDifferent(result[w], id)
    BY <1>7 DEF Compare, Processed, Types, TypeOK
  <2>2. result'[w].different = result[w].different + 1 /\ result[w].different \in Nat
    BY <1>5, <1>7, <2>1 DEF WithDifferent, DataResult
  <2>3. ~FoundNothing(w)'
    BY <2>2 DEF FoundNothing
  <2> QED BY <1>5, <1>7, <2>3 DEF LookupSound, Delivered, InSyncSoFar
<1>8. CASE Compare(w) /\ tgt[n][id] = scan[w].version
  <2>1. result'[w] = result[w]
    BY <1>8 DEF Compare, Processed, Types, TypeOK
  <2>2. n # NoTask
    BY <1>5, <1>8, VerifierAssumption DEF NoTask
  <2>3. id \notin touched[n] => InSync(n, id)
    BY <1>1, <1>5, <1>8, <2>2 DEF LookupSound, Delivered, InSync
  <2>4. FoundNothing(w) => \A x \in (examined[n] \cup {id}) \ touched[n] : InSync(n, x)
    BY <1>1, <2>2, <2>3 DEF LookupSound, InSyncSoFar
  <2> QED BY <1>1, <1>5, <1>8, <2>1, <2>4
          DEF LookupSound, Delivered, InSyncSoFar, FoundNothing, InSync
<1>9. CASE ~(Take(w) \/ Exit(w) \/ Publish(w) \/ NextForward(w) \/ Compare(w) \/ Missing(w))
  <2>1. examined' = examined
    BY <1>9, WorkerExamines
  <2> QED BY <1>1, <1>9, <2>1, QuietStep
          DEF LookupSound, Delivered, InSyncSoFar, InSync
<1> QED BY <1>2, <1>3, <1>4, <1>6, <1>7, <1>8, <1>9

LEMMA WorkerCovered ==
  ASSUME Types, Placed, Covered, NEW w \in Workers, WorkerStep(w) PROVE Covered'
<1>1. /\ UNCHANGED <<src, tgt, touched, opts>>
      /\ \A v \in Workers \ {w} : /\ pc'[v] = pc[v] /\ task'[v] = task[v]
                                  /\ scan'[v] = scan[v] /\ result'[v] = result[v]
  BY WorkerMovesOnly DEF OnlyMoves
<1>2. \A n \in NS \ {task[w]} : examined'[n] = examined[n]
  BY WorkerExamines
<1>3. ASSUME NEW v \in Workers \ {w} PROVE LookupSound(v)'
  <2>1. task[v] # NoTask => task[v] \in NS \ {task[w]}
    BY DEF Types, TypeOK, Placed
  <2>2. LookupSound(v)
    BY DEF Covered
  <2> QED BY <1>1, <1>2, <2>1, <2>2
          DEF LookupSound, Delivered, InSyncSoFar, FoundNothing, InSync
<1>4. ASSUME NEW n \in taskCh' PROVE examined'[n] = {}
  <2>1. n \in taskCh /\ n \in NS
    BY WorkIsOwn, <1>4 DEF OwnWork, Take, Exit, kept, Publish, UpdateProgress, Types, TypeOK
  <2>2. n # task[w]
    BY <2>1 DEF Placed
  <2> QED BY <1>2, <2>1, <2>2 DEF Covered
<1>5. ASSUME NEW n \in published', ~opts.dryRun, rpt'[n].passed,
             NEW id \in examined'[n] \ touched[n]
      PROVE  InSync(n, id)
  <2>1. CASE n \in published
    <3>1. rpt'[n] = rpt[n] /\ n \in NS \ {task[w]}
      BY <2>1, WorkIsOwn DEF OwnWork, Take, Exit, kept, Publish, UpdateProgress, Placed,
         Types, TypeOK
    <3> QED BY <1>2, <1>5, <2>1, <3>1 DEF Covered, PassCoversExamined
  <2>2. CASE n \notin published
    <3>1. Publish(w) /\ n = task[w]
      BY <1>5, <2>2, WorkIsOwn DEF OwnWork, Take, Exit, kept, Publish, UpdateProgress
    <3>2. n \in NS /\ n # NoTask /\ examined' = examined
      BY <3>1, VerifierAssumption DEF Publish, history, At, Types, TypeOK, InHand, NoTask
    <3>3. rpt'[n].passed = (opts.dryRun \/ Passes(result[w]))
      <4>1. result[w] \in DataResult
        BY DEF Types, TypeOK
      <4>2. rpt'[n] = [result[w] EXCEPT !.passed = opts.dryRun \/ Passes(result[w])]
        BY <3>1, <3>2 DEF Publish, Types, TypeOK
      <4> QED BY <4>1, <4>2 DEF DataResult
    <3>4. opts.dryRun \/ Passes(result[w])
      BY <1>5, <3>3, Zenon
    <3>5. FoundNothing(w)
      BY <1>5, <3>4 DEF Passes, FoundNothing
    <3> QED BY <1>5, <3>1, <3>2, <3>5 DEF Covered, LookupSound, InSyncSoFar
  <2> QED BY <2>1, <2>2
<1>6. PassCoversExamined'
  BY <1>1, <1>5 DEF PassCoversExamined, InSync
<1> QED BY <1>3, <1>4, <1>6, OwnLookupSound DEF Covered

LEMMA ClusterCovered ==
  ASSUME Types, Covered, NEW n \in NS, NEW id \in IDs,
         \/ \E v \in Versions \cup {NoDoc} : SourceWrite(n, id, v)
         \/ Replicate(n, id)
  PROVE  Covered'
<1>1. /\ touched' = [touched EXCEPT ![n] = @ \cup {id}]
      /\ UNCHANGED <<opts, task, scan, result, pc, rpt, published, taskCh, examined>>
  BY DEF SourceWrite, Replicate, Writes, allCpVars, callVars, history
<1>2. /\ src \in [NS -> [IDs -> Versions \cup {NoDoc}]]
      /\ tgt \in [NS -> [IDs -> Versions \cup {NoDoc}]]
      /\ touched \in [NS -> SUBSET IDs] /\ examined \in [NS -> SUBSET IDs]
  BY DEF Types, TypeOK, Collections
<1>3. \A m \in NS : \A x \in IDs \ touched'[m] :
          src'[m][x] = src[m][x] /\ tgt'[m][x] = tgt[m][x] /\ x \notin touched[m]
  <2>1. CASE \E v \in Versions \cup {NoDoc} : SourceWrite(n, id, v)
    BY <1>1, <1>2, <2>1 DEF SourceWrite
  <2>2. CASE Replicate(n, id)
    BY <1>1, <1>2, <2>2 DEF Replicate
  <2> QED BY <2>1, <2>2
<1>4. PassCoversExamined'
  <2> SUFFICES ASSUME NEW m \in published, ~opts.dryRun, rpt[m].passed,
                      NEW x \in examined[m] \ touched'[m]
               PROVE  InSync(m, x)'
    BY <1>1 DEF PassCoversExamined
  <2>1. m \in NS /\ x \in IDs \ touched'[m]
    BY <1>2 DEF Types, TypeOK
  <2>2. x \notin touched[m] /\ src'[m][x] = src[m][x] /\ tgt'[m][x] = tgt[m][x]
    BY <1>3, <2>1
  <2> QED BY <2>2 DEF Covered, PassCoversExamined, InSync
<1>5. ASSUME NEW w \in Workers, task[w] # NoTask PROVE Delivered(w)' /\ InSyncSoFar(w)'
  <2>1. task[w] \in NS /\ Delivered(w) /\ InSyncSoFar(w)
    BY <1>5 DEF Types, TypeOK, Covered, LookupSound
  <2>2. Delivered(w)'
    BY <1>1, <1>3, <2>1 DEF Delivered, Types, InHand
  <2>3. ASSUME NEW x \in examined[task[w]] \ touched'[task[w]], FoundNothing(w)
        PROVE  InSync(task[w], x)'
    <3>1. x \in IDs \ touched'[task[w]]
      BY <1>2, <2>1
    <3>2. /\ x \notin touched[task[w]] /\ task'[w] = task[w]
          /\ src'[task[w]][x] = src[task[w]][x] /\ tgt'[task[w]][x] = tgt[task[w]][x]
      BY <1>1, <1>3, <2>1, <3>1
    <3>3. InSync(task[w], x)
      BY <2>1, <2>3, <3>2 DEF InSyncSoFar
    <3> QED BY <3>2, <3>3 DEF InSync
  <2>4. FoundNothing(w)' => FoundNothing(w)
    BY <1>1 DEF FoundNothing
  <2>5. InSyncSoFar(w)'
    BY <1>1, <2>3, <2>4 DEF InSyncSoFar, InSync
  <2> QED BY <2>2, <2>5
<1> QED BY <1>1, <1>4, <1>5 DEF Covered, LookupSound

LEMMA FreshCovered == ASSUME FreshCall PROVE Covered'
  BY DEF FreshCall, Covered, PassCoversExamined, LookupSound

LEMMA NextCovered == Types /\ Placed /\ Gone /\ Covered /\ [Next]_vars => Covered'
<1> SUFFICES ASSUME Types, Placed, Gone, Covered, [Next]_vars PROVE Covered'
  OBVIOUS
<1>1. ASSUME NEW w \in Workers, SaveCheckpointPanics(w) \/ BarUpdatePanics(w)
      PROVE  Covered'
  BY <1>1, FreshCovered DEF SaveCheckpointPanics, BarUpdatePanics, ProcessEnds
<1>2. CASE Crash \/ NextCall
  BY <1>2, FreshCovered DEF Crash, NextCall, ProcessEnds
<1>3. CASE Restart
  BY <1>3 DEF Restart, Boot, Gone, Covered, PassCoversExamined, LookupSound, history
<1>4. CASE Return \/ UNCHANGED vars
  BY <1>4 DEF Return, vars, allCpVars, dbVars, callVars, history, Covered,
     PassCoversExamined, LookupSound, Delivered, InSyncSoFar, FoundNothing, InSync
<1> QED BY <1>1, <1>2, <1>3, <1>4, WorkerCovered, ClusterCovered DEF Next, Stopped

(* A pass of any scan - sampled, resumed, cut short by a cursor or a       *)
(* lookup that fails - vouches for every document that it looked up and    *)
(* nobody changed, for any number of workers, namespaces and documents.    *)
THEOREM PassCovers == Spec => []PassCoversExamined
<1>1. Covered => PassCoversExamined
  BY DEF Covered
<1>2. Init => Gone /\ Covered
  BY DEF Init, Gone, Covered, PassCoversExamined, LookupSound
<1> QED BY InitTypes, NextTypes, InitPlaced, NextPlaced, NextGone, NextCovered,
           <1>1, <1>2,
           PTL DEF Spec

-----------------------------------------------------------------------------
(* No false alarm.  While a namespace is the same on both sides, nobody    *)
(* has touched it and no read of it was given up, a scan has counted both  *)
(* sides right and found nothing, and what it looks up is there.           *)
Quiet(n) ==
    touched[n] = {} /\ (\A id \in IDs : InSync(n, id)) /\ "gaveUp" \notin caveat[n]

FindsNothing(w) == result[w].missing = 0 /\ result[w].different = 0 /\ result[w].extra = 0

CountsRight(w) ==
    /\ pc[w] # "countSrc" => result[w].srcCount = Cardinality(Present(src, task[w]))
    /\ pc[w] \notin {"countSrc", "countTgt"} =>
           result[w].tgtCount = Cardinality(Present(tgt, task[w]))

LooksUpPresent(w) ==
    /\ pc[w] = "find" => src[task[w]][scan[w].id] # NoDoc
    /\ pc[w] = "findRev" => tgt[task[w]][scan[w].id] # NoDoc

Honest(w) ==
    task[w] # NoTask /\ Quiet(task[w]) => FindsNothing(w) /\ CountsRight(w) /\ LooksUpPresent(w)

Alarms == NoFalseAlarm /\ \A w \in Workers : Honest(w)

(* What a scan ran into is not forgotten while it goes on.                 *)
LEMMA CaveatGrows ==
  ASSUME Types, NEW w \in Workers, WorkerStep(w)
  PROVE  \A n \in NS : caveat[n] \subseteq caveat'[n]
<1> USE DEF Types, TypeOK, Note, Succeeds, Fails
<1>1. CASE Take(w) \/ Exit(w) \/ TryAgain(w)
  <2>1. caveat' = caveat
    BY <1>1 DEF Take, Exit, TryAgain
  <2> QED BY <2>1
<1>2. CASE CountSource(w) \/ CountTarget(w)
  <2>1. Succeeds \/ Fails(w, "gaveUp")
    BY <1>2 DEF CountSource, CountTarget, CountWithRetry
  <2> QED BY <2>1
<1>3. CASE OpenForward(w) \/ OpenForwardFails(w) \/ NextForward(w) \/ SkipForward(w)
  <2>1. caveat' = caveat \/ Note(w, "partial") \/ Note(w, "lost")
    BY <1>3 DEF OpenForward, OpenForwardFails, NextForward, SkipForward
  <2> QED BY <2>1
<1>4. CASE EndOfForward(w) \/ Compare(w) \/ Missing(w)
  BY <1>4 DEF EndOfForward, CursorEnds, Compare, Missing
<1>5. CASE Save(w) \/ SaveFile(w) \/ UpdateProgress(w) \/ OpenReverse(w) \/ NextReverse(w)
           \/ Publish(w)
  <2>1. caveat' = caveat
    BY <1>5 DEF Save, SaveFile, UpdateProgress, OpenReverse, NextReverse, Publish
  <2> QED BY <2>1
<1>6. CASE OpenReverseFails(w) \/ SkipReverse(w) \/ EndOfReverse(w) \/ LookupSource(w)
  <2>1. Succeeds \/ Fails(w, "lost") \/ Fails(w, "gaveUp")
    BY <1>6 DEF OpenReverseFails, SkipReverse, EndOfReverse, CursorEnds, LookupSource
  <2> QED BY <2>1
<1> QED BY <1>1, <1>2, <1>3, <1>4, <1>5, <1>6 DEF WorkerStep

LEMMA QuietBefore ==
  ASSUME Types, NEW w \in Workers, WorkerStep(w), NEW n \in NS, Quiet(n)'
  PROVE  Quiet(n)
  BY WorkerMovesOnly, CaveatGrows DEF OnlyMoves, Quiet, InSync

(* In sync, the two sides have the same documents.                         *)
LEMMA QuietCounts ==
  ASSUME Types, NEW n \in NS, Quiet(n)
  PROVE  Present(src, n) = Present(tgt, n)
  BY DEF Quiet, InSync, Present

LEMMA GivenUp ==
  ASSUME Types, NEW w \in Workers, Fails(w, "gaveUp"), NEW n \in NS, n = task[w]
  PROVE  ~Quiet(n)'
<1>1. "gaveUp" \in caveat'[n]
  BY DEF Fails, Note, Types, TypeOK
<1> QED BY <1>1 DEF Quiet

-----------------------------------------------------------------------------
(* A worker's own scan, action by action.                                  *)
LEMMA CountHonest ==
  ASSUME Types, NEW w \in Workers, CountSource(w) \/ CountTarget(w), Honest(w)
  PROVE  Honest(w)'
<1>1. PICK n \in NS : task[w] = n
  BY DEF CountSource, CountTarget, At, Types, TypeOK, InHand
<1>2. n # NoTask /\ UNCHANGED <<src, tgt, touched, opts, task>>
  BY <1>1, VerifierAssumption
     DEF CountSource, CountTarget, Read, kept, dbVars, callVars, NoTask
<1>3. SUFFICES ASSUME Quiet(n)'
               PROVE  FindsNothing(w)' /\ CountsRight(w)' /\ LooksUpPresent(w)'
  BY <1>1, <1>2 DEF Honest
<1>4. Quiet(n) /\ FindsNothing(w) /\ CountsRight(w) /\ ~Fails(w, "gaveUp")
  BY <1>1, <1>2, <1>3, QuietBefore, GivenUp DEF Honest, WorkerStep
<1>5. result \in [Workers -> DataResult] /\ pc \in [Workers -> WorkerLabels]
  BY DEF Types, TypeOK
<1>6. CASE CountSource(w)
  <2>1. result' = [result EXCEPT ![w].srcCount = Cardinality(Present(src, n))]
    BY <1>1, <1>4, <1>6 DEF CountSource, CountWithRetry
  <2>2. result'[w] = [result[w] EXCEPT !.srcCount = Cardinality(Present(src, n))]
    BY <1>5, <2>1
  <2>3. /\ result'[w].srcCount = Cardinality(Present(src, n))
        /\ result'[w].missing = result[w].missing
        /\ result'[w].different = result[w].different
        /\ result'[w].extra = result[w].extra
    BY <1>5, <2>2 DEF DataResult
  <2>4. pc'[w] = "countTgt"
    BY <1>5, <1>6 DEF CountSource, Goto
  <2> QED BY <1>1, <1>2, <1>4, <2>3, <2>4
          DEF FindsNothing, CountsRight, LooksUpPresent, Present
<1>7. CASE CountTarget(w)
  <2>1. result' = [result EXCEPT ![w].tgtCount = Cardinality(Present(tgt, n))]
    BY <1>1, <1>4, <1>7 DEF CountTarget, CountWithRetry
  <2>2. result'[w] = [result[w] EXCEPT !.tgtCount = Cardinality(Present(tgt, n))]
    BY <1>5, <2>1
  <2>3. /\ result'[w].tgtCount = Cardinality(Present(tgt, n))
        /\ result'[w].srcCount = result[w].srcCount
        /\ result'[w].missing = result[w].missing
        /\ result'[w].different = result[w].different
        /\ result'[w].extra = result[w].extra
    BY <1>5, <2>2 DEF DataResult
  <2>4. pc[w] = "countTgt" /\ pc'[w] \in {"publish", "open"}
    BY <1>5, <1>7 DEF CountTarget, Goto, At
  <2> QED BY <1>1, <1>2, <1>4, <2>3, <2>4
          DEF FindsNothing, CountsRight, LooksUpPresent, Present
<1> QED BY <1>6, <1>7

(* A step that keeps the counts and findings, beyond the counting, and     *)
(* leaves a lookup only where it is.                                       *)
LEMMA KeptHonest ==
  ASSUME Types, NEW w \in Workers, WorkerStep(w), Honest(w),
         UNCHANGED <<src, tgt, task>>,
         \A f \in {"missing", "different", "extra", "srcCount", "tgtCount"} :
             result'[w][f] = result[w][f],
         pc'[w] = pc[w] \/ pc[w] \notin {"countSrc", "countTgt"},
         pc'[w] \in {"find", "findRev"} => pc'[w] = pc[w] /\ scan'[w].id = scan[w].id
  PROVE  Honest(w)'
<1> SUFFICES ASSUME task[w] # NoTask, Quiet(task[w])'
             PROVE  FindsNothing(w)' /\ CountsRight(w)' /\ LooksUpPresent(w)'
  BY DEF Honest
<1>1. PICK n \in NS : task[w] = n
  BY DEF Types, TypeOK
<1>2. task'[w] = n
  BY <1>1
<1>3. Quiet(n)
  BY <1>1, <1>2, QuietBefore
<1>4. FindsNothing(w) /\ CountsRight(w) /\ LooksUpPresent(w)
  BY <1>1, <1>3 DEF Honest
<1> QED BY <1>4 DEF FindsNothing, CountsRight, LooksUpPresent, Present

LEMMA PassingHonest ==
  ASSUME Types, NEW w \in Workers, Honest(w),
         \/ TryAgain(w) \/ OpenForward(w) \/ OpenForwardFails(w) \/ SkipForward(w)
         \/ EndOfForward(w) \/ Save(w) \/ SaveFile(w) \/ UpdateProgress(w) \/ OpenReverse(w)
         \/ OpenReverseFails(w) \/ SkipReverse(w) \/ EndOfReverse(w)
  PROVE  Honest(w)'
<1>1. pc \in [Workers -> WorkerLabels] /\ result \in [Workers -> DataResult]
      /\ scan \in [Workers -> ScanRecord]
  BY DEF Types, TypeOK
<1>2. UNCHANGED <<src, tgt, task>>
  BY DEF TryAgain, OpenForward, OpenForwardFails, SkipForward, EndOfForward, Save, SaveFile,
         UpdateProgress, OpenReverse, OpenReverseFails, SkipReverse, EndOfReverse,
         Read, kept, dbVars
<1>3. \A f \in {"missing", "different", "extra", "srcCount", "tgtCount"} :
          result'[w][f] = result[w][f]
  <2>1. CASE OpenForwardFails(w)
    <3>1. result'[w] = [result[w] EXCEPT !.errors = @ + 1]
      BY <1>1, <2>1 DEF OpenForwardFails
    <3> QED BY <1>1, <3>1 DEF DataResult
  <2>2. CASE ~OpenForwardFails(w)
    <3>1. result' = result
      BY <2>2 DEF TryAgain, OpenForward, SkipForward, EndOfForward, Save, SaveFile,
         UpdateProgress, OpenReverse, OpenReverseFails, SkipReverse, EndOfReverse
    <3> QED BY <3>1
  <2> QED BY <2>1, <2>2
<1>4. /\ pc'[w] = pc[w] \/ pc[w] \notin {"countSrc", "countTgt"}
      /\ pc'[w] \in {"find", "findRev"} => pc'[w] = pc[w] /\ scan'[w].id = scan[w].id
  <2>1. CASE TryAgain(w)
    BY <1>1, <2>1 DEF TryAgain, ScanRecord
  <2>2. CASE OpenForward(w) \/ OpenForwardFails(w) \/ EndOfForward(w)
    BY <1>1, <2>2 DEF OpenForward, OpenForwardFails, EndOfForward, EndForward, At, Goto
  <2>3. CASE SkipForward(w) \/ SkipReverse(w)
    <3>1. pc' = pc /\ pc[w] \in {"next", "nextRev"}
      BY <2>3 DEF SkipForward, SkipReverse, At
    <3> QED BY <3>1
  <2>4. CASE Save(w) \/ SaveFile(w) \/ UpdateProgress(w)
    <3>1. /\ pc[w] \in {"save", "truncate", "write", "report"}
          /\ pc'[w] \in {"truncate", "write", "report", "next"}
      BY <1>1, <2>4 DEF Save, SaveCheckpoint, SaveFile, FileOps, TruncateFile, OpenFileFails,
         WriteFile, WriteFileFails, UpdateProgress, At, Goto
    <3> QED BY <3>1
  <2>5. CASE OpenReverse(w) \/ OpenReverseFails(w) \/ EndOfReverse(w)
    BY <1>1, <2>5 DEF OpenReverse, OpenReverseFails, EndOfReverse, At, Goto
  <2> QED BY <2>1, <2>2, <2>3, <2>4, <2>5
<1> QED BY <1>2, <1>3, <1>4, KeptHonest DEF WorkerStep

LEMMA DeliveryHonest ==
  ASSUME Types, NEW w \in Workers, NextForward(w) \/ NextReverse(w), Honest(w)
  PROVE  Honest(w)'
<1>1. PICK n \in NS : task[w] = n
  BY DEF NextForward, NextReverse, At, Types, TypeOK, InHand
<1>2. n # NoTask /\ UNCHANGED <<src, tgt, task, result>>
  BY <1>1, VerifierAssumption DEF NextForward, NextReverse, Read, kept, dbVars, NoTask
<1>3. SUFFICES ASSUME Quiet(n)'
               PROVE  FindsNothing(w)' /\ CountsRight(w)' /\ LooksUpPresent(w)'
  BY <1>1, <1>2 DEF Honest
<1>4. FindsNothing(w) /\ CountsRight(w)
  BY <1>1, <1>2, <1>3, QuietBefore DEF Honest, WorkerStep
<1>5. pc[w] \in {"next", "nextRev"} /\ pc'[w] \in {"find", "findRev"}
  BY DEF NextForward, NextReverse, At, Goto, Types, TypeOK
<1>6. FindsNothing(w)' /\ CountsRight(w)'
  BY <1>2, <1>4, <1>5 DEF FindsNothing, CountsRight, Present
<1>7. LooksUpPresent(w)'
  <2>1. CASE NextForward(w)
    <3>1. PICK id \in IDs :
              /\ IsNext(w, src, id, ~opts.sampled)
              /\ scan' = [scan EXCEPT
                    ![w].range = After(w, id, ~opts.sampled),
                    ![w].id = id,
                    ![w].version = src[task[w]][id],
                    ![w].tries = 0]
      BY <2>1 DEF NextForward
    <3> DEFINE range == After(w, id, ~opts.sampled)
               version == src[task[w]][id]
    <3>2. scan' = [scan EXCEPT ![w] = [scan[w] EXCEPT !.range = range, !.id = id,
                                         !.version = version, !.tries = 0]]
      BY <3>1
    <3> HIDE DEF range, version
    <3>3. scan'[w].id = id
      BY <3>2 DEF Types, TypeOK, ScanRecord
    <3>4. src[n][id] # NoDoc
      BY <1>1, <3>1 DEF IsNext, Deliverable, Present
    <3>5. pc'[w] = "find"
      BY <2>1 DEF NextForward, Goto, Types, TypeOK
    <3> QED BY <1>1, <1>2, <3>3, <3>4, <3>5 DEF LooksUpPresent
  <2>2. CASE NextReverse(w)
    <3>1. PICK id \in IDs :
              /\ IsNext(w, tgt, id, TRUE)
              /\ scan' = [scan EXCEPT ![w].range = After(w, id, TRUE), ![w].id = id]
      BY <2>2 DEF NextReverse
    <3> DEFINE range == After(w, id, TRUE)
    <3>2. scan' = [scan EXCEPT ![w] = [scan[w] EXCEPT !.range = range, !.id = id]]
      BY <3>1
    <3> HIDE DEF range
    <3>3. scan'[w].id = id
      BY <3>2 DEF Types, TypeOK, ScanRecord
    <3>4. tgt[n][id] # NoDoc
      BY <1>1, <3>1 DEF IsNext, Deliverable, Present
    <3>5. pc'[w] = "findRev"
      BY <2>2 DEF NextReverse, Goto, Types, TypeOK
    <3> QED BY <1>1, <1>2, <3>3, <3>4, <3>5 DEF LooksUpPresent
  <2> QED BY <2>1, <2>2
<1> QED BY <1>6, <1>7

LEMMA LookupHonest ==
  ASSUME Types, Covered, NEW w \in Workers, Compare(w) \/ Missing(w) \/ LookupSource(w),
         Honest(w)
  PROVE  Honest(w)'
<1>1. PICK n \in NS : task[w] = n
  BY DEF Compare, Missing, LookupSource, At, Types, TypeOK, InHand
<1>2. n # NoTask /\ UNCHANGED <<src, tgt, task>>
  BY <1>1, VerifierAssumption DEF Compare, Missing, LookupSource, Read, kept, dbVars, NoTask
<1>3. SUFFICES ASSUME Quiet(n)'
               PROVE  FindsNothing(w)' /\ CountsRight(w)' /\ LooksUpPresent(w)'
  BY <1>1, <1>2 DEF Honest
<1>4. Quiet(n) /\ FindsNothing(w) /\ CountsRight(w) /\ LooksUpPresent(w) /\ ~Fails(w, "gaveUp")
  BY <1>1, <1>2, <1>3, QuietBefore, GivenUp DEF Honest, WorkerStep
<1>5. /\ pc[w] \in {"find", "findRev"} /\ scan[w].id \in IDs
      /\ pc'[w] \in {"save", "next", "nextRev"}
  BY DEF Compare, Missing, LookupSource, Processed, At, Goto, Types, TypeOK, InHand
<1>6. InSync(n, scan[w].id) /\ touched[n] = {}
  BY <1>4, <1>5 DEF Quiet
<1>7. result'[w] = result[w]
  <2>0. result \in [Workers -> DataResult]
    BY DEF Types, TypeOK
  <2>1. CASE Compare(w)
    <3>1. pc[w] = "find" /\ src[n][scan[w].id] = scan[w].version
      BY <1>1, <1>2, <1>6, <2>1 DEF Compare, At, Covered, LookupSound, Delivered
    <3>2. tgt[n][scan[w].id] = scan[w].version
      BY <1>6, <3>1 DEF InSync
    <3> QED BY <1>1, <2>0, <2>1, <3>2 DEF Compare, Processed
  <2>2. CASE Missing(w)
    <3>1. src[n][scan[w].id] # NoDoc
      BY <1>1, <1>4, <2>2 DEF Missing, At, LooksUpPresent
    <3>2. tgt[n][scan[w].id] = NoDoc
      BY <1>1, <1>4, <2>2 DEF Missing
    <3> QED BY <1>6, <3>1, <3>2 DEF InSync
  <2>3. CASE LookupSource(w)
    <3>1. tgt[n][scan[w].id] # NoDoc
      BY <1>1, <1>4, <2>3 DEF LookupSource, At, LooksUpPresent
    <3>2. src[n][scan[w].id] # NoDoc
      BY <1>6, <3>1 DEF InSync
    <3>3. result' = result
      BY <1>1, <1>4, <2>3, <3>2 DEF LookupSource
    <3> QED BY <3>3
  <2> QED BY <2>1, <2>2, <2>3
<1> QED BY <1>2, <1>4, <1>5, <1>7 DEF FindsNothing, CountsRight, LooksUpPresent, Present

LEMMA OwnHonest ==
  ASSUME Types, Covered, NEW w \in Workers, WorkerStep(w), Honest(w)
  PROVE  Honest(w)'
<1>1. CASE Exit(w) \/ Publish(w)
  <2>1. task'[w] = NoTask
    BY <1>1 DEF Exit, Publish, kept, At, Types, TypeOK, InHand
  <2> QED BY <2>1 DEF Honest
<1>2. CASE Take(w)
  <2>1. result'[w] = NewResult /\ pc'[w] = "countSrc"
    BY <1>2 DEF Take, Goto, Types, TypeOK
  <2> QED BY <2>1 DEF Honest, FindsNothing, CountsRight, LooksUpPresent, NewResult
<1> QED BY <1>1, <1>2, CountHonest, PassingHonest, DeliveryHonest, LookupHonest DEF WorkerStep

LEMMA PublishAlarm ==
  ASSUME Types, Placed, NEW w \in Workers, Publish(w), Alarms PROVE NoFalseAlarm'
<1>0. PICK n \in NS : task[w] = n
  BY DEF Publish, At, Types, TypeOK, InHand
<1>1. /\ pc[w] = "publish" /\ n # NoTask /\ published' = published \cup {n}
      /\ n \notin published
      /\ UNCHANGED <<src, tgt, touched, opts, caveat>>
  BY <1>0, VerifierAssumption
  DEF Publish, At, dbVars, callVars, Types, TypeOK, InHand, Placed, NoTask
<1>2. \A m \in published : rpt'[m] = rpt[m]
  BY <1>0, <1>1 DEF Publish, Types, TypeOK
<1>3. rpt'[n].passed = (opts.dryRun \/ Passes(result[w]))
  <2>1. result[w] \in DataResult
    BY DEF Types, TypeOK
  <2>2. rpt'[n] = [result[w] EXCEPT !.passed = opts.dryRun \/ Passes(result[w])]
    BY <1>0, <1>1 DEF Publish, Types, TypeOK
  <2> QED BY <2>1, <2>2 DEF DataResult
<1>4. ASSUME Quiet(n) PROVE rpt'[n].passed
  <2>1. FindsNothing(w) /\ CountsRight(w)
    BY <1>0, <1>1, <1>4 DEF Alarms, Honest
  <2>2. result[w].srcCount = result[w].tgtCount
    BY <1>0, <1>1, <1>4, <2>1, QuietCounts DEF CountsRight
  <2>3. Passes(result[w])
    BY <2>1, <2>2 DEF Passes, CountMatch, FindsNothing
  <2> QED BY <1>3, <2>3, Zenon
<1> QED BY <1>1, <1>2, <1>4 DEF Alarms, NoFalseAlarm, Quiet, InSync

LEMMA WorkerAlarms ==
  ASSUME Types, Placed, Covered, NEW w \in Workers, WorkerStep(w), Alarms PROVE Alarms'
<1>1. Honest(w)'
  BY OwnHonest DEF Alarms
<1>2. OnlyMoves(w)
  BY WorkerMovesOnly
<1>3. ASSUME NEW v \in Workers \ {w} PROVE Honest(v)'
  <2>1. task[v] # NoTask => task[v] \in NS \ {task[w]}
    BY DEF Types, TypeOK, Placed
  <2>2. Honest(v)
    BY DEF Alarms
  <2>3. /\ pc'[v] = pc[v] /\ task'[v] = task[v] /\ scan'[v] = scan[v]
        /\ result'[v] = result[v]
        /\ UNCHANGED <<src, tgt, touched>>
        /\ task[v] # NoTask => caveat'[task[v]] = caveat[task[v]]
    BY <1>2, <2>1 DEF OnlyMoves
  <2> QED BY <2>2, <2>3
          DEF Honest, Quiet, FindsNothing, CountsRight, LooksUpPresent, Present, InSync
<1>4. NoFalseAlarm'
  <2>1. CASE Publish(w)
    BY <2>1, PublishAlarm
  <2>2. CASE OwnWork(w) \/ Take(w) \/ Exit(w) \/ UpdateProgress(w)
    <3>1. published' = published /\ \A n \in published : rpt'[n] = rpt[n]
      BY <2>2 DEF OwnWork, Take, Exit, UpdateProgress, kept, Placed, Types, TypeOK
    <3>2. \A n \in published : caveat'[n] = caveat[n]
      BY <1>2 DEF OnlyMoves, Placed, Types, TypeOK
    <3>3. UNCHANGED <<src, tgt, touched>>
      BY <1>2 DEF OnlyMoves
    <3> QED BY <3>1, <3>2, <3>3 DEF Alarms, NoFalseAlarm, InSync
  <2> QED BY <2>1, <2>2, WorkIsOwn
<1> QED BY <1>1, <1>3, <1>4 DEF Alarms

LEMMA FreshAlarms == ASSUME FreshCall PROVE Alarms'
  BY DEF FreshCall, Alarms, NoFalseAlarm, Honest

LEMMA ClusterAlarms ==
  ASSUME Types, Alarms, NEW n \in NS, NEW id \in IDs,
         \/ \E v \in Versions \cup {NoDoc} : SourceWrite(n, id, v)
         \/ Replicate(n, id)
  PROVE  Alarms'
<1>1. /\ touched' = [touched EXCEPT ![n] = @ \cup {id}]
      /\ UNCHANGED <<opts, task, scan, result, pc, rpt, published, caveat>>
  BY DEF SourceWrite, Replicate, Writes, allCpVars, callVars
<1>2. /\ src \in [NS -> [IDs -> Versions \cup {NoDoc}]]
      /\ tgt \in [NS -> [IDs -> Versions \cup {NoDoc}]]
      /\ touched \in [NS -> SUBSET IDs]
  BY DEF Types, TypeOK, Collections
<1>3. \A m \in NS : touched'[m] = {} =>
          touched[m] = {} /\ src'[m] = src[m] /\ tgt'[m] = tgt[m]
  <2>1. CASE \E v \in Versions \cup {NoDoc} : SourceWrite(n, id, v)
    BY <1>1, <1>2, <2>1 DEF SourceWrite
  <2>2. CASE Replicate(n, id)
    BY <1>1, <1>2, <2>2 DEF Replicate
  <2> QED BY <2>1, <2>2
<1>4. NoFalseAlarm'
  <2>1. published \subseteq NS
    BY DEF Types, TypeOK
  <2> QED BY <1>1, <1>3, <2>1 DEF Alarms, NoFalseAlarm, InSync
<1>5. ASSUME NEW w \in Workers PROVE Honest(w)'
  <2> SUFFICES ASSUME task[w] # NoTask, Quiet(task[w])' PROVE Honest(w)'
    BY <1>1 DEF Honest
  <2>1. PICK m \in NS : task[w] = m
    BY DEF Types, TypeOK
  <2>2. touched'[m] = {} /\ task'[w] = m
    BY <1>1, <2>1 DEF Quiet
  <2>3. /\ touched[m] = {} /\ src'[m] = src[m] /\ tgt'[m] = tgt[m]
    BY <1>3, <2>2
  <2>4. Quiet(m)
    BY <1>1, <2>1, <2>3 DEF Quiet, InSync
  <2>5. FindsNothing(w) /\ CountsRight(w) /\ LooksUpPresent(w)
    BY <2>1, <2>4 DEF Alarms, Honest
  <2> QED BY <1>1, <2>1, <2>3, <2>5
          DEF Honest, FindsNothing, CountsRight, LooksUpPresent, Present
<1> QED BY <1>4, <1>5 DEF Alarms

LEMMA NextAlarms == Types /\ Placed /\ Gone /\ Covered /\ Alarms /\ [Next]_vars => Alarms'
<1> SUFFICES ASSUME Types, Placed, Gone, Covered, Alarms, [Next]_vars PROVE Alarms'
  OBVIOUS
<1>1. ASSUME NEW w \in Workers, SaveCheckpointPanics(w) \/ BarUpdatePanics(w)
      PROVE  Alarms'
  BY <1>1, FreshAlarms DEF SaveCheckpointPanics, BarUpdatePanics, ProcessEnds
<1>2. CASE Crash \/ NextCall
  BY <1>2, FreshAlarms DEF Crash, NextCall, ProcessEnds
<1>3. CASE Restart
  BY <1>3 DEF Restart, Boot, Gone, Alarms, NoFalseAlarm, Honest
<1>4. CASE Return \/ UNCHANGED vars
  <2>1. UNCHANGED <<src, tgt, touched, pc, task, scan, result, rpt, published, caveat>>
    BY <1>4 DEF Return, vars, allCpVars, dbVars, callVars
  <2> QED BY <2>1 DEF Alarms, NoFalseAlarm, Honest, Quiet, FindsNothing, CountsRight,
          LooksUpPresent, Present, InSync
<1> QED BY <1>1, <1>2, <1>3, <1>4, WorkerAlarms, ClusterAlarms DEF Next, Stopped

(* A failure is never invented: a namespace whose two sides are the same,  *)
(* that nobody changed and no read of which was given up, does not fail    *)
(* its verdict, whatever options the call has, wherever it resumed and     *)
(* whatever cursors broke off, for any number of workers and documents.    *)
THEOREM FailureIsGenuine == Spec => []NoFalseAlarm
<1>1. Alarms => NoFalseAlarm
  BY DEF Alarms
<1>2. Init => Gone /\ Covered /\ Alarms
  BY DEF Init, Gone, Covered, PassCoversExamined, LookupSound, Alarms, NoFalseAlarm, Honest
<1> QED BY InitTypes, NextTypes, InitPlaced, NextPlaced, NextGone, NextCovered, NextAlarms,
           <1>1, <1>2,
           PTL DEF Spec

-----------------------------------------------------------------------------
(* Survival.  While nobody kills the process and nobody touches the data,  *)
(* what a scan has processed, has in hand and may still be delivered is    *)
(* within the count taken before it, unless that count failed and is 0, so *)
(* that the bar never passes its width.                                    *)
Calm == crashes = 0 /\ \A n \in NS : touched[n] = {}

ToCome(w) == Cardinality(Deliverable(w, src)) + (IF pc[w] = "find" THEN 1 ELSE 0)

WithinCount(w) ==
    /\ pc[w] \in {"countTgt", "open"} =>
           result[w].srcCount \in {0, Cardinality(Present(src, task[w]))}
    /\ pc[w] \in ForwardLabels =>
           \/ result[w].srcCount = 0
           \/ scan[w].processed + ToCome(w) <= result[w].srcCount

Survives == Calm => proc = "up" /\ cpData # Nil /\ \A w \in Workers : WithinCount(w)

(* A bar that has not passed its total does not pass its width.            *)
LEMMA BarFits ==
  ASSUME NEW p \in Nat, NEW total \in Nat, p <= total
  PROVE  ~BarPanics(p, total)
<1> SUFFICES ASSUME total > 0 PROVE (BarWidth * p) \div total <= BarWidth
  BY VerifierAssumption DEF BarPanics
<1>1. BarWidth \in Nat
  BY VerifierAssumption
<1> DEFINE bp == BarWidth * p
           bt == BarWidth * total
<1>2. bp \in Nat /\ bt \in Nat /\ bp <= bt
  BY <1>1
<1>3. bt \div total = BarWidth
  BY <1>1
<1>4. bp \div total <= bt \div total
  <2> HIDE DEF bp, bt
  <2> QED BY <1>2
<1> QED BY <1>3, <1>4

LEMMA PresentFinite ==
  ASSUME NEW n, NEW S \in SUBSET IDs
  PROVE  /\ IsFiniteSet(S) /\ Cardinality(S) \in Nat
         /\ IsFiniteSet(Present(src, n)) /\ Cardinality(Present(src, n)) \in Nat
<1>1. Present(src, n) \in SUBSET IDs
  BY DEF Present
<1> QED BY <1>1, VerifierAssumption, FS_Subset, FS_CardinalityType

(* The cursor gives up what it delivers and nothing else.                  *)
LEMMA CursorMoves ==
  ASSUME NEW w \in Workers, NEW id \in IDs, NEW sorted \in BOOLEAN,
         IsNext(w, src, id, sorted), scan[w].range \in SUBSET IDs
  PROVE  /\ id \in Deliverable(w, src)
         /\ After(w, id, sorted) \cap Present(src, task[w]) = Deliverable(w, src) \ {id}
<1>1. id \in Deliverable(w, src) /\ (sorted => \A x \in Deliverable(w, src) : id <= x)
  BY DEF IsNext
<1>2. IDs \subseteq Nat
  BY CheckpointAssumption
<1>3. CASE sorted
  <2>1. \A x \in Deliverable(w, src) : x > id <=> x # id
    BY <1>1, <1>2, <1>3 DEF Deliverable
  <2> QED BY <1>1, <1>3, <2>1 DEF After, Deliverable
<1>4. CASE ~sorted
  BY <1>1, <1>4 DEF After, Deliverable
<1> QED BY <1>3, <1>4

LEMMA BarSurvives ==
  ASSUME Types, NEW w \in Workers, WithinCount(w), pc[w] = "find"
  PROVE  ~BarPanics(scan[w].processed + 1, result[w].srcCount)
<1>1. scan[w].processed \in Nat /\ result[w].srcCount \in Nat /\ scan[w].range \in SUBSET IDs
  BY DEF Types, TypeOK, ScanRecord, DataResult
<1>2. Cardinality(Deliverable(w, src)) \in Nat
  BY <1>1, PresentFinite DEF Deliverable
<1>3. result[w].srcCount = 0 \/ scan[w].processed + 1 <= result[w].srcCount
  BY <1>1, <1>2 DEF WithinCount, ToCome, ForwardLabels
<1>4. CASE result[w].srcCount = 0
  BY <1>4 DEF BarPanics
<1> QED BY <1>1, <1>3, <1>4, BarFits

-----------------------------------------------------------------------------
(* A worker's own scan, action by action.                                  *)
LEMMA CountWithin ==
  ASSUME Types, NEW w \in Workers, CountSource(w) \/ CountTarget(w), WithinCount(w)
  PROVE  WithinCount(w)'
<1>1. /\ result \in [Workers -> DataResult] /\ pc \in [Workers -> WorkerLabels]
      /\ UNCHANGED <<src, task>>
  BY DEF Types, TypeOK, CountSource, CountTarget, Read, kept, dbVars
<1>2. CASE CountSource(w)
  <2>1. PICK k \in 0 .. Cardinality(IDs) :
            CountWithRetry(w, src, k) /\ result' = [result EXCEPT ![w].srcCount = k]
    BY <1>2 DEF CountSource
  <2>2. k \in {0, Cardinality(Present(src, task[w]))}
    BY <2>1 DEF CountWithRetry
  <2>3. result' = [result EXCEPT ![w] = [result[w] EXCEPT !.srcCount = k]]
    BY <2>1
  <2>4. result'[w].srcCount = k
    BY <1>1, <2>3 DEF DataResult
  <2>5. pc'[w] = "countTgt"
    BY <1>1, <1>2 DEF CountSource, Goto
  <2> QED BY <1>1, <2>2, <2>4, <2>5 DEF WithinCount, ForwardLabels, Present
<1>3. CASE CountTarget(w)
  <2>1. PICK k : result' = [result EXCEPT ![w].tgtCount = k]
    BY <1>3 DEF CountTarget
  <2>2. result' = [result EXCEPT ![w] = [result[w] EXCEPT !.tgtCount = k]]
    BY <2>1
  <2>3. result'[w].srcCount = result[w].srcCount
    BY <1>1, <2>2 DEF DataResult
  <2>4. pc[w] = "countTgt" /\ pc'[w] \in {"open", "publish"}
    BY <1>1, <1>3 DEF CountTarget, At, Goto
  <2> QED BY <1>1, <2>3, <2>4 DEF WithinCount, ForwardLabels, Present
<1> QED BY <1>2, <1>3

LEMMA OpenWithin ==
  ASSUME Types, NEW w \in Workers, OpenForward(w), WithinCount(w)
  PROVE  WithinCount(w)'
<1>1. PICK range \in SUBSET IDs :
          scan' = [scan EXCEPT ![w] = [NewScan EXCEPT !.range = range]]
  BY DEF OpenForward
<1>2. /\ pc[w] = "open" /\ pc'[w] = "next" /\ UNCHANGED <<src, task, result>>
      /\ result[w].srcCount \in Nat
  BY DEF OpenForward, At, Goto, Read, kept, dbVars, Types, TypeOK, DataResult
<1>3. scan'[w].processed = 0 /\ scan'[w].range = range
  BY <1>1 DEF NewScan, Types, TypeOK
<1>4. PICK n : n = task[w]
  OBVIOUS
<1> DEFINE D == range \cap Present(src, n)
<1>5. D \in SUBSET Present(src, n)
  OBVIOUS
<1>6. Cardinality(D) \in Nat /\ Cardinality(D) <= Cardinality(Present(src, n))
  BY <1>5, PresentFinite, FS_Subset, FS_CardinalityType
<1>7. Cardinality(Deliverable(w, src)') = Cardinality(D)
  BY <1>2, <1>3, <1>4 DEF Deliverable, Present
<1>8. result[w].srcCount \in {0, Cardinality(Present(src, n))}
  BY <1>2, <1>4 DEF WithinCount
<1>9. ToCome(w)' = Cardinality(D)
  BY <1>2, <1>6, <1>7 DEF ToCome
<1>10. scan'[w].processed + ToCome(w)' = Cardinality(D)
  BY <1>3, <1>6, <1>9
<1> QED BY <1>2, <1>6, <1>8, <1>10 DEF WithinCount

LEMMA NextWithin ==
  ASSUME Types, NEW w \in Workers, NextForward(w) \/ SkipForward(w), WithinCount(w)
  PROVE  WithinCount(w)'
<1>1. PICK id \in IDs :
          /\ IsNext(w, src, id, ~opts.sampled)
          /\ \/ scan' = [scan EXCEPT ![w].range = After(w, id, ~opts.sampled),
                    ![w].id = id, ![w].version = src[task[w]][id], ![w].tries = 0]
             \/ scan' = [scan EXCEPT ![w].range = After(w, id, ~opts.sampled)]
  BY DEF NextForward, SkipForward
<1>2. /\ scan \in [Workers -> ScanRecord] /\ scan[w].range \in SUBSET IDs
      /\ scan[w].processed \in Nat
      /\ result[w].srcCount \in Nat /\ opts.sampled \in BOOLEAN
  BY DEF Types, TypeOK, ScanRecord, DataResult, OptionSet
<1>3. /\ pc[w] = "next" /\ pc'[w] \in {"next", "find"} /\ UNCHANGED <<src, task, result>>
  BY DEF NextForward, SkipForward, At, Goto, Read, kept, dbVars, Types, TypeOK
<1>4. PICK range : range = After(w, id, ~opts.sampled)
  OBVIOUS
<1>5. scan'[w].range = range /\ scan'[w].processed = scan[w].processed
  <2>1. PICK v : v = src[task[w]][id]
    OBVIOUS
  <2>2. \/ scan'[w] = [scan[w] EXCEPT !.range = range, !.id = id, !.version = v, !.tries = 0]
        \/ scan'[w] = [scan[w] EXCEPT !.range = range]
    BY <1>1, <1>2, <1>4, <2>1
  <2> QED BY <1>2, <2>2 DEF ScanRecord
<1>6. PICK D : D = Deliverable(w, src)
  OBVIOUS
<1>7. id \in D /\ range \cap Present(src, task[w]) = D \ {id}
  BY <1>1, <1>2, <1>4, <1>6, CursorMoves
<1>8. IsFiniteSet(D) /\ Cardinality(D) \in Nat
  BY <1>2, <1>6, PresentFinite DEF Deliverable
<1>9. Cardinality(D \ {id}) = Cardinality(D) - 1
  BY <1>7, <1>8, FS_RemoveElement
<1>10. Cardinality(Deliverable(w, src)') = Cardinality(D) - 1
  BY <1>3, <1>5, <1>7, <1>9 DEF Deliverable, Present
<1>11. ToCome(w) = Cardinality(D)
  BY <1>3, <1>6, <1>8 DEF ToCome
<1>12. ToCome(w)' \in Int /\ ToCome(w)' <= Cardinality(D)
  BY <1>8, <1>10 DEF ToCome
<1>13. result[w].srcCount = 0 \/ scan[w].processed + Cardinality(D) <= result[w].srcCount
  BY <1>3, <1>11 DEF WithinCount, ForwardLabels
<1>14. result[w].srcCount = 0 \/ scan'[w].processed + ToCome(w)' <= result[w].srcCount
  BY <1>2, <1>5, <1>8, <1>12, <1>13
<1> QED BY <1>3, <1>14 DEF WithinCount

LEMMA LookupWithin ==
  ASSUME Types, NEW w \in Workers, Compare(w) \/ Missing(w), WithinCount(w)
  PROVE  WithinCount(w)'
<1>1. PICK r : /\ Processed(w, r)
               /\ r \in {result[w], WithDifferent(result[w], scan[w].id),
                         WithMissing(result[w], scan[w].id)}
  <2>1. CASE Compare(w)
    BY <2>1 DEF Compare
  <2>2. CASE Missing(w)
    BY <2>2 DEF Missing
  <2> QED BY <2>1, <2>2
<1>2. /\ scan \in [Workers -> ScanRecord] /\ scan[w].range \in SUBSET IDs
      /\ scan[w].processed \in Nat
      /\ result \in [Workers -> DataResult] /\ result[w] \in DataResult
      /\ result[w].srcCount \in Nat
  BY DEF Types, TypeOK, ScanRecord, DataResult
<1>3. pc[w] = "find" /\ pc'[w] \in {"save", "next"} /\ UNCHANGED <<src, task>>
  BY DEF Compare, Missing, Processed, At, Goto, Read, kept, dbVars, Types, TypeOK
<1>4. r.srcCount = result[w].srcCount
  BY <1>1, <1>2 DEF WithDifferent, WithMissing, DataResult
<1>5. result'[w].srcCount = result[w].srcCount
  BY <1>1, <1>2, <1>4 DEF Processed
<1>6. scan'[w] = [scan[w] EXCEPT !.processed = scan[w].processed + 1]
  BY <1>1, <1>2 DEF Processed
<1>7. scan'[w].range = scan[w].range /\ scan'[w].processed = scan[w].processed + 1
  BY <1>2, <1>6 DEF ScanRecord
<1>8. PICK k : k = Cardinality(Deliverable(w, src))
  OBVIOUS
<1>9. k \in Nat
  BY <1>2, <1>8, PresentFinite DEF Deliverable
<1>10. Cardinality(Deliverable(w, src)') = k
  BY <1>3, <1>7, <1>8 DEF Deliverable, Present
<1>11. ToCome(w) = k + 1 /\ ToCome(w)' = k
  BY <1>3, <1>8, <1>9, <1>10 DEF ToCome
<1>12. result[w].srcCount = 0 \/ scan[w].processed + (k + 1) <= result[w].srcCount
  BY <1>3, <1>11 DEF WithinCount, ForwardLabels
<1>13. result'[w].srcCount = 0 \/ scan'[w].processed + ToCome(w)' <= result'[w].srcCount
  BY <1>2, <1>5, <1>7, <1>9, <1>11, <1>12
<1> QED BY <1>3, <1>13 DEF WithinCount

(* A step that leaves the scan as it is and, if it goes on forward, came   *)
(* from there.                                                             *)
LEMMA KeptWithin ==
  ASSUME Types, NEW w \in Workers, WithinCount(w),
         UNCHANGED <<src, task>>,
         \/ /\ result'[w] = result[w]
            /\ scan'[w].range = scan[w].range /\ scan'[w].processed = scan[w].processed
            /\ \/ pc'[w] = pc[w]
               \/ {pc[w], pc'[w]} \subseteq ForwardLabels \ {"find"}
         \/ pc'[w] \notin ForwardLabels \cup {"countTgt", "open"}
  PROVE  WithinCount(w)'
  BY DEF WithinCount, ToCome, Deliverable, Present, ForwardLabels

LEMMA PassingWithin ==
  ASSUME Types, NEW w \in Workers, WithinCount(w),
         \/ TryAgain(w) \/ OpenForwardFails(w) \/ EndOfForward(w) \/ Save(w) \/ SaveFile(w)
         \/ UpdateProgress(w) \/ OpenReverse(w) \/ OpenReverseFails(w) \/ NextReverse(w)
         \/ SkipReverse(w) \/ EndOfReverse(w) \/ LookupSource(w)
  PROVE  WithinCount(w)'
<1>1. pc \in [Workers -> WorkerLabels] /\ scan \in [Workers -> ScanRecord]
  BY DEF Types, TypeOK
<1>2. UNCHANGED <<src, task>>
  BY DEF TryAgain, OpenForwardFails, EndOfForward, Save, SaveFile, UpdateProgress, OpenReverse,
         OpenReverseFails, NextReverse, SkipReverse, EndOfReverse, LookupSource,
         Read, kept, dbVars
<1>3. CASE TryAgain(w)
  <2>1. scan'[w] = [scan[w] EXCEPT !.tries = @ + 1] /\ UNCHANGED <<pc, result>>
    BY <1>1, <1>3 DEF TryAgain
  <2>2. scan'[w].range = scan[w].range /\ scan'[w].processed = scan[w].processed
    BY <1>1, <2>1 DEF ScanRecord
  <2> QED BY <1>2, <2>1, <2>2, KeptWithin
<1>4. CASE Save(w) \/ SaveFile(w) \/ UpdateProgress(w)
  <2>1. /\ pc[w] \in {"save", "truncate", "write", "report"}
        /\ pc'[w] \in {"truncate", "write", "report", "next"}
        /\ UNCHANGED <<scan, result>>
    BY <1>1, <1>4 DEF Save, SaveCheckpoint, SaveFile, FileOps, TruncateFile, OpenFileFails,
       WriteFile, WriteFileFails, UpdateProgress, At, Goto
  <2> QED BY <1>2, <2>1, KeptWithin DEF ForwardLabels
<1>5. CASE OpenForwardFails(w) \/ EndOfForward(w)
  <2>1. pc'[w] \in {"openRev", "publish"}
    BY <1>1, <1>5 DEF OpenForwardFails, EndOfForward, EndForward, Goto
  <2> QED BY <1>2, <2>1, KeptWithin DEF ForwardLabels
<1>6. CASE \/ OpenReverse(w) \/ OpenReverseFails(w) \/ NextReverse(w)
           \/ SkipReverse(w) \/ EndOfReverse(w) \/ LookupSource(w)
  <2>1. pc'[w] \in {"nextRev", "findRev", "publish"}
    BY <1>1, <1>6 DEF OpenReverse, OpenReverseFails, NextReverse, SkipReverse, EndOfReverse,
       LookupSource, At, Goto
  <2> QED BY <1>2, <2>1, KeptWithin DEF ForwardLabels
<1> QED BY <1>3, <1>4, <1>5, <1>6

LEMMA OwnWithin ==
  ASSUME Types, NEW w \in Workers, WorkerStep(w), WithinCount(w)
  PROVE  WithinCount(w)'
<1>1. CASE Take(w) \/ Exit(w) \/ Publish(w)
  <2>1. pc'[w] \in {"countSrc", "exited", "idle"}
    BY <1>1 DEF Take, Exit, Publish, Goto, Types, TypeOK
  <2> QED BY <2>1 DEF WithinCount, ForwardLabels
<1> QED BY <1>1, CountWithin, OpenWithin, NextWithin, LookupWithin, PassingWithin DEF WorkerStep

(* Workers leave the process up and the map in memory a map.               *)
LEMMA WorkerKeepsProcess ==
  ASSUME Types, NEW w \in Workers, WorkerStep(w), cpData # Nil
  PROVE  UNCHANGED <<proc, crashes>> /\ cpData' # Nil
<1>1. CASE Save(w)
  <2>1. UNCHANGED <<proc, crashes>>
    BY <1>1 DEF Save, SaveCheckpoint
  <2>2. cpData \in Maps /\ scan[w].id \in IDs
    BY <1>1 DEF Save, SaveCheckpoint, At, Types, TypeOK, InHand
  <2>3. cpData' = [cpData EXCEPT ![task[w]] = scan[w].id]
    BY <1>1 DEF Save, SaveCheckpoint
  <2>4. cpData' \in Maps
    BY <2>2, <2>3 DEF Maps
  <2> QED BY <2>1, <2>4, CheckpointAssumption
<1>2. CASE ~Save(w)
  BY <1>2 DEF WorkerStep, Take, Exit, CountSource, CountTarget, TryAgain, OpenForward,
     OpenForwardFails, NextForward, SkipForward, EndOfForward, Compare, Missing, SaveFile,
     FileOps, TruncateFile, OpenFileFails, WriteFile, WriteFileFails, UpdateProgress,
     OpenReverse, OpenReverseFails, NextReverse, SkipReverse, EndOfReverse, LookupSource,
     Publish, Read, kept, cpVars
<1> QED BY <1>1, <1>2

LEMMA WorkerSurvives ==
  ASSUME Types, NEW w \in Workers, WorkerStep(w), Survives PROVE Survives'
<1>1. OnlyMoves(w)
  BY WorkerMovesOnly
<1> SUFFICES ASSUME Calm'
             PROVE  proc' = "up" /\ cpData' # Nil /\ \A v \in Workers : WithinCount(v)'
  BY DEF Survives
<1>2. Calm
  <2>1. crashes' = crashes
    BY DEF WorkerStep, Take, Exit, CountSource, CountTarget, TryAgain, OpenForward,
       OpenForwardFails, NextForward, SkipForward, EndOfForward, Compare, Missing, Save,
       SaveCheckpoint, SaveFile, FileOps, TruncateFile, OpenFileFails, WriteFile,
       WriteFileFails, UpdateProgress, OpenReverse, OpenReverseFails, NextReverse,
       SkipReverse, EndOfReverse, LookupSource, Publish, Read, kept
  <2> QED BY <1>1, <2>1 DEF Calm, OnlyMoves
<1>3. proc = "up" /\ cpData # Nil /\ \A v \in Workers : WithinCount(v)
  BY <1>2 DEF Survives
<1>4. proc' = "up" /\ cpData' # Nil
  BY <1>3, WorkerKeepsProcess
<1>5. WithinCount(w)'
  BY <1>3, OwnWithin
<1>6. ASSUME NEW v \in Workers \ {w} PROVE WithinCount(v)'
  BY <1>1, <1>3 DEF OnlyMoves, WithinCount, ToCome, Deliverable, Present
<1> QED BY <1>4, <1>5, <1>6

LEMMA NextSurvives == Types /\ Survives /\ [Next]_vars => Survives'
<1> SUFFICES ASSUME Types, Survives, [Next]_vars PROVE Survives'
  OBVIOUS
<1>1. ASSUME NEW w \in Workers, SaveCheckpointPanics(w) PROVE Survives'
  <2>1. ~Calm
    BY <1>1 DEF SaveCheckpointPanics, SavePanics, Survives
  <2>2. UNCHANGED <<crashes, touched>>
    BY <1>1 DEF SaveCheckpointPanics, SavePanics, ProcessEnds, dbVars
  <2> QED BY <2>1, <2>2 DEF Survives, Calm
<1>2. ASSUME NEW w \in Workers, BarUpdatePanics(w) PROVE Survives'
  <2>1. ~Calm
    BY <1>2, BarSurvives DEF BarUpdatePanics, At, Survives
  <2>2. UNCHANGED <<crashes, touched>>
    BY <1>2 DEF BarUpdatePanics, ProcessEnds, dbVars
  <2> QED BY <2>1, <2>2 DEF Survives, Calm
<1>3. CASE Crash
  <2>1. crashes' = crashes + 1 /\ crashes \in Nat
    BY <1>3 DEF Crash, Kill, Types, TypeOK
  <2> QED BY <2>1 DEF Survives, Calm
<1>4. CASE Restart
  <2>1. proc = "down" /\ UNCHANGED <<crashes, touched>>
    BY <1>4 DEF Restart, Boot, dbVars
  <2> QED BY <2>1 DEF Survives, Calm
<1>5. CASE NextCall
  <2>1. UNCHANGED <<proc, crashes, cpData, touched>>
    BY <1>5 DEF NextCall, cpVars, dbVars
  <2>2. \A w \in Workers : pc'[w] = "idle"
    BY <1>5 DEF NextCall, FreshCall
  <2> QED BY <2>1, <2>2 DEF Survives, Calm, WithinCount, ForwardLabels
<1>6. CASE Return \/ UNCHANGED vars
  <2>1. UNCHANGED <<proc, crashes, cpData, touched, src, pc, task, scan, result>>
    BY <1>6 DEF Return, vars, allCpVars, cpVars, dbVars
  <2> QED BY <2>1 DEF Survives, Calm, WithinCount, ToCome, Deliverable, Present
<1>7. ASSUME NEW n \in NS, NEW id \in IDs,
             \/ \E v \in Versions \cup {NoDoc} : SourceWrite(n, id, v)
             \/ Replicate(n, id)
      PROVE  Survives'
  <2>1. touched' = [touched EXCEPT ![n] = @ \cup {id}]
    BY <1>7 DEF SourceWrite, Replicate, Writes
  <2>2. touched'[n] # {}
    BY <2>1 DEF Types, TypeOK
  <2> QED BY <2>2 DEF Survives, Calm
<1> QED BY <1>1, <1>2, <1>3, <1>4, <1>5, <1>6, <1>7, WorkerSurvives DEF Next, Stopped

(* Nothing but changing data ends the process from within: unless it is    *)
(* killed or somebody writes, no bar is drawn past its width and no save   *)
(* finds a nil map, whatever reads fail, however counts come back and      *)
(* whatever is sampled, for any number of workers and documents.           *)
THEOREM QuietDataSurvives == Spec => []QuietDataIsSurvived
<1>1. Survives => QuietDataIsSurvived
  BY DEF Survives, Calm, QuietDataIsSurvived
<1>2. Init => Survives
  BY EmptyMapType, CheckpointAssumption DEF Init, Survives, WithinCount, ForwardLabels
<1> QED BY InitTypes, NextTypes, NextSurvives, <1>1, <1>2, PTL DEF Spec

-----------------------------------------------------------------------------
(* The report is the difference.  While nobody touches a namespace and     *)
(* nothing goes wrong with its scan, the result in hand is the difference  *)
(* of the two collections on the documents that the scan has behind it; a  *)
(* sorted scan has the smaller ones behind it, which makes its samples the *)
(* first ones.                                                             *)
Undisturbed(n) == touched[n] = {} /\ caveat[n] = {}

(* What the forward scan, and then the reverse one, has still ahead.       *)
ToLookUp(w) ==
    IF pc[w] \in {"countSrc", "countTgt", "open"} THEN Present(src, task[w])
    ELSE IF pc[w] \notin ForwardLabels THEN {}
    ELSE Deliverable(w, src) \cup (IF pc[w] = "find" THEN {scan[w].id} ELSE {})

ToLookBack(w) ==
    IF pc[w] = "publish" THEN {}
    ELSE IF pc[w] \notin {"nextRev", "findRev"} THEN Present(tgt, task[w])
    ELSE Deliverable(w, tgt) \cup (IF pc[w] = "findRev" THEN {scan[w].id} ELSE {})

LookedUp(w) == Present(src, task[w]) \ ToLookUp(w)
LookedBack(w) == Present(tgt, task[w]) \ ToLookBack(w)

(* The document in hand is one that the cursor has given up, and comes     *)
(* before what a sorted cursor may still deliver.                          *)
InHandIsNext(w) ==
    /\ pc[w] = "find" =>
           /\ scan[w].id \in Present(src, task[w]) \ scan[w].range
           /\ ~opts.sampled => \A id \in scan[w].range : scan[w].id < id
    /\ pc[w] = "findRev" =>
           /\ scan[w].id \in Present(tgt, task[w]) \ scan[w].range
           /\ \A id \in scan[w].range : scan[w].id < id
    /\ pc[w] \in {"openRev", "nextRev", "findRev"} => opts.bidirectional

GoesUp(w) ==
    /\ ~opts.sampled => \A x \in LookedUp(w), y \in ToLookUp(w) : x < y
    /\ \A x \in LookedBack(w), y \in ToLookBack(w) : x < y

(* A result that says which documents are missing, different and extra.    *)
Says(r, lacking, differing, surplus, sorted) ==
    /\ Tells(r.missing, r.missingSample, lacking, SampleCap, sorted)
    /\ Tells(r.different, r.diffSample, differing, SampleCap, sorted)
    /\ Tells(r.extra, r.extraSample, surplus, ExtraCap, TRUE)
    /\ r.errors = 0

FoundSoFar(w) ==
    Says(result[w],
         Lacking(task[w]) \cap LookedUp(w), Differing(task[w]) \cap LookedUp(w),
         Surplus(task[w]) \cap LookedBack(w), ~opts.sampled)

Exact(w) ==
    task[w] # NoTask /\ ~opts.dryRun /\ Undisturbed(task[w]) =>
        CountsRight(w) /\ InHandIsNext(w) /\ GoesUp(w) /\ FoundSoFar(w)

(* The documents of a sample, which are as many as its places.             *)
Held(sample) == {sample[i] : i \in 1 .. Len(sample)}

LEMMA HeldOnce ==
  ASSUME NEW count, NEW sample \in Seq(IDs), NEW ids, NEW cap \in Nat, NEW sorted,
         Tells(count, sample, ids, cap, sorted)
  PROVE  Held(sample) \in SUBSET ids /\ Cardinality(Held(sample)) = Len(sample)
<1> DEFINE places == 1 .. Len(sample)
<1>1. [i \in places |-> sample[i]] \in Bijection(places, Held(sample))
  BY DEF Tells, Held, Bijection, Injection, Surjection, IsInjective
<1>2. IsFiniteSet(places) /\ Cardinality(places) = Len(sample)
  BY FS_Interval
<1>3. Cardinality(Held(sample)) = Len(sample)
  BY <1>1, <1>2, FS_Bijection, Zenon DEF ExistsBijection
<1> QED BY <1>3 DEF Tells, Held

(* A sample that is not full holds every document it speaks of.            *)
LEMMA NothingLeftOut ==
  ASSUME NEW count \in Nat, NEW sample \in Seq(IDs), NEW ids \in SUBSET IDs,
         NEW cap \in Nat, NEW sorted \in BOOLEAN,
         Tells(count, sample, ids, cap, sorted), Len(sample) < cap,
         NEW id \in ids
  PROVE  \E i \in 1 .. Len(sample) : sample[i] = id
<1>1. Cardinality(Held(sample)) = Cardinality(ids) /\ Held(sample) \in SUBSET ids
  BY HeldOnce DEF Tells
<1>2. IsFiniteSet(ids)
  BY VerifierAssumption, FS_Subset
<1>3. Held(sample) = ids
  BY <1>1, <1>2, FS_Subset
<1> QED BY <1>3 DEF Held

(* One document more, behind the others of a sorted scan.                  *)
LEMMA TellsMore ==
  ASSUME NEW count \in Nat, NEW sample \in Seq(IDs), NEW ids \in SUBSET IDs,
         NEW cap \in Nat, NEW sorted \in BOOLEAN,
         Tells(count, sample, ids, cap, sorted), NEW id \in IDs \ ids,
         sorted => \A x \in ids : x < id
  PROVE  Tells(count + 1, Keep(sample, id, cap), ids \cup {id}, cap, sorted)
<1> DEFINE more == Keep(sample, id, cap)
<1>1. /\ IsFiniteSet(ids) /\ Cardinality(ids) = count
      /\ Len(sample) = (IF count < cap THEN count ELSE cap) /\ Len(sample) \in Nat
  BY VerifierAssumption, FS_Subset DEF Tells
<1>2. count + 1 = Cardinality(ids \cup {id})
  BY <1>1, FS_AddElement
<1>3. IDs \subseteq Nat
  BY CheckpointAssumption
<1>4. CASE Len(sample) < cap
  <2>1. /\ Len(more) = Len(sample) + 1 /\ more[Len(sample) + 1] = id
        /\ \A i \in 1 .. Len(sample) : more[i] = sample[i]
    BY <1>4 DEF Keep
  <2>2. Len(more) = IF count + 1 < cap THEN count + 1 ELSE cap
    BY <1>1, <1>4, <2>1
  <2> HIDE DEF more
  <2>3. \A i \in 1 .. Len(more) : i = Len(sample) + 1 \/ i \in 1 .. Len(sample)
    BY <1>1, <2>1
  <2>4. \A i \in 1 .. Len(sample) : sample[i] \in ids
    BY DEF Tells
  <2>5. \A i \in 1 .. Len(more) : more[i] \in ids \cup {id}
    BY <2>1, <2>3, <2>4
  <2>6. ASSUME NEW i \in 1 .. Len(more), NEW j \in 1 .. Len(more), i < j
        PROVE  more[i] # more[j] /\ (sorted => more[i] < more[j])
    <3>1. i \in 1 .. Len(sample)
      BY <1>1, <2>1, <2>6
    <3>2. CASE j \in 1 .. Len(sample)
      BY <2>1, <2>6, <3>1, <3>2 DEF Tells
    <3>3. CASE j = Len(sample) + 1
      BY <2>1, <2>4, <3>1, <3>3
    <3> QED BY <2>3, <3>2, <3>3
  <2>7. ASSUME sorted, NEW x \in ids \cup {id}, NEW i \in 1 .. Len(more)
        PROVE  more[i] < x \/ \E j \in 1 .. Len(more) : more[j] = x
    <3>1. CASE x = id
      BY <1>1, <2>1, <3>1
    <3>2. CASE x \in ids
      <4>1. PICK j \in 1 .. Len(sample) : sample[j] = x
        BY <1>4, <3>2, NothingLeftOut
      <4> QED BY <1>1, <2>1, <4>1
    <3> QED BY <3>1, <3>2
  <2> QED BY <1>2, <2>2, <2>5, <2>6, <2>7 DEF Tells, more
<1>5. CASE ~(Len(sample) < cap)
  <2>1. more = sample
    BY <1>5 DEF Keep
  <2>2. Len(sample) = IF count + 1 < cap THEN count + 1 ELSE cap
    BY <1>1, <1>5
  <2>3. ASSUME sorted, NEW i \in 1 .. Len(sample) PROVE sample[i] < id
    BY <2>3 DEF Tells
  <2> QED BY <1>2, <2>1, <2>2, <2>3 DEF Tells
<1> QED BY <1>4, <1>5

(* What an empty result says.                                              *)
LEMMA TellsNothing ==
  ASSUME NEW cap \in Nat, NEW sorted \in BOOLEAN
  PROVE  Tells(0, <<>>, {}, cap, sorted)
  BY FS_EmptySet DEF Tells

-----------------------------------------------------------------------------
(* Nothing is disturbed and then undisturbed within a call.                *)
LEMMA UndisturbedBefore ==
  ASSUME Types, NEW w \in Workers, WorkerStep(w), NEW n \in NS, Undisturbed(n)'
  PROVE  Undisturbed(n)
  BY WorkerMovesOnly, CaveatGrows DEF OnlyMoves, Undisturbed

LEMMA Noted ==
  ASSUME Types, NEW w \in Workers, NEW n \in NS, n = task[w],
         NEW what \in {"partial", "lost", "gaveUp"}, Note(w, what)
  PROVE  ~Undisturbed(n)'
<1>1. what \in caveat'[n]
  BY DEF Note, Types, TypeOK
<1> QED BY <1>1 DEF Undisturbed

(* The types of what a scan and a report speak of.                         *)
LEMMA DocumentSets ==
  ASSUME NEW n
  PROVE  /\ Present(src, n) \in SUBSET IDs /\ Present(tgt, n) \in SUBSET IDs
         /\ Lacking(n) \in SUBSET IDs /\ Differing(n) \in SUBSET IDs
         /\ Surplus(n) \in SUBSET IDs
  BY DEF Present, Lacking, Differing, Surplus

(* The difference changes with the data only.                              *)
LEMMA SameDifference ==
  ASSUME UNCHANGED <<src, tgt, opts>>, NEW n
  PROVE  /\ Present(src, n)' = Present(src, n) /\ Present(tgt, n)' = Present(tgt, n)
         /\ Lacking(n)' = Lacking(n) /\ Differing(n)' = Differing(n)
         /\ Surplus(n)' = Surplus(n)
  BY DEF Present, Lacking, Differing, Surplus, InSync

(* The same findings about the same documents.                             *)
LEMMA SaysTheSame ==
  ASSUME NEW q, NEW r, NEW a, NEW b, NEW c, NEW sorted,
         Says(q, a, b, c, sorted),
         \A f \in {"missing", "different", "extra", "missingSample", "diffSample",
                   "extraSample", "errors"} : r[f] = q[f]
  PROVE  Says(r, a, b, c, sorted)
  BY DEF Says

(* A step that leaves the findings and what is still to be looked up: what *)
(* it leaves of the scan is as exact as before.                            *)
LEMMA KeptExact ==
  ASSUME Types, NEW w \in Workers, NEW n \in NS, task[w] = n, task'[w] = n,
         UNCHANGED <<src, tgt, opts>>,
         FoundSoFar(w), GoesUp(w),
         \A f \in {"missing", "different", "extra", "missingSample", "diffSample",
                   "extraSample", "errors"} : result'[w][f] = result[w][f],
         ToLookUp(w)' = ToLookUp(w),
         \/ ToLookBack(w)' = ToLookBack(w)
         \/ ToLookBack(w)' = {} /\ ~opts.bidirectional
  PROVE  FoundSoFar(w)' /\ GoesUp(w)'
<1>1. PICK a, b, c, d : a = LookedUp(w) /\ b = ToLookUp(w) /\ c = LookedBack(w) /\ d = ToLookBack(w)
  OBVIOUS
<1>2. LookedUp(w)' = a /\ ToLookUp(w)' = b
  BY <1>1, SameDifference DEF LookedUp
<1>3. \/ LookedBack(w)' = c /\ ToLookBack(w)' = d
      \/ ToLookBack(w)' = {} /\ ~opts.bidirectional
  BY <1>1, SameDifference DEF LookedBack
<1>4. GoesUp(w)'
  BY <1>1, <1>2, <1>3 DEF GoesUp
<1>5. (Surplus(n) \cap LookedBack(w))' = Surplus(n) \cap c
  BY <1>3, SameDifference DEF Surplus
<1>6. FoundSoFar(w)'
  BY <1>1, <1>2, <1>5, SameDifference, SaysTheSame DEF FoundSoFar
<1> QED BY <1>4, <1>6

(* What a step on undisturbed data starts from.                            *)
LEMMA ExactBefore ==
  ASSUME Types, NEW w \in Workers, WorkerStep(w), Exact(w),
         NEW n \in NS, task[w] = n, Undisturbed(n)', ~opts.dryRun
  PROVE  /\ UNCHANGED <<src, tgt, opts>>
         /\ CountsRight(w) /\ InHandIsNext(w) /\ GoesUp(w) /\ FoundSoFar(w)
<1>1. n # NoTask
  BY VerifierAssumption DEF NoTask
<1>2. Undisturbed(n)
  BY UndisturbedBefore
<1> QED BY <1>1, <1>2, WorkerMovesOnly DEF OnlyMoves, Exact

(* A step that counts nothing, taken beyond the counting.                  *)
LEMMA CountsKept ==
  ASSUME NEW w \in Workers, UNCHANGED <<src, tgt>>, task'[w] = task[w], CountsRight(w),
         result'[w].srcCount = result[w].srcCount, result'[w].tgtCount = result[w].tgtCount,
         pc'[w] = pc[w] \/ pc[w] \notin {"countSrc", "countTgt"}
  PROVE  CountsRight(w)'
  BY DEF CountsRight, Present

(* A worker's own scan, action by action.                                  *)
LEMMA CountExact ==
  ASSUME Types, NEW w \in Workers, CountSource(w) \/ CountTarget(w), Exact(w),
         NEW n \in NS, task[w] = n, Undisturbed(n)', ~opts.dryRun
  PROVE  CountsRight(w)' /\ InHandIsNext(w)' /\ GoesUp(w)' /\ FoundSoFar(w)'
<1>1. /\ UNCHANGED <<src, tgt, opts, task>>
      /\ CountsRight(w) /\ InHandIsNext(w) /\ GoesUp(w) /\ FoundSoFar(w)
  BY ExactBefore DEF WorkerStep, CountSource, CountTarget, Read, kept
<1>2. ~Fails(w, "gaveUp")
  BY Noted DEF Fails
<1>3. result \in [Workers -> DataResult] /\ pc \in [Workers -> WorkerLabels]
  BY DEF Types, TypeOK
<1>4. CASE CountSource(w)
  <2>1. result' = [result EXCEPT ![w].srcCount = Cardinality(Present(src, n))]
    BY <1>2, <1>4 DEF CountSource, CountWithRetry
  <2>2. PICK k : k = Cardinality(Present(src, n))
    OBVIOUS
  <2>3. result'[w] = [result[w] EXCEPT !.srcCount = k]
    BY <1>3, <2>1, <2>2
  <2>4. /\ result'[w].srcCount = k
        /\ \A f \in {"missing", "different", "extra", "missingSample", "diffSample",
                     "extraSample", "errors"} : result'[w][f] = result[w][f]
    BY <1>3, <2>3 DEF DataResult
  <2>5. pc[w] = "countSrc" /\ pc'[w] = "countTgt"
    BY <1>3, <1>4 DEF CountSource, At, Goto
  <2>6. CountsRight(w)' /\ InHandIsNext(w)'
    BY <1>1, <2>2, <2>4, <2>5 DEF CountsRight, InHandIsNext, Present
  <2>7. ToLookUp(w)' = ToLookUp(w) /\ ToLookBack(w)' = ToLookBack(w)
    BY <1>1, <2>5 DEF ToLookUp, ToLookBack, Present
  <2> QED BY <1>1, <2>4, <2>6, <2>7, KeptExact
<1>5. CASE CountTarget(w)
  <2>1. result' = [result EXCEPT ![w].tgtCount = Cardinality(Present(tgt, n))]
    BY <1>2, <1>5 DEF CountTarget, CountWithRetry
  <2>2. PICK k : k = Cardinality(Present(tgt, n))
    OBVIOUS
  <2>3. result'[w] = [result[w] EXCEPT !.tgtCount = k]
    BY <1>3, <2>1, <2>2
  <2>4. /\ result'[w].tgtCount = k /\ result'[w].srcCount = result[w].srcCount
        /\ \A f \in {"missing", "different", "extra", "missingSample", "diffSample",
                     "extraSample", "errors"} : result'[w][f] = result[w][f]
    BY <1>3, <2>3 DEF DataResult
  <2>5. pc[w] = "countTgt" /\ pc'[w] = "open"
    BY <1>3, <1>5 DEF CountTarget, At, Goto
  <2>6. CountsRight(w)' /\ InHandIsNext(w)'
    BY <1>1, <2>2, <2>4, <2>5 DEF CountsRight, InHandIsNext, Present
  <2>7. ToLookUp(w)' = ToLookUp(w) /\ ToLookBack(w)' = ToLookBack(w)
    BY <1>1, <2>5 DEF ToLookUp, ToLookBack, Present
  <2> QED BY <1>1, <2>4, <2>6, <2>7, KeptExact
<1> QED BY <1>4, <1>5

LEMMA PausingExact ==
  ASSUME Types, NEW w \in Workers, TryAgain(w) \/ Save(w) \/ SaveFile(w) \/ UpdateProgress(w),
         Exact(w), NEW n \in NS, task[w] = n, Undisturbed(n)', ~opts.dryRun
  PROVE  CountsRight(w)' /\ InHandIsNext(w)' /\ GoesUp(w)' /\ FoundSoFar(w)'
<1>1. /\ UNCHANGED <<src, tgt, opts, task, result>>
      /\ CountsRight(w) /\ InHandIsNext(w) /\ GoesUp(w) /\ FoundSoFar(w)
  BY ExactBefore DEF WorkerStep, TryAgain, Save, SaveFile, UpdateProgress, kept
<1>2. pc \in [Workers -> WorkerLabels] /\ scan \in [Workers -> ScanRecord]
  BY DEF Types, TypeOK
<1>3. /\ scan'[w].range = scan[w].range /\ scan'[w].id = scan[w].id
      /\ \/ pc'[w] = pc[w]
         \/ {pc[w], pc'[w]} \subseteq ForwardLabels \ {"find"}
  <2>1. CASE TryAgain(w)
    <3>1. scan'[w] = [scan[w] EXCEPT !.tries = @ + 1] /\ pc' = pc
      BY <1>2, <2>1 DEF TryAgain
    <3> QED BY <1>2, <3>1 DEF ScanRecord
  <2>2. CASE Save(w) \/ SaveFile(w) \/ UpdateProgress(w)
    BY <1>2, <2>2 DEF Save, SaveCheckpoint, SaveFile, FileOps, TruncateFile, OpenFileFails,
       WriteFile, WriteFileFails, UpdateProgress, At, Goto, ForwardLabels
  <2> QED BY <2>1, <2>2
<1>4. ToLookUp(w)' = ToLookUp(w) /\ ToLookBack(w)' = ToLookBack(w)
  BY <1>1, <1>3 DEF ToLookUp, ToLookBack, Deliverable, Present, ForwardLabels
<1>5. InHandIsNext(w)'
  BY <1>1, <1>3 DEF InHandIsNext, Present, ForwardLabels
<1>6. CountsRight(w)'
  BY <1>1, <1>3, CountsKept DEF ForwardLabels
<1> QED BY <1>1, <1>4, <1>5, <1>6, KeptExact

LEMMA OpeningExact ==
  ASSUME Types, NEW w \in Workers, OpenForward(w) \/ OpenReverse(w),
         Exact(w), NEW n \in NS, task[w] = n, Undisturbed(n)', ~opts.dryRun
  PROVE  CountsRight(w)' /\ InHandIsNext(w)' /\ GoesUp(w)' /\ FoundSoFar(w)'
<1>1. /\ UNCHANGED <<src, tgt, opts, task, result>>
      /\ CountsRight(w) /\ InHandIsNext(w) /\ GoesUp(w) /\ FoundSoFar(w)
  BY ExactBefore DEF WorkerStep, OpenForward, OpenReverse, Read, kept
<1>2. scan'[w].range = IDs
  <2>1. CASE OpenForward(w)
    <3>1. PICK range \in SUBSET IDs :
            /\ scan' = [scan EXCEPT ![w] = [NewScan EXCEPT !.range = range]]
            /\ IF range = IDs THEN UNCHANGED caveat ELSE Note(w, "partial")
      BY <2>1 DEF OpenForward
    <3>2. range = IDs
      BY <3>1, Noted
    <3> QED BY <3>1, <3>2 DEF NewScan, Types, TypeOK
  <2>2. CASE OpenReverse(w)
    BY <2>2 DEF OpenReverse, NewScan, Types, TypeOK
  <2> QED BY <2>1, <2>2
<1>3. \/ pc[w] = "open" /\ pc'[w] = "next"
      \/ pc[w] = "openRev" /\ pc'[w] = "nextRev"
  BY DEF OpenForward, OpenReverse, At, Goto, Types, TypeOK
<1>4. ToLookUp(w)' = ToLookUp(w) /\ ToLookBack(w)' = ToLookBack(w)
  BY <1>1, <1>2, <1>3 DEF ToLookUp, ToLookBack, Deliverable, Present, ForwardLabels
<1>5. InHandIsNext(w)'
  BY <1>1, <1>3 DEF InHandIsNext
<1>6. CountsRight(w)'
  BY <1>1, <1>3, CountsKept
<1> QED BY <1>1, <1>4, <1>5, <1>6, KeptExact

LEMMA EndingExact ==
  ASSUME Types, NEW w \in Workers, EndOfForward(w) \/ EndOfReverse(w),
         Exact(w), NEW n \in NS, task[w] = n, Undisturbed(n)', ~opts.dryRun
  PROVE  CountsRight(w)' /\ InHandIsNext(w)' /\ GoesUp(w)' /\ FoundSoFar(w)'
<1>1. /\ UNCHANGED <<src, tgt, opts, task, result>>
      /\ CountsRight(w) /\ InHandIsNext(w) /\ GoesUp(w) /\ FoundSoFar(w)
  BY ExactBefore DEF WorkerStep, EndOfForward, EndOfReverse, Read, kept
<1>2. \/ /\ pc[w] = "next" /\ Deliverable(w, src) = {}
         /\ pc'[w] = IF opts.bidirectional THEN "openRev" ELSE "publish"
      \/ /\ pc[w] = "nextRev" /\ Deliverable(w, tgt) = {}
         /\ pc'[w] = "publish"
  BY Noted DEF EndOfForward, EndOfReverse, EndForward, CursorEnds, Fails, At, Goto,
     Types, TypeOK
<1>3. /\ ToLookUp(w)' = ToLookUp(w)
      /\ \/ ToLookBack(w)' = ToLookBack(w)
         \/ ToLookBack(w)' = {} /\ ~opts.bidirectional
  BY <1>1, <1>2 DEF ToLookUp, ToLookBack, Present, ForwardLabels
<1>4. InHandIsNext(w)'
  BY <1>1, <1>2 DEF InHandIsNext
<1>5. CountsRight(w)'
  BY <1>1, <1>2, CountsKept
<1> QED BY <1>1, <1>3, <1>4, <1>5, KeptExact

LEMMA DeliveryExact ==
  ASSUME Types, NEW w \in Workers, NextForward(w) \/ NextReverse(w),
         Exact(w), NEW n \in NS, task[w] = n, Undisturbed(n)', ~opts.dryRun
  PROVE  CountsRight(w)' /\ InHandIsNext(w)' /\ GoesUp(w)' /\ FoundSoFar(w)'
<1>1. /\ UNCHANGED <<src, tgt, opts, task, result>>
      /\ CountsRight(w) /\ InHandIsNext(w) /\ GoesUp(w) /\ FoundSoFar(w)
  BY ExactBefore DEF WorkerStep, NextForward, NextReverse, Read, kept
<1>2. /\ scan \in [Workers -> ScanRecord] /\ scan[w].range \in SUBSET IDs
      /\ IDs \subseteq Nat /\ opts.sampled \in BOOLEAN
  BY CheckpointAssumption DEF Types, TypeOK, ScanRecord, OptionSet
<1>3. CASE NextForward(w)
  <2>1. PICK id \in IDs :
            /\ IsNext(w, src, id, ~opts.sampled)
            /\ scan' = [scan EXCEPT
                  ![w].range = After(w, id, ~opts.sampled),
                  ![w].id = id,
                  ![w].version = src[task[w]][id],
                  ![w].tries = 0]
    BY <1>3 DEF NextForward
  <2>2. PICK range, v : range = After(w, id, ~opts.sampled) /\ v = src[task[w]][id]
    OBVIOUS
  <2>3. scan'[w] = [scan[w] EXCEPT !.range = range, !.id = id, !.version = v, !.tries = 0]
    BY <1>2, <2>1, <2>2
  <2>4. scan'[w].range = range /\ scan'[w].id = id
    BY <1>2, <2>3 DEF ScanRecord
  <2>5. pc[w] = "next" /\ pc'[w] = "find"
    BY <1>3 DEF NextForward, At, Goto, Types, TypeOK
  <2>6. /\ id \in Present(src, n) \ range
        /\ ~opts.sampled => \A x \in range : id < x
    <3>1. id \in Present(src, n)
      BY <2>1 DEF IsNext, Deliverable
    <3>2. CASE opts.sampled
      BY <2>2, <3>1, <3>2 DEF After
    <3>3. CASE ~opts.sampled
      BY <1>2, <2>2, <3>1, <3>3 DEF After
    <3> QED BY <3>2, <3>3
  <2>7. /\ id \in Deliverable(w, src)
        /\ range \cap Present(src, n) = Deliverable(w, src) \ {id}
    BY <1>2, <2>1, <2>2, CursorMoves
  <2>8. ToLookUp(w) = Deliverable(w, src)
    BY <2>5 DEF ToLookUp, ForwardLabels
  <2>9. ToLookUp(w)' = (range \cap Present(src, n)) \cup {id}
    BY <1>1, <2>4, <2>5 DEF ToLookUp, Deliverable, Present, ForwardLabels
  <2>10. ToLookUp(w)' = ToLookUp(w) /\ ToLookBack(w)' = ToLookBack(w)
    BY <1>1, <2>5, <2>7, <2>8, <2>9 DEF ToLookBack, Present
  <2>11. InHandIsNext(w)'
    BY <1>1, <2>4, <2>5, <2>6 DEF InHandIsNext, Present
  <2>12. CountsRight(w)'
    BY <1>1, <2>5, CountsKept
  <2> QED BY <1>1, <2>10, <2>11, <2>12, KeptExact
<1>4. CASE NextReverse(w)
  <2>1. PICK id \in IDs :
            /\ IsNext(w, tgt, id, TRUE)
            /\ scan' = [scan EXCEPT ![w].range = After(w, id, TRUE), ![w].id = id]
    BY <1>4 DEF NextReverse
  <2>2. PICK range : range = After(w, id, TRUE)
    OBVIOUS
  <2>3. scan'[w] = [scan[w] EXCEPT !.range = range, !.id = id]
    BY <1>2, <2>1, <2>2
  <2>4. scan'[w].range = range /\ scan'[w].id = id
    BY <1>2, <2>3 DEF ScanRecord
  <2>5. pc[w] = "nextRev" /\ pc'[w] = "findRev"
    BY <1>4 DEF NextReverse, At, Goto, Types, TypeOK
  <2>6. id \in Present(tgt, n) \ range /\ \A x \in range : id < x
    BY <1>2, <2>1, <2>2 DEF IsNext, Deliverable, After
  <2>7. /\ id \in Deliverable(w, tgt)
        /\ \A x \in Deliverable(w, tgt) : x = id \/ x > id
    BY <1>2, <2>1 DEF IsNext, Deliverable
  <2>8. range \cap Present(tgt, n) = Deliverable(w, tgt) \ {id}
    BY <1>2, <2>2, <2>7 DEF After, Deliverable
  <2>9. ToLookBack(w) = Deliverable(w, tgt)
    BY <2>5 DEF ToLookBack
  <2>10. ToLookBack(w)' = (range \cap Present(tgt, n)) \cup {id}
    BY <1>1, <2>4, <2>5 DEF ToLookBack, Deliverable, Present
  <2>11. ToLookUp(w)' = ToLookUp(w) /\ ToLookBack(w)' = ToLookBack(w)
    BY <1>1, <2>5, <2>7, <2>8, <2>9, <2>10 DEF ToLookUp, Present, ForwardLabels
  <2>12. InHandIsNext(w)'
    BY <1>1, <2>4, <2>5, <2>6 DEF InHandIsNext, Present
  <2>13. CountsRight(w)'
    BY <1>1, <2>5, CountsKept
  <2> QED BY <1>1, <2>11, <2>12, <2>13, KeptExact
<1> QED BY <1>3, <1>4

(* One document looked up: it goes from what is ahead to what is behind.   *)
LEMMA LookedOneUp ==
  ASSUME NEW S, NEW P, NEW L \in SUBSET P, NEW id \in L
  PROVE  /\ S \cap (P \ (L \ {id})) =
                IF id \in S THEN (S \cap (P \ L)) \cup {id} ELSE S \cap (P \ L)
         /\ id \notin S \cap (P \ L)
  OBVIOUS

LEMMA CompareExact ==
  ASSUME Types, Covered, NEW w \in Workers, Compare(w) \/ Missing(w),
         Exact(w), NEW n \in NS, task[w] = n, Undisturbed(n)', ~opts.dryRun
  PROVE  CountsRight(w)' /\ InHandIsNext(w)' /\ GoesUp(w)' /\ FoundSoFar(w)'
<1>1. /\ UNCHANGED <<src, tgt, opts, task>>
      /\ CountsRight(w) /\ InHandIsNext(w) /\ GoesUp(w) /\ FoundSoFar(w)
  BY ExactBefore DEF WorkerStep, Compare, Missing, Read, kept
<1>2. /\ scan \in [Workers -> ScanRecord] /\ scan[w].range \in SUBSET IDs
      /\ result \in [Workers -> DataResult] /\ result[w] \in DataResult
      /\ IDs \subseteq Nat /\ opts.sampled \in BOOLEAN /\ SampleCap \in Nat
  BY CheckpointAssumption, VerifierAssumption DEF Types, TypeOK, ScanRecord, OptionSet
<1>3. /\ pc[w] = "find" /\ pc'[w] \in {"save", "next"}
  BY DEF Compare, Missing, Processed, At, Goto, Types, TypeOK
<1>4. PICK id : id = scan[w].id
  OBVIOUS
<1>5. /\ id \in Present(src, n) \ scan[w].range /\ id \in IDs /\ src[n][id] # NoDoc
      /\ ~opts.sampled => \A x \in scan[w].range : id < x
  BY <1>1, <1>3, <1>4 DEF InHandIsNext, Present
<1>6. scan'[w].range = scan[w].range
  <2>1. PICK p : scan' = [scan EXCEPT ![w].processed = p]
    BY DEF Compare, Missing, Processed
  <2>2. scan'[w] = [scan[w] EXCEPT !.processed = p]
    BY <1>2, <2>1
  <2> QED BY <1>2, <2>2 DEF ScanRecord
<1>7. PICK P, L, D : P = Present(src, n) /\ L = ToLookUp(w) /\ D = L \ {id}
  OBVIOUS
<1>8. L \in SUBSET P /\ id \in L
  BY <1>3, <1>4, <1>5, <1>7 DEF ToLookUp, Deliverable, ForwardLabels
<1>9. ToLookUp(w)' = D /\ ToLookBack(w)' = ToLookBack(w)
  BY <1>1, <1>3, <1>4, <1>5, <1>6, <1>7
  DEF ToLookUp, ToLookBack, Deliverable, Present, ForwardLabels
<1>10. LookedUp(w) = P \ L /\ LookedUp(w)' = P \ D /\ LookedBack(w)' = LookedBack(w)
  BY <1>1, <1>7, <1>9, SameDifference DEF LookedUp, LookedBack
<1>11. ~opts.sampled => \A x \in P \ L, y \in L : x < y
  BY <1>1, <1>7, <1>10 DEF GoesUp
<1>12. ~opts.sampled => \A x \in P \ D, y \in D : x < y
  <2>1. ~opts.sampled => \A y \in D : id < y
    BY <1>3, <1>4, <1>5, <1>7 DEF ToLookUp, Deliverable, ForwardLabels
  <2> QED BY <1>7, <1>8, <1>11, <2>1
<1>13. GoesUp(w)'
  BY <1>1, <1>9, <1>10, <1>12 DEF GoesUp
<1>14. PICK A, B, C : /\ A = Lacking(n) \cap (P \ L) /\ B = Differing(n) \cap (P \ L)
                      /\ C = Surplus(n) \cap LookedBack(w)
  OBVIOUS
<1>15. Says(result[w], A, B, C, ~opts.sampled)
  BY <1>1, <1>7, <1>10, <1>14 DEF FoundSoFar
<1>16. /\ Lacking(n) \cap (P \ D) = IF id \in Lacking(n) THEN A \cup {id} ELSE A
       /\ Differing(n) \cap (P \ D) = IF id \in Differing(n) THEN B \cup {id} ELSE B
       /\ id \notin A /\ id \notin B
  BY <1>7, <1>8, <1>14, LookedOneUp
<1>17. /\ A \in SUBSET IDs /\ B \in SUBSET IDs
       /\ ~opts.sampled => (\A x \in A : x < id) /\ (\A x \in B : x < id)
  BY <1>8, <1>11, <1>14, DocumentSets
<1>18. result[w].missing \in Nat /\ result[w].missingSample \in Seq(IDs)
       /\ result[w].different \in Nat /\ result[w].diffSample \in Seq(IDs)
  BY <1>2 DEF DataResult
<1>19. /\ Says(result'[w], Lacking(n) \cap (P \ D), Differing(n) \cap (P \ D), C, ~opts.sampled)
       /\ result'[w].srcCount = result[w].srcCount /\ result'[w].tgtCount = result[w].tgtCount
  <2>1. CASE Compare(w) /\ tgt[n][id] = scan[w].version
    <3>1. result'[w] = result[w] /\ tgt[n][id] # NoDoc
      BY <1>2, <1>4, <2>1 DEF Compare, Processed
    <3>2. src[n][id] = tgt[n][id]
      <4>1. LookupSound(w) /\ n # NoTask
        BY VerifierAssumption DEF Covered, NoTask
      <4>2. touched[n] = {}
        BY UndisturbedBefore DEF WorkerStep, Undisturbed
      <4> QED BY <1>3, <1>4, <2>1, <4>1, <4>2 DEF LookupSound, Delivered
    <3>3. id \notin Lacking(n) /\ id \notin Differing(n)
      BY <1>5, <3>1, <3>2 DEF Lacking, Differing, Present, InSync
    <3> QED BY <1>15, <1>16, <3>1, <3>3
  <2>2. CASE Compare(w) /\ tgt[n][id] # scan[w].version
    <3>1. /\ result'[w] = WithDifferent(result[w], id) /\ tgt[n][id] # NoDoc
      BY <1>2, <1>4, <2>2 DEF Compare, Processed
    <3>2. src[n][id] # tgt[n][id]
      <4>1. LookupSound(w) /\ n # NoTask
        BY VerifierAssumption DEF Covered, NoTask
      <4>2. touched[n] = {}
        BY UndisturbedBefore DEF WorkerStep, Undisturbed
      <4> QED BY <1>3, <1>4, <2>2, <4>1, <4>2 DEF LookupSound, Delivered
    <3>3. id \notin Lacking(n) /\ id \in Differing(n)
      BY <1>5, <3>1, <3>2 DEF Lacking, Differing, Present, InSync
    <3>4. PICK s : s = Keep(result[w].diffSample, id, SampleCap)
      OBVIOUS
    <3>5. result'[w] = [result[w] EXCEPT !.different = result[w].different + 1, !.diffSample = s]
      BY <3>1, <3>4 DEF WithDifferent
    <3>6. /\ result'[w].different = result[w].different + 1 /\ result'[w].diffSample = s
          /\ \A f \in {"missing", "extra", "missingSample", "extraSample", "errors",
                       "srcCount", "tgtCount"} : result'[w][f] = result[w][f]
      BY <1>2, <3>5 DEF DataResult
    <3>7. Tells(result[w].different + 1, s, B \cup {id}, SampleCap, ~opts.sampled)
      BY <1>2, <1>5, <1>15, <1>16, <1>17, <1>18, <3>4, TellsMore DEF Says
    <3> QED BY <1>15, <1>16, <3>3, <3>6, <3>7 DEF Says
  <2>3. CASE Missing(w)
    <3>1. result'[w] = WithMissing(result[w], id) /\ tgt[n][id] = NoDoc
      BY <1>2, <1>4, <2>3, Noted DEF Missing, Processed, Fails
    <3>3. id \in Lacking(n) /\ id \notin Differing(n)
      BY <1>5, <3>1 DEF Lacking, Differing, Present
    <3>4. PICK s : s = Keep(result[w].missingSample, id, SampleCap)
      OBVIOUS
    <3>5. result'[w] = [result[w] EXCEPT !.missing = result[w].missing + 1, !.missingSample = s]
      BY <3>1, <3>4 DEF WithMissing
    <3>6. /\ result'[w].missing = result[w].missing + 1 /\ result'[w].missingSample = s
          /\ \A f \in {"different", "extra", "diffSample", "extraSample", "errors",
                       "srcCount", "tgtCount"} : result'[w][f] = result[w][f]
      BY <1>2, <3>5 DEF DataResult
    <3>7. Tells(result[w].missing + 1, s, A \cup {id}, SampleCap, ~opts.sampled)
      BY <1>2, <1>5, <1>15, <1>16, <1>17, <1>18, <3>4, TellsMore DEF Says
    <3> QED BY <1>15, <1>16, <3>3, <3>6, <3>7 DEF Says
  <2> QED BY <1>4, <2>1, <2>2, <2>3
<1>20. FoundSoFar(w)'
  BY <1>1, <1>10, <1>14, <1>19, SameDifference DEF FoundSoFar
<1>21. InHandIsNext(w)' /\ CountsRight(w)'
  BY <1>1, <1>3, <1>19, CountsKept DEF InHandIsNext
<1> QED BY <1>13, <1>20, <1>21

LEMMA LookupSourceExact ==
  ASSUME Types, NEW w \in Workers, LookupSource(w),
         Exact(w), NEW n \in NS, task[w] = n, Undisturbed(n)', ~opts.dryRun
  PROVE  CountsRight(w)' /\ InHandIsNext(w)' /\ GoesUp(w)' /\ FoundSoFar(w)'
<1>1. /\ UNCHANGED <<src, tgt, opts, task, scan>>
      /\ CountsRight(w) /\ InHandIsNext(w) /\ GoesUp(w) /\ FoundSoFar(w)
  BY ExactBefore DEF WorkerStep, LookupSource, Read, kept
<1>2. /\ result \in [Workers -> DataResult] /\ result[w] \in DataResult
      /\ IDs \subseteq Nat /\ ExtraCap \in Nat
  BY CheckpointAssumption, VerifierAssumption DEF Types, TypeOK
<1>3. /\ pc[w] = "findRev" /\ pc'[w] = "nextRev"
  BY DEF LookupSource, At, Goto, Types, TypeOK
<1>4. PICK id : id = scan[w].id
  OBVIOUS
<1>5. /\ id \in Present(tgt, n) \ scan[w].range /\ id \in IDs /\ opts.bidirectional
      /\ \A x \in scan[w].range : id < x
  BY <1>1, <1>3, <1>4 DEF InHandIsNext, Present
<1>7. PICK P, L, D : P = Present(tgt, n) /\ L = ToLookBack(w) /\ D = L \ {id}
  OBVIOUS
<1>8. L \in SUBSET P /\ id \in L
  BY <1>3, <1>4, <1>5, <1>7 DEF ToLookBack, Deliverable
<1>9. ToLookBack(w)' = D /\ ToLookUp(w)' = ToLookUp(w)
  BY <1>1, <1>3, <1>4, <1>5, <1>7
  DEF ToLookUp, ToLookBack, Deliverable, Present, ForwardLabels
<1>10. LookedBack(w) = P \ L /\ LookedBack(w)' = P \ D /\ LookedUp(w)' = LookedUp(w)
  BY <1>1, <1>7, <1>9, SameDifference DEF LookedUp, LookedBack
<1>11. \A x \in P \ L, y \in L : x < y
  BY <1>1, <1>7, <1>10 DEF GoesUp
<1>12. \A x \in P \ D, y \in D : x < y
  <2>1. \A y \in D : id < y
    BY <1>3, <1>4, <1>5, <1>7 DEF ToLookBack, Deliverable
  <2> QED BY <1>7, <1>8, <1>11, <2>1
<1>13. GoesUp(w)'
  BY <1>1, <1>9, <1>10, <1>12 DEF GoesUp
<1>14. PICK A, B, C : /\ A = Lacking(n) \cap LookedUp(w) /\ B = Differing(n) \cap LookedUp(w)
                      /\ C = Surplus(n) \cap (P \ L)
  OBVIOUS
<1>15. Says(result[w], A, B, C, ~opts.sampled)
  BY <1>1, <1>7, <1>10, <1>14 DEF FoundSoFar
<1>16. /\ Surplus(n) \cap (P \ D) = IF id \in Surplus(n) THEN C \cup {id} ELSE C
       /\ id \notin C
  BY <1>7, <1>8, <1>14, LookedOneUp
<1>17. C \in SUBSET IDs /\ \A x \in C : x < id
  BY <1>8, <1>11, <1>14, DocumentSets
<1>18. result[w].extra \in Nat /\ result[w].extraSample \in Seq(IDs)
  BY <1>2 DEF DataResult
<1>19. /\ Says(result'[w], A, B, Surplus(n) \cap (P \ D), ~opts.sampled)
       /\ result'[w].srcCount = result[w].srcCount /\ result'[w].tgtCount = result[w].tgtCount
  <2>1. CASE src[n][id] # NoDoc
    <3>1. result' = result
      BY <1>4, <2>1, Noted DEF LookupSource, Fails
    <3>2. id \notin Surplus(n)
      BY <1>5, <2>1 DEF Surplus, Present
    <3> QED BY <1>15, <1>16, <3>1, <3>2
  <2>2. CASE src[n][id] = NoDoc
    <3>1. result'[w] = WithExtra(result[w], id)
      BY <1>2, <1>4, <2>2, Noted DEF LookupSource, Fails
    <3>2. id \in Surplus(n)
      BY <1>5, <2>2 DEF Surplus, Present
    <3>3. PICK s : s = Keep(result[w].extraSample, id, ExtraCap)
      OBVIOUS
    <3>4. result'[w] = [result[w] EXCEPT !.extra = result[w].extra + 1, !.extraSample = s]
      BY <3>1, <3>3 DEF WithExtra
    <3>5. /\ result'[w].extra = result[w].extra + 1 /\ result'[w].extraSample = s
          /\ \A f \in {"missing", "different", "missingSample", "diffSample", "errors",
                       "srcCount", "tgtCount"} : result'[w][f] = result[w][f]
      BY <1>2, <3>4 DEF DataResult
    <3>6. Tells(result[w].extra + 1, s, C \cup {id}, ExtraCap, TRUE)
      BY <1>2, <1>5, <1>15, <1>16, <1>17, <1>18, <3>3, TellsMore DEF Says
    <3> QED BY <1>15, <1>16, <3>2, <3>5, <3>6 DEF Says
  <2> QED BY <2>1, <2>2
<1>20. FoundSoFar(w)'
  BY <1>1, <1>10, <1>14, <1>19, SameDifference DEF FoundSoFar
<1>21. InHandIsNext(w)' /\ CountsRight(w)'
  BY <1>1, <1>3, <1>5, <1>19, CountsKept DEF InHandIsNext
<1> QED BY <1>13, <1>20, <1>21

(* A read that fails for good takes away the premise.                      *)
LEMMA LosingDisturbs ==
  ASSUME Types, NEW w \in Workers, NEW n \in NS, task[w] = n,
         \/ OpenForwardFails(w) \/ SkipForward(w) \/ OpenReverseFails(w) \/ SkipReverse(w)
  PROVE  ~Undisturbed(n)'
<1>1. Note(w, "lost")
  BY DEF OpenForwardFails, SkipForward, OpenReverseFails, SkipReverse, Fails
<1> QED BY <1>1, Noted

LEMMA OwnExact ==
  ASSUME Types, Covered, NEW w \in Workers, WorkerStep(w), Exact(w)
  PROVE  Exact(w)'
<1>1. CASE Exit(w) \/ Publish(w)
  <2>1. task'[w] = NoTask
    BY <1>1 DEF Exit, Publish, kept, At, Types, TypeOK, InHand
  <2> QED BY <2>1 DEF Exact
<1>2. CASE Take(w)
  <2>1. result'[w] = NewResult /\ pc'[w] = "countSrc"
    BY <1>2 DEF Take, Goto, Types, TypeOK
  <2>2. LookedUp(w)' = {} /\ LookedBack(w)' = {}
    BY <2>1 DEF LookedUp, LookedBack, ToLookUp, ToLookBack
  <2>3. opts' = opts /\ opts.sampled \in BOOLEAN /\ SampleCap \in Nat /\ ExtraCap \in Nat
    BY <1>2, VerifierAssumption DEF Take, callVars, Types, TypeOK, OptionSet
  <2>4. Says(NewResult, {}, {}, {}, ~opts.sampled)
    BY <2>3, TellsNothing DEF Says, NewResult
  <2>5. FoundSoFar(w)'
    BY <2>1, <2>2, <2>3, <2>4 DEF FoundSoFar
  <2>6. CountsRight(w)' /\ InHandIsNext(w)' /\ GoesUp(w)'
    BY <2>1, <2>2 DEF CountsRight, InHandIsNext, GoesUp
  <2> QED BY <2>5, <2>6 DEF Exact
<1>3. CASE ~(Take(w) \/ Exit(w) \/ Publish(w))
  <2> SUFFICES ASSUME task'[w] # NoTask, ~opts'.dryRun, Undisturbed(task[w])'
               PROVE  CountsRight(w)' /\ InHandIsNext(w)' /\ GoesUp(w)' /\ FoundSoFar(w)'
    BY DEF Exact
  <2>1. task' = task /\ opts' = opts
    BY <1>3, WorkIsOwn, WorkerMovesOnly DEF OwnWork, UpdateProgress, OnlyMoves
  <2>2. PICK n \in NS : task[w] = n /\ task'[w] = n
    BY <2>1 DEF Types, TypeOK
  <2>3. Undisturbed(n)' /\ ~opts.dryRun
    BY <2>1, <2>2
  <2> QED BY <1>3, <2>2, <2>3, CountExact, PausingExact, OpeningExact, EndingExact,
             DeliveryExact, CompareExact, LookupSourceExact, LosingDisturbs
          DEF WorkerStep
<1> QED BY <1>1, <1>2, <1>3

(* What the entry of n says once it is the difference.                     *)
IsDifference(r, n) ==
    /\ r.srcCount = Cardinality(Present(src, n))
    /\ r.tgtCount = Cardinality(Present(tgt, n))
    /\ Says(r, Lacking(n), Differing(n), Surplus(n), ~opts.sampled)
    /\ r.progressPct = 0
    /\ r.passed <=> CountMatch(r) /\ Lacking(n) \cup Differing(n) \cup Surplus(n) = {}

LEMMA PublishedIsDifference ==
  ASSUME Types, NoPctLeft, NEW w \in Workers, Publish(w), Exact(w),
         NEW n \in NS, task[w] = n, Undisturbed(n), ~opts.dryRun
  PROVE  IsDifference(rpt'[n], n)
<1>1. pc[w] = "publish" /\ n # NoTask
  BY VerifierAssumption DEF Publish, At, NoTask
<1>2. CountsRight(w) /\ FoundSoFar(w)
  BY <1>1 DEF Exact
<1>3. result[w] \in DataResult /\ rpt \in [NS -> DataResult \cup {NoResult}]
  BY DEF Types, TypeOK
<1>4. LookedUp(w) = Present(src, n) /\ LookedBack(w) = Present(tgt, n)
  BY <1>1 DEF LookedUp, LookedBack, ToLookUp, ToLookBack, ForwardLabels
<1>5. /\ Lacking(n) \cap Present(src, n) = Lacking(n)
      /\ Differing(n) \cap Present(src, n) = Differing(n)
      /\ Surplus(n) \cap Present(tgt, n) = Surplus(n)
  BY DEF Lacking, Differing, Surplus
<1>6. Says(result[w], Lacking(n), Differing(n), Surplus(n), ~opts.sampled)
  BY <1>2, <1>4, <1>5 DEF FoundSoFar
<1>7. PICK pass : pass = (opts.dryRun \/ Passes(result[w]))
  OBVIOUS
<1>8. rpt'[n] = [result[w] EXCEPT !.passed = pass]
  BY <1>3, <1>7 DEF Publish
<1>9. /\ rpt'[n].passed = pass
      /\ rpt'[n].progressPct = 0
      /\ \A f \in {"srcCount", "tgtCount", "missing", "different", "extra", "missingSample",
                   "diffSample", "extraSample", "errors"} : rpt'[n][f] = result[w][f]
  BY <1>3, <1>8 DEF DataResult, NoPctLeft, NoPctInHand
<1>10. Says(rpt'[n], Lacking(n), Differing(n), Surplus(n), ~opts.sampled)
  BY <1>6, <1>9, SaysTheSame
<1>11. /\ rpt'[n].srcCount = Cardinality(Present(src, n))
       /\ rpt'[n].tgtCount = Cardinality(Present(tgt, n))
  BY <1>1, <1>2, <1>9 DEF CountsRight
<1>12. /\ result[w].missing = 0 <=> Lacking(n) = {}
       /\ result[w].different = 0 <=> Differing(n) = {}
       /\ result[w].extra = 0 <=> Surplus(n) = {}
  <2>1. /\ IsFiniteSet(Lacking(n)) /\ IsFiniteSet(Differing(n)) /\ IsFiniteSet(Surplus(n))
    BY DocumentSets, VerifierAssumption, FS_Subset
  <2> QED BY <1>6, <2>1, FS_EmptySet DEF Says, Tells
<1>13. Passes(result[w])
          <=> CountMatch(rpt'[n]) /\ Lacking(n) \cup Differing(n) \cup Surplus(n) = {}
  BY <1>9, <1>12 DEF Passes, CountMatch
<1>14. rpt'[n].passed <=> Passes(result[w])
  BY <1>7, <1>9, Zenon
<1> QED BY <1>9, <1>10, <1>11, <1>13, <1>14, Zenon DEF IsDifference

(* Every verdict of an undisturbed scan is such an entry.                  *)
Differences ==
    \A n \in published : ~opts.dryRun /\ Undisturbed(n) => IsDifference(rpt[n], n)

LEMMA DifferencesReported == Types /\ Differences => ReportIsTheDifference
  BY DEF Types, TypeOK, Differences, IsDifference, Says, Undisturbed, FullVerdict,
         ReportIsTheDifference

LEMMA WorkerDifferences ==
  ASSUME Types, Placed, NoPctLeft, NEW w \in Workers, WorkerStep(w), Differences, Exact(w)
  PROVE  Differences'
<1>1. OnlyMoves(w)
  BY WorkerMovesOnly
<1>2. ASSUME NEW n \in published, ~opts.dryRun, Undisturbed(n)'
      PROVE  rpt'[n] = rpt[n] /\ IsDifference(rpt[n], n)
  <2>1. n \in NS \ {task[w]}
    BY DEF Placed, Types, TypeOK
  <2>2. Undisturbed(n)
    BY <1>2, <2>1, UndisturbedBefore
  <2>3. rpt'[n] = rpt[n]
    BY <2>1, WorkIsOwn DEF OwnWork, Take, Exit, Publish, UpdateProgress, kept, Types, TypeOK
  <2> QED BY <1>2, <2>2, <2>3 DEF Differences
<1>3. ASSUME NEW n \in published' \ published, ~opts.dryRun, Undisturbed(n)'
      PROVE  IsDifference(rpt'[n], n)
  <2>1. Publish(w) /\ n = task[w]
    BY <1>3, WorkIsOwn DEF OwnWork, Take, Exit, Publish, UpdateProgress, kept
  <2>2. n \in NS
    BY <2>1 DEF Publish, At, Types, TypeOK, InHand
  <2>3. Undisturbed(n)
    BY <1>3, <2>2, UndisturbedBefore
  <2> QED BY <1>3, <2>1, <2>2, <2>3, PublishedIsDifference
<1>4. ASSUME NEW n \in published', ~opts.dryRun, Undisturbed(n)'
      PROVE  IsDifference(rpt'[n], n)
  BY <1>2, <1>3, <1>4
<1>5. UNCHANGED <<src, tgt, opts>>
  BY <1>1 DEF OnlyMoves
<1>6. ASSUME NEW n \in published', IsDifference(rpt'[n], n)
      PROVE  IsDifference(rpt[n], n)'
  BY <1>5, <1>6, SameDifference DEF IsDifference
<1> QED BY <1>4, <1>5, <1>6 DEF Differences

LEMMA WorkerExact ==
  ASSUME Types, Placed, Covered, NEW w \in Workers, WorkerStep(w),
         \A v \in Workers : Exact(v)
  PROVE  \A v \in Workers : Exact(v)'
<1>1. Exact(w)'
  BY OwnExact
<1>2. ASSUME NEW v \in Workers \ {w} PROVE Exact(v)'
  <2>1. task[v] # NoTask => task[v] \in NS \ {task[w]}
    BY DEF Types, TypeOK, Placed
  <2>2. /\ pc'[v] = pc[v] /\ task'[v] = task[v] /\ scan'[v] = scan[v]
        /\ result'[v] = result[v]
        /\ UNCHANGED <<src, tgt, touched, opts>>
        /\ task[v] # NoTask => caveat'[task[v]] = caveat[task[v]]
    BY <2>1, WorkerMovesOnly DEF OnlyMoves
  <2>3. ToLookUp(v)' = ToLookUp(v) /\ ToLookBack(v)' = ToLookBack(v)
    BY <2>2 DEF ToLookUp, ToLookBack, Deliverable, Present
  <2> SUFFICES ASSUME task[v] # NoTask, ~opts.dryRun, Undisturbed(task[v])'
               PROVE  CountsRight(v)' /\ InHandIsNext(v)' /\ GoesUp(v)' /\ FoundSoFar(v)'
    BY <2>2 DEF Exact
  <2>4. PICK n \in NS : task[v] = n
    BY DEF Types, TypeOK
  <2>5. Undisturbed(n)
    BY <2>2, <2>4 DEF Undisturbed
  <2>6. CountsRight(v) /\ InHandIsNext(v) /\ GoesUp(v) /\ FoundSoFar(v)
    BY <2>4, <2>5 DEF Exact
  <2>7. CountsRight(v)' /\ InHandIsNext(v)'
    BY <2>2, <2>6 DEF CountsRight, InHandIsNext, Present
  <2> QED BY <2>2, <2>3, <2>4, <2>6, <2>7, KeptExact
<1> QED BY <1>1, <1>2

AllExact == Differences /\ \A w \in Workers : Exact(w)

LEMMA FreshExact == ASSUME FreshCall PROVE AllExact'
  BY DEF FreshCall, AllExact, Differences, Exact

(* A document that changes takes its namespace out; the others are as      *)
(* they were.                                                              *)
LEMMA ClusterExact ==
  ASSUME Types, AllExact, NEW n \in NS, NEW id \in IDs,
         \/ \E v \in Versions \cup {NoDoc} : SourceWrite(n, id, v)
         \/ Replicate(n, id)
  PROVE  AllExact'
<1>1. /\ touched' = [touched EXCEPT ![n] = @ \cup {id}]
      /\ UNCHANGED <<opts, task, scan, result, pc, rpt, published, caveat>>
  BY DEF SourceWrite, Replicate, Writes, allCpVars, callVars
<1>2. /\ src \in [NS -> [IDs -> Versions \cup {NoDoc}]]
      /\ tgt \in [NS -> [IDs -> Versions \cup {NoDoc}]]
      /\ touched \in [NS -> SUBSET IDs]
  BY DEF Types, TypeOK, Collections
<1>3. ASSUME NEW m \in NS, Undisturbed(m)'
      PROVE  Undisturbed(m) /\ src'[m] = src[m] /\ tgt'[m] = tgt[m]
  <2>1. m # n
    BY <1>1, <1>2, <1>3 DEF Undisturbed
  <2> QED BY <1>1, <1>2, <1>3, <2>1 DEF SourceWrite, Replicate, Undisturbed
<1>4. ASSUME NEW m \in NS, src'[m] = src[m], tgt'[m] = tgt[m]
      PROVE  /\ Present(src, m)' = Present(src, m) /\ Present(tgt, m)' = Present(tgt, m)
             /\ Lacking(m)' = Lacking(m) /\ Differing(m)' = Differing(m)
             /\ Surplus(m)' = Surplus(m)
  BY <1>1, <1>4 DEF Present, Lacking, Differing, Surplus, InSync
<1>5. Differences'
  <2> SUFFICES ASSUME NEW m \in published, ~opts.dryRun, Undisturbed(m)'
               PROVE  IsDifference(rpt[m], m)'
    BY <1>1 DEF Differences
  <2>1. m \in NS
    BY DEF Types, TypeOK
  <2>2. Undisturbed(m) /\ src'[m] = src[m] /\ tgt'[m] = tgt[m]
    BY <1>3, <2>1
  <2>3. IsDifference(rpt[m], m)
    BY <2>2 DEF AllExact, Differences
  <2> QED BY <1>1, <1>4, <2>1, <2>2, <2>3 DEF IsDifference
<1>6. ASSUME NEW w \in Workers PROVE Exact(w)'
  <2> SUFFICES ASSUME task[w] # NoTask, ~opts.dryRun, Undisturbed(task[w])'
               PROVE  CountsRight(w)' /\ InHandIsNext(w)' /\ GoesUp(w)' /\ FoundSoFar(w)'
    BY <1>1 DEF Exact
  <2>1. PICK m \in NS : task[w] = m /\ task'[w] = m
    BY <1>1 DEF Types, TypeOK
  <2>2. Undisturbed(m)'
    BY <1>1, <2>1 DEF Undisturbed
  <2>3. Undisturbed(m) /\ src'[m] = src[m] /\ tgt'[m] = tgt[m]
    BY <1>3, <2>2
  <2>4. CountsRight(w) /\ InHandIsNext(w) /\ GoesUp(w) /\ FoundSoFar(w)
    BY <2>1, <2>3 DEF AllExact, Exact
  <2>5. ToLookUp(w)' = ToLookUp(w) /\ ToLookBack(w)' = ToLookBack(w)
    BY <1>1, <2>1, <2>3 DEF ToLookUp, ToLookBack, Deliverable, Present
  <2>6. LookedUp(w)' = LookedUp(w) /\ LookedBack(w)' = LookedBack(w)
    BY <2>1, <2>3, <2>5, <1>4 DEF LookedUp, LookedBack
  <2>7. CountsRight(w)' /\ InHandIsNext(w)'
    BY <1>1, <2>1, <2>3, <2>4 DEF CountsRight, InHandIsNext, Present
  <2>8. GoesUp(w)'
    BY <1>1, <2>4, <2>5, <2>6 DEF GoesUp
  <2>9. FoundSoFar(w)'
    BY <1>1, <2>1, <2>3, <2>4, <2>6, <1>4 DEF FoundSoFar
  <2> QED BY <2>7, <2>8, <2>9
<1> QED BY <1>5, <1>6 DEF AllExact

LEMMA NextExact ==
  Types /\ Placed /\ Gone /\ NoPctLeft /\ Covered /\ AllExact /\ [Next]_vars => AllExact'
<1> SUFFICES ASSUME Types, Placed, Gone, NoPctLeft, Covered, AllExact, [Next]_vars
             PROVE  AllExact'
  OBVIOUS
<1>1. ASSUME NEW w \in Workers, SaveCheckpointPanics(w) \/ BarUpdatePanics(w)
      PROVE  AllExact'
  BY <1>1, FreshExact DEF SaveCheckpointPanics, BarUpdatePanics, ProcessEnds
<1>2. CASE Crash \/ NextCall
  BY <1>2, FreshExact DEF Crash, NextCall, ProcessEnds
<1>3. CASE Restart
  BY <1>3 DEF Restart, Boot, Gone, AllExact, Differences, Exact
<1>4. CASE Return \/ UNCHANGED vars
  <2>1. UNCHANGED <<src, tgt, touched, opts, pc, task, scan, result, rpt, published, caveat>>
    BY <1>4 DEF Return, vars, allCpVars, dbVars, callVars
  <2>2. Differences'
    BY <2>1, SameDifference DEF AllExact, Differences, IsDifference, Undisturbed
  <2>3. ASSUME NEW w \in Workers PROVE Exact(w)'
    <3>1. ToLookUp(w)' = ToLookUp(w) /\ ToLookBack(w)' = ToLookBack(w)
      BY <2>1 DEF ToLookUp, ToLookBack, Deliverable, Present
    <3>2. LookedUp(w)' = LookedUp(w) /\ LookedBack(w)' = LookedBack(w)
      BY <2>1, <3>1, SameDifference DEF LookedUp, LookedBack
    <3>3. FoundSoFar(w)' = FoundSoFar(w)
      BY <2>1, <3>2, SameDifference DEF FoundSoFar
    <3> QED BY <2>1, <3>1, <3>2, <3>3
            DEF AllExact, Exact, Undisturbed, CountsRight, InHandIsNext, GoesUp, Present
  <2> QED BY <2>2, <2>3 DEF AllExact
<1>5. ASSUME NEW w \in Workers, WorkerStep(w) PROVE AllExact'
  BY <1>5, WorkerDifferences, WorkerExact DEF AllExact
<1> QED BY <1>1, <1>2, <1>3, <1>4, <1>5, ClusterExact DEF Next, Stopped

(* The report of a complete scan of data at rest is the difference of the  *)
(* two collections: exact counts, a pass just when nothing differs, and    *)
(* samples that hold, up to the cap, distinct documents of the right kind  *)
(* - the first ones, in order, unless the call samples - for any number of *)
(* workers, namespaces and documents, whatever happens to the others.      *)
THEOREM ReportIsExact == Spec => []ReportIsTheDifference
<1>1. Init => Gone /\ Covered /\ NoPctLeft /\ AllExact
  BY DEF Init, Gone, Covered, PassCoversExamined, LookupSound, NoPctLeft, NoPctInHand,
         NewResult, AllExact, Differences, Exact
<1>2. Types /\ AllExact => ReportIsTheDifference
  BY DifferencesReported DEF AllExact
<1> QED BY InitTypes, NextTypes, InitPlaced, NextPlaced, NextPct, NextGone, NextCovered,
           NextExact, <1>1, <1>2, PTL DEF Spec

(***************************************************************************)
(* What RepairAll starts from.  Repair takes a report at its word: a       *)
(* namespace has passed when its collections are the same, and its samples *)
(* hold, up to the cap, the missing and the different documents - Reports  *)
(* there.  The verifier's result, its samples read as sets, is such a      *)
(* report.                                                                 *)
(***************************************************************************)
Sampled(ids) ==
    {s \in SUBSET ids :
        Cardinality(s) = IF Cardinality(ids) < SampleCap THEN Cardinality(ids) ELSE SampleCap}

RepairCanRely ==
    \A n \in NS : FullVerdict(n) /\ Undisturbed(n) =>
        /\ rpt[n].passed <=> src[n] = tgt[n]
        /\ Held(rpt[n].missingSample) \in Sampled(Lacking(n))
        /\ Held(rpt[n].diffSample) \in Sampled(Differing(n))

LEMMA HeldIsSampled ==
  ASSUME NEW count \in Nat, NEW sample \in Seq(IDs), NEW ids \in SUBSET IDs,
         NEW sorted \in BOOLEAN, Tells(count, sample, ids, SampleCap, sorted)
  PROVE  Held(sample) \in Sampled(ids)
  BY HeldOnce DEF Tells, Sampled

(* Collections of one size, of which the second lacks nothing.             *)
LEMMA SameCollections ==
  ASSUME Types, NEW n \in NS
  PROVE  Cardinality(Present(src, n)) = Cardinality(Present(tgt, n))
           /\ Lacking(n) \cup Differing(n) \cup Surplus(n) = {}
             <=> src[n] = tgt[n]
<1>1. src[n] \in [IDs -> Versions \cup {NoDoc}] /\ tgt[n] \in [IDs -> Versions \cup {NoDoc}]
  BY DEF Types, TypeOK, Collections
<1>2. CASE src[n] = tgt[n]
  <2>1. Present(src, n) = Present(tgt, n)
    BY <1>2 DEF Present
  <2> QED BY <1>2, <2>1 DEF Lacking, Differing, Surplus, InSync
<1>3. ASSUME Cardinality(Present(src, n)) = Cardinality(Present(tgt, n)),
             Lacking(n) = {}, Differing(n) = {}
      PROVE  src[n] = tgt[n]
  <2>1. IsFiniteSet(Present(tgt, n))
    BY VerifierAssumption, FS_Subset DEF Present
  <2>2. Present(src, n) = Present(tgt, n)
    BY <1>3, <2>1, FS_Subset DEF Lacking
  <2>3. ASSUME NEW id \in IDs PROVE src[n][id] = tgt[n][id]
    BY <1>3, <2>2 DEF Differing, InSync, Present
  <2> QED BY <1>1, <2>3
<1> QED BY <1>2, <1>3

LEMMA DifferencesSuitRepair ==
  Types /\ Placed /\ ReportIsTheDifference => RepairCanRely
<1> SUFFICES ASSUME Types, Placed, ReportIsTheDifference,
                    NEW n \in NS, FullVerdict(n), Undisturbed(n)
             PROVE  /\ rpt[n].passed <=> src[n] = tgt[n]
                    /\ Held(rpt[n].missingSample) \in Sampled(Lacking(n))
                    /\ Held(rpt[n].diffSample) \in Sampled(Differing(n))
  BY DEF RepairCanRely
<1>1. PICK r : r = rpt[n]
  OBVIOUS
<1>2. r \in DataResult
  <2>1. rpt[n] # NoResult
    BY DEF FullVerdict, Placed, Reported
  <2> QED BY <1>1, <2>1 DEF Types, TypeOK
<1>3. /\ r.srcCount = Cardinality(Present(src, n))
      /\ r.tgtCount = Cardinality(Present(tgt, n))
      /\ Tells(r.missing, r.missingSample, Lacking(n), SampleCap, ~opts.sampled)
      /\ Tells(r.different, r.diffSample, Differing(n), SampleCap, ~opts.sampled)
      /\ r.passed <=> CountMatch(r) /\ Lacking(n) \cup Differing(n) \cup Surplus(n) = {}
  BY <1>1 DEF ReportIsTheDifference, Undisturbed
<1>4. r.passed <=> src[n] = tgt[n]
  BY <1>3, SameCollections DEF CountMatch
<1>5. Held(r.missingSample) \in Sampled(Lacking(n))
  BY <1>2, <1>3, DocumentSets, HeldIsSampled DEF DataResult
<1>6. Held(r.diffSample) \in Sampled(Differing(n))
  BY <1>2, <1>3, DocumentSets, HeldIsSampled DEF DataResult
<1> QED BY <1>1, <1>4, <1>5, <1>6, Zenon

(* The report of a complete scan of data at rest is one that Repair may    *)
(* start from, for as long as the data stays as it is: what RepairAll      *)
(* reads is what VerifyAllData has established.                            *)
THEOREM ReportSuitsRepair == Spec => []RepairCanRely
  BY InitTypes, NextTypes, InitPlaced, NextPlaced, ReportIsExact, DifferencesSuitRepair, PTL
     DEF Spec
=============================================================================
