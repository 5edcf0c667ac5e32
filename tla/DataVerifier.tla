---------------------------- MODULE DataVerifier ----------------------------
(***************************************************************************)
(* internal/verifier/data_verifier.go: VerifyAllData and what it calls,    *)
(* with the report it publishes to (internal/report/report.go), the        *)
(* progress bar that can panic (internal/progress/bar.go) and, by          *)
(* extension, the checkpoints (module Checkpoint).                         *)
(*                                                                         *)
(* Each goroutine takes a namespace, counts both sides, walks a cursor     *)
(* over the source looking every document up in the target, optionally     *)
(* walks the target looking every _id up in the source, and publishes a    *)
(* verdict.  Every access to a database is a step of its own: the          *)
(* databases may change, the access may fail, the process may be killed    *)
(* between any two.                                                        *)
(*                                                                         *)
(* A document is its version; DeepCompare is equality of versions.  The    *)
(* order in which the caller lists the namespaces is not fixed, so the     *)
(* task channel is the set of namespaces still in it.                      *)
(***************************************************************************)
EXTENDS Checkpoint, Sequences

CONSTANTS
    Versions,         \* what a document can be
    InitialData,      \* possible initial <<source, target>> pairs
    Options,          \* DataVerifyOptions of the first call
    LaterOptions,     \* ... of a later call or of a restarted process
    StringKeyed,      \* namespaces whose _ids are strings
    RetryCount,
    CheckpointEvery,  \* 1000 in the code
    SampleCap,        \* 50 in the code
    ExtraCap,         \* 20 in the code
    BarWidth,         \* 30 in the code
    SampleOneIn,      \* SampleRate is 1 / SampleOneIn
    MaxWrites,        \* bound: changes of the databases in a behaviour
    MaxCalls,         \* bound: calls of VerifyAllData in a behaviour
    NoResult          \* a namespace without an entry in Report.Data

NoDoc == 0            \* no document with this _id
NoTask == Free        \* the worker has no namespace
PctInf == 1000000     \* +Inf, what a division by total = 0 gives

Collections == [NS -> [IDs -> Versions \cup {NoDoc}]]
OptionSet ==
    [resume : BOOLEAN, sampled : BOOLEAN, bidirectional : BOOLEAN, dryRun : BOOLEAN]

DataResult ==
    [srcCount : Nat, tgtCount : Nat, missing : Nat, different : Nat, extra : Nat,
     missingSample : Seq(IDs), diffSample : Seq(IDs), extraSample : Seq(IDs),
     errors : Nat, progressPct : Nat, passed : BOOLEAN]

ASSUME VerifierAssumption ==
    /\ Versions \subseteq Nat \ {NoDoc}
    /\ IsFiniteSet(IDs) /\ IsFiniteSet(NS)
    /\ IsFiniteSet(Workers) /\ Workers # {}
    /\ InitialData \subseteq Collections \X Collections
    /\ Options \subseteq OptionSet
    /\ LaterOptions \subseteq OptionSet
    /\ StringKeyed \subseteq NS
    /\ RetryCount \in Nat
    /\ CheckpointEvery \in Nat \ {0}
    /\ SampleCap \in Nat
    /\ ExtraCap \in Nat
    /\ BarWidth \in Nat
    /\ SampleOneIn \in Nat \ {0}
    /\ MaxWrites \in Nat
    /\ MaxCalls \in Nat
    /\ Free \notin NS
    /\ NoResult \notin DataResult

VARIABLES
    src, tgt,    \* the two clusters
    opts,        \* options of the current call of VerifyAllData
    taskCh,      \* namespaces still in the task channel
    main,        \* "waiting" in wg.Wait() or "returned"
    task,        \* the namespace each worker verifies
    scan,        \* a worker's cursor and loop variables
    result,      \* the DataResult a worker is filling in
    rpt,         \* Report.Data
    calls,       \* calls of VerifyAllData so far
    writes,      \* changes of the databases so far
    \* observations, read by no action:
    touched,     \* documents changed on either side since the beginning
    published,   \* namespaces whose verdict this call has published
    caveat,      \* what this call's scan of a namespace ran into
    examined,    \* source documents this call has looked up in the target
    compared,    \* ... this call or any before it
    undecoded    \* source documents that were skipped as undecodable

dbVars == <<src, tgt, touched, writes>>
callVars == <<opts, main, calls>>
history == <<examined, compared, undecoded>>
kept == <<proc, crashes, callVars, task, taskCh, rpt, published>>
vars == <<allCpVars, dbVars, callVars, history, task, scan, result, taskCh,
          rpt, published, caveat>>

-----------------------------------------------------------------------------
(* Data: documents, cursors, results, the report.                          *)
Present(coll, n) == {id \in IDs : coll[n][id] # NoDoc}

(* A cursor and the loop around it: the _ids it may still deliver, the     *)
(* document in hand, the failed attempts at the current read, and the      *)
(* documents processed.                                                    *)
NewScan == [range |-> {}, id |-> NoID, version |-> NoDoc, tries |-> 0, processed |-> 0]

NewResult ==
    [srcCount |-> 0, tgtCount |-> 0, missing |-> 0, different |-> 0, extra |-> 0,
     missingSample |-> <<>>, diffSample |-> <<>>, extraSample |-> <<>>,
     errors |-> 0, progressPct |-> 0, passed |-> FALSE]

EmptyReport == [n \in NS |-> NoResult]
Reported(n) == rpt[n] # NoResult

(* Mutant of Keep: one entry more than the cap.                            *)
KeepOneMore(sample, id, cap) ==
    IF Len(sample) <= cap THEN Append(sample, id) ELSE sample

Keep(sample, id, cap) == IF Len(sample) < cap THEN Append(sample, id) ELSE sample

WithMissing(r, id) ==
    [r EXCEPT !.missing = @ + 1, !.missingSample = Keep(@, id, SampleCap)]
WithDifferent(r, id) ==
    [r EXCEPT !.different = @ + 1, !.diffSample = Keep(@, id, SampleCap)]
WithExtra(r, id) ==
    [r EXCEPT !.extra = @ + 1, !.extraSample = Keep(@, id, ExtraCap)]

CountMatch(r) == r.srcCount = r.tgtCount

(* Mutants of Passes: verdicts that forget a condition.                    *)
PassesWithMissing(r) == CountMatch(r) /\ r.different = 0 /\ r.extra = 0
PassesWithDifferent(r) == CountMatch(r) /\ r.missing = 0 /\ r.extra = 0

(* result.Passed: what the verdict of a scan is made from.                 *)
Passes(r) == CountMatch(r) /\ r.missing = 0 /\ r.different = 0 /\ r.extra = 0

Pct(processed, total) ==
    IF total = 0 THEN PctInf ELSE (processed * 100) \div total

(* The _ids that { _id: { $gt: lastID } } matches.  The checkpoint is a    *)
(* string, and $gt compares a string with nothing but strings.             *)
Beyond(n, lastID) ==
    IF n \in StringKeyed THEN {id \in IDs : id > lastID} ELSE {}

(* Mutant of Filter: a resumed scan that starts over.                      *)
FilterFromScratch(n) == IDs

(* The filter of the forward scan.                                         *)
Filter(n) ==
    IF opts.resume /\ Checkpointed(n) # NoID THEN Beyond(n, Checkpointed(n)) ELSE IDs

SampleSize(total) == IF total \div SampleOneIn < 1 THEN 1 ELSE total \div SampleOneIn

(* $sample delivers documents in no order, a sorted Find by _id.           *)
Deliverable(w, coll) == scan[w].range \cap Present(coll, task[w])
IsNext(w, coll, id, sorted) ==
    /\ id \in Deliverable(w, coll)
    /\ sorted => \A x \in Deliverable(w, coll) : id <= x

(* Mutant of After: a cursor that continues at the document it delivered.  *)
AfterInclusive(w, id, sorted) ==
    IF sorted THEN {x \in scan[w].range : x >= id} ELSE scan[w].range \ {id}

After(w, id, sorted) ==
    IF sorted THEN {x \in scan[w].range : x > id} ELSE scan[w].range \ {id}

(* Mutant of BarPanics: the bar has a head, one rune of its own.           *)
BarWithHeadPanics(processed, total) ==
    total > 0 /\ (BarWidth * processed) \div total > BarWidth - 1

(* The bar repeats a rune width - filled times: a negative count panics.   *)
BarPanics(processed, total) ==
    total > 0 /\ (BarWidth * processed) \div total > BarWidth

-----------------------------------------------------------------------------
(* Reading with retries.                                                   *)
Note(w, what) == caveat' = [caveat EXCEPT ![task[w]] = @ \cup {what}]
LastTry(w) == scan[w].tries = RetryCount
Succeeds == UNCHANGED <<faults, caveat>>
Fails(w, what) == Fault /\ Note(w, what)

(* Mutant of TryAgain: one attempt more than RetryCount + 1.               *)
TryAgainTooOften(w) ==
    /\ proc = "up"
    /\ pc[w] \in {"countSrc", "countTgt", "find"}
    /\ scan[w].tries <= RetryCount
    /\ \/ Fault
       \/ /\ pc[w] = "find"
          /\ tgt[task[w]][scan[w].id] = NoDoc
          /\ UNCHANGED faults
    /\ scan' = [scan EXCEPT ![w].tries = @ + 1]
    /\ UNCHANGED <<kept, pc, cpVars, dbVars, history, result, caveat>>

(* An attempt that is not the last one fails; for findWithRetry a document *)
(* that is not there is a failure too.                                     *)
TryAgain(w) ==
    /\ proc = "up"
    /\ pc[w] \in {"countSrc", "countTgt", "find"}
    /\ ~LastTry(w)
    /\ \/ Fault
       \/ /\ pc[w] = "find"
          /\ tgt[task[w]][scan[w].id] = NoDoc
          /\ UNCHANGED faults
    /\ scan' = [scan EXCEPT ![w].tries = @ + 1]
    /\ UNCHANGED <<kept, pc, cpVars, dbVars, history, result, caveat>>

(* Mutant of CountWithRetry: no retry, the error of any attempt is a 0.    *)
CountWithoutRetry(w, coll, n) ==
    /\ \/ n = Cardinality(Present(coll, task[w])) /\ UNCHANGED faults
       \/ n = 0 /\ Fault
    /\ UNCHANGED caveat

(* countWithRetry returns the count, or 0 when the last attempt fails.     *)
CountWithRetry(w, coll, n) ==
    \/ n = Cardinality(Present(coll, task[w])) /\ Succeeds
    \/ n = 0 /\ LastTry(w) /\ Fails(w, "gaveUp")

Read(w) == UNCHANGED <<kept, cpVars, dbVars>>  \* what a worker's reads leave alone

-----------------------------------------------------------------------------
(* Mutant of Take: the namespace stays in the channel.                     *)
TakeWithoutRemoving(w) ==
    /\ At(w, "idle")
    /\ \E n \in taskCh : task' = [task EXCEPT ![w] = n]
    /\ taskCh' = taskCh
    /\ result' = [result EXCEPT ![w] = NewResult]
    /\ scan' = [scan EXCEPT ![w] = NewScan]
    /\ Goto(w, "countSrc")
    /\ UNCHANGED <<proc, faults, crashes, cpVars, dbVars, callVars, history, rpt,
                   published, caveat>>

(* VerifyAllData's goroutines: for task := range taskCh.                   *)
Take(w) ==
    /\ At(w, "idle")
    /\ \E n \in taskCh :
           /\ taskCh' = taskCh \ {n}
           /\ task' = [task EXCEPT ![w] = n]
    /\ result' = [result EXCEPT ![w] = NewResult]
    /\ scan' = [scan EXCEPT ![w] = NewScan]
    /\ Goto(w, "countSrc")
    /\ UNCHANGED <<proc, faults, crashes, cpVars, dbVars, callVars, history, rpt,
                   published, caveat>>

(* The closed channel is empty: wg.Done().                                 *)
Exit(w) ==
    /\ At(w, "idle")
    /\ taskCh = {}
    /\ Goto(w, "exited")
    /\ UNCHANGED <<kept, faults, cpVars, dbVars, history, scan, result, caveat>>

CountSource(w) ==
    /\ At(w, "countSrc")
    /\ \E n \in 0 .. Cardinality(IDs) :
           /\ CountWithRetry(w, src, n)
           /\ result' = [result EXCEPT ![w].srcCount = n]
    /\ scan' = [scan EXCEPT ![w] = NewScan]
    /\ Goto(w, "countTgt")
    /\ Read(w) /\ UNCHANGED history

(* A dry run stops here; its verdict is set when it is published.          *)
CountTarget(w) ==
    /\ At(w, "countTgt")
    /\ \E n \in 0 .. Cardinality(IDs) :
           /\ CountWithRetry(w, tgt, n)
           /\ result' = [result EXCEPT ![w].tgtCount = n]
    /\ scan' = [scan EXCEPT ![w] = NewScan]
    /\ Goto(w, IF opts.dryRun THEN "publish" ELSE "open")
    /\ Read(w) /\ UNCHANGED history

-----------------------------------------------------------------------------
(* processSrcToTgt.  After the forward scan: the reverse one, or the       *)
(* verdict.                                                                *)
EndForward == IF opts.bidirectional THEN "openRev" ELSE "publish"

(* LoadCheckpoint takes cpMu; then the cursor is opened.  $sample ignores  *)
(* the filter.                                                             *)
OpenForward(w) ==
    /\ At(w, "open")
    /\ opts.resume => cpMu = Free
    /\ \E range \in SUBSET IDs :
           /\ IF opts.sampled
              THEN LET all  == Present(src, task[w])
                       size == SampleSize(result[w].srcCount)
                   IN  /\ range \subseteq all
                       /\ \/ Cardinality(range) = size
                          \/ range = all /\ Cardinality(all) < size
              ELSE range = Filter(task[w])
           /\ scan' = [scan EXCEPT ![w] = [NewScan EXCEPT !.range = range]]
           /\ IF range = IDs THEN UNCHANGED caveat ELSE Note(w, "partial")
    /\ Goto(w, "next")
    /\ Read(w) /\ UNCHANGED <<faults, history, result>>

(* Find or Aggregate fails: recorded in Errors, and the scan is skipped.   *)
OpenForwardFails(w) ==
    /\ At(w, "open")
    /\ opts.resume => cpMu = Free
    /\ Fails(w, "lost")
    /\ result' = [result EXCEPT ![w].errors = @ + 1]
    /\ Goto(w, EndForward)
    /\ Read(w) /\ UNCHANGED <<history, scan>>

(* Mutant of NextForward: a cursor without SetSort.                        *)
NextForwardUnsorted(w) ==
    /\ At(w, "next")
    /\ \E id \in IDs :
           /\ IsNext(w, src, id, FALSE)
           /\ scan' = [scan EXCEPT
                  ![w].range = After(w, id, FALSE),
                  ![w].id = id,
                  ![w].version = src[task[w]][id],
                  ![w].tries = 0]
    /\ Goto(w, "find")
    /\ Read(w) /\ UNCHANGED <<faults, history, result, caveat>>

(* cur.Next and Decode deliver the next document.                          *)
NextForward(w) ==
    /\ At(w, "next")
    /\ \E id \in IDs :
           /\ IsNext(w, src, id, ~opts.sampled)
           /\ scan' = [scan EXCEPT
                  ![w].range = After(w, id, ~opts.sampled),
                  ![w].id = id,
                  ![w].version = src[task[w]][id],
                  ![w].tries = 0]
    /\ Goto(w, "find")
    /\ Read(w) /\ UNCHANGED <<faults, history, result, caveat>>

(* The document cannot be decoded: continue.                               *)
SkipForward(w) ==
    /\ At(w, "next")
    /\ \E id \in IDs :
           /\ IsNext(w, src, id, ~opts.sampled)
           /\ scan' = [scan EXCEPT ![w].range = After(w, id, ~opts.sampled)]
           /\ undecoded' = [undecoded EXCEPT ![task[w]] = @ \cup {id}]
    /\ Fails(w, "lost")
    /\ Read(w) /\ UNCHANGED <<pc, examined, compared, result>>

(* cur.Next returns FALSE, at the end of the collection or on an error:    *)
(* cur.Err() is never asked which.                                         *)
CursorEnds(w, coll) ==
    \/ Deliverable(w, coll) = {} /\ Succeeds
    \/ Fails(w, "lost")

EndOfForward(w) ==
    /\ At(w, "next")
    /\ CursorEnds(w, src)
    /\ Goto(w, EndForward)
    /\ Read(w) /\ UNCHANGED <<history, scan, result>>

(* The end of the loop body: count, draw the bar, and every 1000 documents *)
(* save a checkpoint.                                                      *)
Processed(w, r) ==
    LET p == scan[w].processed + 1
    IN  /\ ~BarPanics(p, r.srcCount)
        /\ result' = [result EXCEPT ![w] = r]
        /\ scan' = [scan EXCEPT ![w].processed = p]
        /\ examined' = [examined EXCEPT ![task[w]] = @ \cup {scan[w].id}]
        /\ compared' = [compared EXCEPT ![task[w]] = @ \cup {scan[w].id}]
        /\ Goto(w, IF p % CheckpointEvery = 0 THEN "save" ELSE "next")

(* findWithRetry finds the document, and DeepCompare compares the version  *)
(* found with the one the cursor delivered.                                *)
Compare(w) ==
    /\ At(w, "find")
    /\ LET found == tgt[task[w]][scan[w].id]
       IN  /\ found # NoDoc
           /\ Processed(w, IF found = scan[w].version
                           THEN result[w] ELSE WithDifferent(result[w], scan[w].id))
    /\ Read(w) /\ UNCHANGED <<faults, undecoded, caveat>>

(* The last attempt finds nothing, or fails: missing either way.           *)
Missing(w) ==
    /\ At(w, "find")
    /\ LastTry(w)
    /\ \/ tgt[task[w]][scan[w].id] = NoDoc /\ Succeeds
       \/ Fails(w, "gaveUp")
    /\ Processed(w, WithMissing(result[w], scan[w].id))
    /\ Read(w) /\ UNCHANGED undecoded

(* Mutant of Save: ns is a variable that all goroutines share.             *)
SaveSharedNamespace(w) ==
    /\ \E v \in Workers :
           task[v] # NoTask /\ SaveCheckpoint(w, task[v], scan[w].id)
    /\ UNCHANGED <<dbVars, callVars, history, task, scan, result, taskCh, rpt,
                   published, caveat>>

(* SaveCheckpoint(ns, docID), by the operations of Checkpoint.             *)
Save(w) ==
    /\ SaveCheckpoint(w, task[w], scan[w].id)
    /\ UNCHANGED <<dbVars, callVars, history, task, scan, result, taskCh, rpt,
                   published, caveat>>

SaveFile(w) ==
    /\ FileOps(w)
    /\ UNCHANGED <<dbVars, callVars, history, task, scan, result, taskCh, rpt,
                   published, caveat>>

(* rpt.UpdateProgress: the entry there, whatever its age, or a placeholder *)
(* that has not passed.  (The alert check, the metrics line and the rate   *)
(* limit that follow do not touch this module's state.)                    *)
UpdateProgress(w) ==
    /\ At(w, "report")
    /\ rpt' = [rpt EXCEPT ![task[w]] =
           [(IF Reported(task[w]) THEN @ ELSE NewResult)
            EXCEPT !.progressPct = Pct(scan[w].processed, result[w].srcCount)]]
    /\ Goto(w, "next")
    /\ UNCHANGED <<proc, faults, crashes, cpVars, dbVars, callVars, history, task,
                   scan, result, taskCh, published, caveat>>

-----------------------------------------------------------------------------
(* processTgtToSrc: target documents that the source does not have.        *)
OpenReverse(w) ==
    /\ At(w, "openRev")
    /\ scan' = [scan EXCEPT ![w] = [NewScan EXCEPT !.range = IDs]]
    /\ Goto(w, "nextRev")
    /\ Read(w) /\ UNCHANGED <<faults, history, result, caveat>>

(* Find fails: return, with no trace in the result.                        *)
OpenReverseFails(w) ==
    /\ At(w, "openRev")
    /\ Fails(w, "lost")
    /\ Goto(w, "publish")
    /\ Read(w) /\ UNCHANGED <<history, scan, result>>

NextReverse(w) ==
    /\ At(w, "nextRev")
    /\ \E id \in IDs :
           /\ IsNext(w, tgt, id, TRUE)
           /\ scan' = [scan EXCEPT ![w].range = After(w, id, TRUE), ![w].id = id]
    /\ Goto(w, "findRev")
    /\ Read(w) /\ UNCHANGED <<faults, history, result, caveat>>

SkipReverse(w) ==
    /\ At(w, "nextRev")
    /\ \E id \in IDs :
           /\ IsNext(w, tgt, id, TRUE)
           /\ scan' = [scan EXCEPT ![w].range = After(w, id, TRUE)]
    /\ Fails(w, "lost")
    /\ Read(w) /\ UNCHANGED <<pc, history, result>>

EndOfReverse(w) ==
    /\ At(w, "nextRev")
    /\ CursorEnds(w, tgt)
    /\ Goto(w, "publish")
    /\ Read(w) /\ UNCHANGED <<history, scan, result>>

(* One FindOne, with no retry; any error counts as extra.                  *)
LookupSource(w) ==
    /\ At(w, "findRev")
    /\ LET there == src[task[w]][scan[w].id] # NoDoc
           extra == [result EXCEPT ![w] = WithExtra(@, scan[w].id)]
       IN  \/ there /\ Succeeds /\ UNCHANGED result
           \/ ~there /\ Succeeds /\ result' = extra
           \/ Fails(w, "gaveUp") /\ result' = extra
    /\ Goto(w, "nextRev")
    /\ Read(w) /\ UNCHANGED <<history, scan>>

-----------------------------------------------------------------------------
(* The end of verifyOneCollection, and rpt.SetData.                        *)
Publish(w) ==
    /\ At(w, "publish")
    /\ rpt' = [rpt EXCEPT ![task[w]] =
           [result[w] EXCEPT !.passed = opts.dryRun \/ Passes(result[w])]]
    /\ published' = published \cup {task[w]}
    /\ task' = [task EXCEPT ![w] = NoTask]
    /\ Goto(w, "idle")
    /\ UNCHANGED <<proc, faults, crashes, cpVars, dbVars, callVars, history, scan,
                   result, taskCh, caveat>>

(* Mutant of Return: it waits for one goroutine only.                      *)
ReturnAtFirstExit ==
    /\ proc = "up"
    /\ main = "waiting"
    /\ \E w \in Workers : pc[w] = "exited"
    /\ main' = "returned"
    /\ UNCHANGED <<allCpVars, dbVars, opts, calls, history, task, scan, result,
                   taskCh, rpt, published, caveat>>

(* wg.Wait() returns.                                                      *)
Return ==
    /\ proc = "up"
    /\ main = "waiting"
    /\ \A w \in Workers : pc[w] = "exited"
    /\ main' = "returned"
    /\ UNCHANGED <<allCpVars, dbVars, opts, calls, history, task, scan, result,
                   taskCh, rpt, published, caveat>>

WorkerStep(w) ==
    \/ Take(w) \/ Exit(w) \/ CountSource(w) \/ CountTarget(w) \/ TryAgain(w)
    \/ OpenForward(w) \/ OpenForwardFails(w) \/ NextForward(w) \/ SkipForward(w)
    \/ EndOfForward(w) \/ Compare(w) \/ Missing(w)
    \/ Save(w) \/ SaveFile(w) \/ UpdateProgress(w)
    \/ OpenReverse(w) \/ OpenReverseFails(w) \/ NextReverse(w) \/ SkipReverse(w)
    \/ EndOfReverse(w) \/ LookupSource(w)
    \/ Publish(w)

-----------------------------------------------------------------------------
(* The process.  A fresh call fills the channel and starts the workers;    *)
(* the report and the checkpoints in memory outlive the call, and nothing  *)
(* in memory outlives the process.                                         *)
FreshCall ==
    /\ main' = "waiting"
    /\ taskCh' = NS
    /\ pc' = [w \in Workers |-> "idle"]
    /\ task' = [w \in Workers |-> NoTask]
    /\ scan' = [w \in Workers |-> NewScan]
    /\ result' = [w \in Workers |-> NewResult]
    /\ published' = {}
    /\ caveat' = [n \in NS |-> {}]
    /\ examined' = [n \in NS |-> {}]

ProcessEnds ==
    /\ FreshCall
    /\ rpt' = EmptyReport
    /\ UNCHANGED <<dbVars, opts, calls, compared, undecoded>>

SaveCheckpointPanics(w) == SavePanics(w) /\ ProcessEnds

(* bar.Update panics when the documents processed outgrow the count taken  *)
(* before the scan.                                                        *)
BarUpdatePanics(w) ==
    /\ At(w, "find")
    /\ BarPanics(scan[w].processed + 1, result[w].srcCount)
    /\ \/ tgt[task[w]][scan[w].id] # NoDoc /\ UNCHANGED faults
       \/ tgt[task[w]][scan[w].id] = NoDoc /\ LastTry(w) /\ UNCHANGED faults
       \/ LastTry(w) /\ Fault
    /\ Die /\ UNCHANGED crashes
    /\ ProcessEnds

Crash == Kill /\ ProcessEnds

(* The supervisor restarts the process (DESIGN.md, systemd service).       *)
Restart ==
    /\ Boot
    /\ opts' \in LaterOptions
    /\ UNCHANGED <<pc, dbVars, main, calls, history, task, scan, result, taskCh,
                   rpt, published, caveat>>

(* The caller runs another phase: VerifyAllData again, on the same report. *)
NextCall ==
    /\ proc = "up"
    /\ main = "returned"
    /\ calls < MaxCalls
    /\ calls' = calls + 1
    /\ opts' \in LaterOptions
    /\ FreshCall
    /\ UNCHANGED <<proc, faults, crashes, cpVars, dbVars, compared, undecoded, rpt>>

(* The clusters, outside the program: applications write to the source,    *)
(* and the migration copies a document to the target.                      *)
Writes(n, id) ==
    /\ writes < MaxWrites
    /\ writes' = writes + 1
    /\ touched' = [touched EXCEPT ![n] = @ \cup {id}]
    /\ UNCHANGED <<allCpVars, callVars, history, task, scan, result, taskCh, rpt,
                   published, caveat>>

SourceWrite(n, id, v) ==
    /\ Writes(n, id)
    /\ v # src[n][id]
    /\ src' = [src EXCEPT ![n][id] = v]
    /\ UNCHANGED tgt

Replicate(n, id) ==
    /\ Writes(n, id)
    /\ tgt[n][id] # src[n][id]
    /\ tgt' = [tgt EXCEPT ![n][id] = src[n][id]]
    /\ UNCHANGED src

(* The verification is over.                                               *)
Stopped == main = "returned" /\ UNCHANGED vars

Init ==
    /\ \E data \in InitialData : src = data[1] /\ tgt = data[2]
    /\ opts \in Options
    /\ proc = "up"
    /\ main = "waiting"
    /\ taskCh = NS
    /\ pc = [w \in Workers |-> "idle"]
    /\ task = [w \in Workers |-> NoTask]
    /\ scan = [w \in Workers |-> NewScan]
    /\ result = [w \in Workers |-> NewResult]
    /\ rpt = EmptyReport
    /\ cpMu = Free
    /\ cpData = EmptyMap
    /\ file = EmptyMap
    /\ faults = 0 /\ crashes = 0 /\ calls = 1 /\ writes = 0
    /\ published = {}
    /\ caveat = [n \in NS |-> {}]
    /\ touched = [n \in NS |-> {}]
    /\ examined = [n \in NS |-> {}]
    /\ compared = [n \in NS |-> {}]
    /\ undecoded = [n \in NS |-> {}]

Next ==
    \/ \E w \in Workers : WorkerStep(w) \/ SaveCheckpointPanics(w) \/ BarUpdatePanics(w)
    \/ Return \/ Crash \/ Restart \/ NextCall
    \/ \E n \in NS, id \in IDs :
           \/ \E v \in Versions \cup {NoDoc} : SourceWrite(n, id, v)
           \/ Replicate(n, id)
    \/ Stopped

Spec == Init /\ [][Next]_vars

(* Goroutines run, calls to the databases return (with an answer or an     *)
(* error), and the supervisor restarts a dead process.                     *)
Fairness ==
    /\ \A w \in Workers : WF_vars(WorkerStep(w))
    /\ WF_vars(Return)
    /\ WF_vars(Restart)

FairSpec == Spec /\ Fairness

-----------------------------------------------------------------------------
(* The types of the verifier's state.                                      *)
ScanRecord ==
    [range : SUBSET IDs, id : IDs \cup {NoID}, version : Versions \cup {NoDoc},
     tries : 0 .. RetryCount, processed : Nat]

WorkerLabels ==
    {"idle", "countSrc", "countTgt", "open", "next", "find", "save", "truncate",
     "write", "report", "openRev", "nextRev", "findRev", "publish", "exited"}

TypeOK ==
    /\ pc \in [Workers -> WorkerLabels]
    /\ proc \in {"up", "down"}
    /\ cpMu \in Workers \cup {Free}
    /\ cpData \in Maps \cup {Nil}
    /\ file \in Maps \cup {Torn}
    /\ faults \in 0 .. MaxFaults /\ crashes \in 0 .. MaxCrashes
    /\ src \in Collections /\ tgt \in Collections
    /\ opts \in OptionSet
    /\ taskCh \subseteq NS
    /\ main \in {"waiting", "returned"}
    /\ task \in [Workers -> NS \cup {NoTask}]
    /\ scan \in [Workers -> ScanRecord]
    /\ result \in [Workers -> DataResult]
    /\ rpt \in [NS -> DataResult \cup {NoResult}]
    /\ calls \in Nat /\ writes \in 0 .. MaxWrites
    /\ published \subseteq NS
    /\ caveat \in [NS -> SUBSET {"partial", "lost", "gaveUp"}]
    /\ touched \in [NS -> SUBSET IDs]
    /\ examined \in [NS -> SUBSET IDs]
    /\ compared \in [NS -> SUBSET IDs]
    /\ undecoded \in [NS -> SUBSET IDs]

Busy == {task[w] : w \in {v \in Workers : task[v] # NoTask}}

(* Every namespace is in exactly one place: the channel, one worker's      *)
(* hands, or published in this call.  No namespace is verified twice at a  *)
(* time, and none is lost between the channel and the report.              *)
EachNamespaceOnce ==
    /\ taskCh \cup Busy \cup published = NS
    /\ taskCh \cap Busy = {} /\ taskCh \cap published = {}
    /\ Busy \cap published = {}
    /\ \A v, w \in Workers : v # w /\ task[v] # NoTask => task[v] # task[w]

(* VerifyAllData returns only when every namespace has its verdict in the  *)
(* report, in place of the progress: no percentage of a collection whose   *)
(* count failed is left, which JSON could not encode.                      *)
ReturnsComplete ==
    main = "returned" =>
        /\ published = NS
        /\ \A n \in NS : Reported(n) /\ rpt[n].progressPct # PctInf

InSync(n, id) == src[n][id] = tgt[n][id]

(* VerifyAllData implements VerifyPool.                                    *)
Pool == INSTANCE VerifyPool WITH
    Capacity <- Cardinality(Workers),
    waiting <- taskCh,
    active <- Busy,
    verified <- published,
    returned <- (main = "returned")

ImplementsPool == Pool!PoolSpec

(* The verdict this call published for n, from scans of the whole          *)
(* collection that lost no document to an error.                           *)
FullVerdict(n) ==
    n \in published /\ ~opts.dryRun /\ caveat[n] \cap {"partial", "lost"} = {}

(* The documents that are missing, different or extra.                     *)
Lacking(n) == Present(src, n) \ Present(tgt, n)
Differing(n) == {id \in Present(src, n) \cap Present(tgt, n) : ~InSync(n, id)}
Surplus(n) == IF opts.bidirectional THEN Present(tgt, n) \ Present(src, n) ELSE {}

(* A counter and a sample say what ids are: how many, and which up to the  *)
(* cap - the first ones, in order, if a sorted cursor delivered them.      *)
Tells(count, sample, ids, cap, sorted) ==
    LET places == 1 .. Len(sample)
    IN  /\ count = Cardinality(ids)
        /\ Len(sample) = IF count < cap THEN count ELSE cap
        /\ \A i \in places : sample[i] \in ids
        /\ \A i, j \in places : i < j => sample[i] # sample[j]
        /\ sorted => \A i, j \in places : i < j => sample[i] < sample[j]
        /\ sorted => \A id \in ids, i \in places :
                         sample[i] < id \/ \E j \in places : sample[j] = id

(* The published result of a scan of unchanging data that lost nothing is  *)
(* the difference of the two collections: exact counts, and samples (from  *)
(* which repairs are made) that hold the first documents of each kind, up  *)
(* to the cap.                                                             *)
ReportIsTheDifference ==
    \A n \in NS : FullVerdict(n) /\ caveat[n] = {} /\ touched[n] = {} =>
        LET r == rpt[n]
        IN  /\ r.srcCount = Cardinality(Present(src, n))
            /\ r.tgtCount = Cardinality(Present(tgt, n))
            /\ Tells(r.missing, r.missingSample, Lacking(n), SampleCap, ~opts.sampled)
            /\ Tells(r.different, r.diffSample, Differing(n), SampleCap, ~opts.sampled)
            /\ Tells(r.extra, r.extraSample, Surplus(n), ExtraCap, TRUE)
            /\ r.errors = 0 /\ r.progressPct = 0
            /\ r.passed <=> CountMatch(r) /\ Lacking(n) \cup Differing(n) \cup Surplus(n) = {}

(* A pass of a full scan means what it says: every source document that    *)
(* nobody changed meanwhile is in the target, the same, and with the       *)
(* reverse scan no unchanged document is in the target alone - even while  *)
(* other documents of the collection change under the scan.                *)
NoFalsePass ==
    \A n \in NS : FullVerdict(n) /\ rpt[n].passed =>
        \A id \in IDs \ touched[n] :
            /\ src[n][id] # NoDoc => InSync(n, id)
            /\ opts.bidirectional => InSync(n, id)

(* A pass of any scan - sampled, resumed, cut short by an error - still    *)
(* says that what it looked up and nobody changed is in sync.              *)
PassCoversExamined ==
    \A n \in published : ~opts.dryRun /\ rpt[n].passed =>
        \A id \in examined[n] \ touched[n] : InSync(n, id)

(* Nothing but changing data ends the process from within: reads that      *)
(* fail, counts that come back as 0 and samples do not take the progress   *)
(* bar past its width.                                                     *)
QuietDataIsSurvived ==
    proc = "down" /\ crashes = 0 => \E n \in NS : touched[n] # {}

(* A failure is never invented: unless a read failed on its last attempt,  *)
(* a namespace that fails has a document that differs or was changed.      *)
NoFalseAlarm ==
    \A n \in published :
        ~rpt[n].passed /\ "gaveUp" \notin caveat[n] =>
            touched[n] # {} \/ \E id \in IDs : ~InSync(n, id)

(* Source documents of n up to id that this process or an earlier one      *)
(* looked up in the target.                                                *)
AccountedUpTo(n, last) ==
    \A id \in IDs \ touched[n] :
        id <= last /\ src[n][id] # NoDoc => id \in compared[n] \cup undecoded[n]

(* A checkpoint, in memory or in the file, never runs ahead of the scan:   *)
(* every source document up to it has been looked up, through kills,       *)
(* restarts and later calls.                                               *)
CheckpointCovers ==
    \A n \in NS :
        /\ proc = "up" => AccountedUpTo(n, Checkpointed(n))
        /\ file # Torn => AccountedUpTo(n, file[n])

(* A resumed scan that ends without losing its cursor has, together with   *)
(* the scans before it, looked up every source document.                   *)
ResumeReachesAllOf(namespaces) ==
    \A n \in namespaces \cap published :
        ~opts.dryRun /\ ~opts.sampled /\ "lost" \notin caveat[n] =>
            \A id \in IDs : AccountedUpTo(n, id)

ResumeReachesAll == ResumeReachesAllOf(StringKeyed)

(* A resuming process never moves a checkpoint back.                       *)
CheckpointNeverBack ==
    [][\A n \in NS :
          proc = "up" /\ proc' = "up" /\ opts.resume /\ ~opts.sampled =>
              Checkpointed(n)' >= Checkpointed(n)]_vars

(* Every call of VerifyAllData returns when reads end and nothing kills    *)
(* the process for good.                                                   *)
CallReturns == (main = "waiting") ~> (main = "returned")

-----------------------------------------------------------------------------
(* A statement of the documentation that the code does not keep.           *)

(* DESIGN.md: "The next --resume run continues from that _id", whatever    *)
(* the type of the _id.                                                    *)
ResumeContinues == ResumeReachesAllOf(NS)
=============================================================================
