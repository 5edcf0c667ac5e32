------------------------- MODULE DataVerifier_resume -------------------------
(***************************************************************************)
(* What the checkpoints of DataVerifier are worth: in memory and in the    *)
(* file they never run ahead of the comparison, a resuming scan never      *)
(* moves them back, and together with the scans before it completes the    *)
(* collection - for any kills, failures and concurrent writes, as long as  *)
(* no call samples (CheckpointsCover, ResumesReachAll).  VerifierSavesAll: *)
(* the file is what the map was when it was saved.                         *)
(***************************************************************************)
EXTENDS DataVerifier_soundness

(* A sorted cursor goes up, and that of a resuming scan goes up from the   *)
(* checkpoint.                                                             *)
Ascending(w) ==
    ~opts.sampled /\ pc[w] \in {"find", "save"} =>
        \A x \in scan[w].range : x > scan[w].id

Ahead(w) ==
    opts.resume /\ ~opts.sampled /\ pc[w] \in ForwardLabels =>
        /\ \A x \in scan[w].range : x > Checkpointed(task[w])
        /\ pc[w] \in {"find", "save"} => scan[w].id > Checkpointed(task[w])

Onward == \A w \in Workers : Ascending(w) /\ Ahead(w)

-----------------------------------------------------------------------------
(* What a forward scan does to its cursor, step by step.                   *)
LEMMA OpenEffect ==
  ASSUME Types, NEW w \in Workers, OpenForward(w), ~opts.sampled
  PROVE  /\ scan'[w].range = Filter(task[w])
         /\ pc'[w] = "next" /\ task' = task /\ task[w] \in NS
         /\ UNCHANGED <<cpVars, opts, proc, history>>
<1>1. PICK range \in SUBSET IDs :
        /\ range = Filter(task[w])
        /\ scan' = [scan EXCEPT ![w] = [NewScan EXCEPT !.range = range]]
  BY DEF OpenForward
<1>2. scan'[w].range = range
  BY <1>1 DEF NewScan, Types, TypeOK
<1> QED BY <1>1, <1>2
        DEF OpenForward, At, Goto, Read, kept, callVars, Types, TypeOK, InHand

LEMMA NextEffect ==
  ASSUME Types, NEW w \in Workers, NextForward(w)
  PROVE  \E id \in IDs :
           /\ IsNext(w, src, id, ~opts.sampled)
           /\ scan'[w].range = After(w, id, ~opts.sampled)
           /\ scan'[w].id = id
           /\ pc[w] = "next" /\ pc'[w] = "find" /\ task' = task /\ task[w] \in NS
           /\ UNCHANGED <<cpVars, opts, proc, history>>
<1>1. PICK x \in IDs :
        /\ IsNext(w, src, x, ~opts.sampled)
        /\ scan' = [scan EXCEPT
            ![w].range = After(w, x, ~opts.sampled),
            ![w].id = x,
            ![w].version = src[task[w]][x],
            ![w].tries = 0]
  BY DEF NextForward
<1> DEFINE range == After(w, x, ~opts.sampled)
           version == src[task[w]][x]
<1>2. scan' = [scan EXCEPT ![w] = [scan[w] EXCEPT !.range = range, !.id = x,
                                     !.version = version, !.tries = 0]]
  BY <1>1
<1>3. scan'[w].id = x /\ scan'[w].range = range
  <2> HIDE DEF version, range
  <2> QED BY <1>2 DEF Types, TypeOK, ScanRecord
<1> QED BY <1>1, <1>3
        DEF NextForward, At, Goto, Read, kept, callVars, Types, TypeOK, InHand

LEMMA SkipEffect ==
  ASSUME Types, NEW w \in Workers, SkipForward(w)
  PROVE  \E id \in IDs :
           /\ IsNext(w, src, id, ~opts.sampled)
           /\ scan'[w].range = After(w, id, ~opts.sampled)
           /\ undecoded' = [undecoded EXCEPT ![task[w]] = @ \cup {id}]
           /\ scan'[w].id = scan[w].id
           /\ pc[w] = "next" /\ pc'[w] = "next" /\ task' = task /\ task[w] \in NS
           /\ UNCHANGED <<cpVars, opts, proc, compared>>
           /\ caveat' = [caveat EXCEPT ![task[w]] = @ \cup {"lost"}]
<1>1. PICK x \in IDs :
        /\ IsNext(w, src, x, ~opts.sampled)
        /\ scan' = [scan EXCEPT ![w].range = After(w, x, ~opts.sampled)]
        /\ undecoded' = [undecoded EXCEPT ![task[w]] = @ \cup {x}]
  BY DEF SkipForward
<1> DEFINE range == After(w, x, ~opts.sampled)
<1>2. scan' = [scan EXCEPT ![w] = [scan[w] EXCEPT !.range = range]]
  BY <1>1
<1>3. scan'[w].id = scan[w].id /\ scan'[w].range = range
  <2> HIDE DEF range
  <2> QED BY <1>2 DEF Types, TypeOK, ScanRecord
<1> QED BY <1>1, <1>3
        DEF SkipForward, Fails, Note, At, Read, kept, callVars, Types, TypeOK, InHand

LEMMA LookupEffect ==
  ASSUME Types, NEW w \in Workers, Compare(w) \/ Missing(w)
  PROVE  /\ scan'[w].range = scan[w].range /\ scan'[w].id = scan[w].id
         /\ scan[w].id \in IDs
         /\ compared' = [compared EXCEPT ![task[w]] = @ \cup {scan[w].id}]
         /\ pc[w] = "find" /\ pc'[w] \in {"save", "next"}
         /\ task' = task /\ task[w] \in NS
         /\ UNCHANGED <<cpVars, opts, proc, undecoded>>
<1>1. /\ scan' = [scan EXCEPT ![w].processed = scan[w].processed + 1]
      /\ compared' = [compared EXCEPT ![task[w]] = @ \cup {scan[w].id}]
      /\ \E l \in {"save", "next"} : pc' = [pc EXCEPT ![w] = l]
  BY DEF Compare, Missing, Processed, Goto
<1>2. scan'[w].range = scan[w].range /\ scan'[w].id = scan[w].id
  BY <1>1 DEF Types, TypeOK, ScanRecord
<1> QED BY <1>1, <1>2
        DEF Compare, Missing, At, Read, kept, callVars, Types, TypeOK, InHand

LEMMA SavingEffect ==
  ASSUME Types, NEW w \in Workers, Save(w) \/ SaveFile(w) \/ UpdateProgress(w)
  PROVE  /\ UNCHANGED <<scan, task, opts, proc, history, caveat, published>>
         /\ pc[w] \in {"save", "truncate", "write", "report"}
         /\ pc'[w] \in {"truncate", "write", "report", "next"}
         /\ task[w] \in NS
         /\ \/ cpData' = cpData
            \/ /\ pc[w] = "save" /\ cpData \in Maps /\ scan[w].id \in IDs
               /\ cpData' = [cpData EXCEPT ![task[w]] = scan[w].id]
<1> USE DEF At, Goto, cpVars, callVars, Types, TypeOK, InHand
<1>1. CASE Save(w)
  BY <1>1 DEF Save, SaveCheckpoint
<1>2. CASE SaveFile(w)
  BY <1>2 DEF SaveFile, FileOps, TruncateFile, OpenFileFails, WriteFile, WriteFileFails
<1>3. CASE UpdateProgress(w)
  BY <1>3 DEF UpdateProgress
<1> QED BY <1>1, <1>2, <1>3

LEMMA RetryEffect ==
  ASSUME Types, NEW w \in Workers, TryAgain(w)
  PROVE  /\ scan'[w].range = scan[w].range /\ scan'[w].id = scan[w].id
         /\ UNCHANGED <<pc, task, cpVars, opts, proc, history, caveat>>
  BY DEF TryAgain, Read, kept, callVars, Types, TypeOK, ScanRecord

(* Everything else is no forward scan, or ends it.                         *)
Aside(w) ==
    \/ Take(w) \/ Exit(w) \/ CountSource(w) \/ CountTarget(w) \/ OpenForwardFails(w)
    \/ EndOfForward(w) \/ OpenReverse(w) \/ OpenReverseFails(w) \/ NextReverse(w)
    \/ SkipReverse(w) \/ EndOfReverse(w) \/ LookupSource(w) \/ Publish(w)

LEMMA AsideEffect ==
  ASSUME Types, NEW w \in Workers, Aside(w)
  PROVE  /\ pc'[w] \notin ForwardLabels
         /\ UNCHANGED <<cpVars, opts, proc, history>>
<1> USE DEF Read, kept, callVars, Goto, ForwardLabels, EndForward
<1>0. pc \in [Workers -> WorkerLabels]
  BY DEF Types, TypeOK
<1>1. CASE Take(w) \/ Exit(w) \/ CountSource(w) \/ CountTarget(w)
  BY <1>0, <1>1 DEF Take, Exit, CountSource, CountTarget
<1>2. CASE OpenForwardFails(w) \/ EndOfForward(w) \/ OpenReverse(w) \/ OpenReverseFails(w)
  BY <1>0, <1>2 DEF OpenForwardFails, EndOfForward, OpenReverse, OpenReverseFails
<1>3. CASE NextReverse(w) \/ SkipReverse(w) \/ EndOfReverse(w) \/ LookupSource(w)
  <2>1. UNCHANGED <<cpVars, opts, proc, history>>
    BY <1>3 DEF NextReverse, SkipReverse, EndOfReverse, LookupSource
  <2>2. pc'[w] \in {"findRev", "nextRev", "publish"}
    BY <1>0, <1>3 DEF NextReverse, SkipReverse, EndOfReverse, LookupSource, At
  <2> QED BY <2>1, <2>2
<1>4. CASE Publish(w)
  BY <1>0, <1>4 DEF Publish
<1> QED BY <1>1, <1>2, <1>3, <1>4 DEF Aside

LEMMA StepKinds ==
  ASSUME NEW w \in Workers, WorkerStep(w)
  PROVE  \/ OpenForward(w) \/ NextForward(w) \/ SkipForward(w)
         \/ Compare(w) \/ Missing(w) \/ TryAgain(w)
         \/ Save(w) \/ SaveFile(w) \/ UpdateProgress(w) \/ Aside(w)
  BY DEF WorkerStep, Aside

-----------------------------------------------------------------------------
(* Scans go up, and ahead of the checkpoint.                               *)
LEMMA CheckpointedType ==
  ASSUME Types, NEW n \in NS
  PROVE  Checkpointed(n) \in IDs \cup {NoID} /\ Checkpointed(n) \in Nat
<1>1. CASE cpData = Nil
  BY <1>1, CheckpointAssumption DEF Checkpointed, NoID
<1>2. CASE cpData # Nil
  <2>1. cpData \in Maps
    BY <1>2 DEF Types, TypeOK
  <2>2. cpData[n] \in IDs \cup {NoID}
    BY <2>1 DEF Maps
  <2>3. Checkpointed(n) = cpData[n]
    BY <1>2 DEF Checkpointed
  <2>4. ASSUME NEW x \in IDs \cup {NoID} PROVE x \in Nat
    BY CheckpointAssumption DEF NoID
  <2> QED BY <2>2, <2>3, <2>4
<1> QED BY <1>1, <1>2

LEMMA NothingBefore ==
  ASSUME NEW id \in IDs
  PROVE  id \in Nat /\ id > NoID
  BY CheckpointAssumption DEF NoID

(* A goroutine saves for its own namespace only.                           *)
LEMMA OthersCheckpoints ==
  ASSUME Types, Placed, NEW w \in Workers, WorkerStep(w), NEW n \in NS \ {task[w]}
  PROVE  Checkpointed(n)' = Checkpointed(n)
<1>1. CASE Save(w) \/ SaveFile(w) \/ UpdateProgress(w)
  <2>1. CASE cpData' = cpData
    BY <2>1 DEF Checkpointed
  <2>2. CASE cpData \in Maps /\ cpData' = [cpData EXCEPT ![task[w]] = scan[w].id]
    <3>1. cpData # Nil /\ cpData'[n] = cpData[n]
      BY <2>2, CheckpointAssumption DEF Maps
    <3>2. cpData' # Nil
      BY <1>1, <2>2, SavingEffect, CheckpointAssumption DEF Maps
    <3> QED BY <3>1, <3>2 DEF Checkpointed
  <2> QED BY <1>1, <2>1, <2>2, SavingEffect
<1>2. ASSUME ~(Save(w) \/ SaveFile(w) \/ UpdateProgress(w)) PROVE cpData' = cpData
  BY <1>2, StepKinds, OpenEffect, NextEffect, SkipEffect, LookupEffect, RetryEffect,
     AsideEffect DEF cpVars, OpenForward, Read
<1> QED BY <1>1, <1>2 DEF Checkpointed

(* The checkpoint of a namespace after its goroutine has saved.            *)
LEMMA OwnCheckpoint ==
  ASSUME Types, NEW w \in Workers, Save(w) \/ SaveFile(w) \/ UpdateProgress(w)
  PROVE  \/ Checkpointed(task[w])' = Checkpointed(task[w])
         \/ pc[w] = "save" /\ Checkpointed(task[w])' = scan[w].id
<1>1. CASE cpData' = cpData
  BY <1>1, SavingEffect DEF Checkpointed
<1>2. CASE pc[w] = "save" /\ cpData \in Maps /\ scan[w].id \in IDs
           /\ cpData' = [cpData EXCEPT ![task[w]] = scan[w].id]
  <2>1. task[w] \in NS /\ cpData' \in Maps /\ cpData'[task[w]] = scan[w].id
    BY <1>2, SavingEffect DEF Maps
  <2> QED BY <1>2, <2>1, SavingEffect, CheckpointAssumption DEF Checkpointed
<1> QED BY <1>1, <1>2, SavingEffect

LEMMA OwnOnward ==
  ASSUME Types, Placed, Onward, NEW w \in Workers, WorkerStep(w)
  PROVE  Ascending(w)' /\ Ahead(w)'
<1>0. /\ Ascending(w) /\ Ahead(w) /\ opts' = opts
      /\ scan[w].range \subseteq IDs /\ IDs \subseteq Nat
  BY WorkerMovesOnly, ScanFields, CheckpointAssumption
  DEF Onward, OnlyMoves, Types, TypeOK
<1> SUFFICES ASSUME ~opts.sampled PROVE Ascending(w)' /\ Ahead(w)'
  BY <1>0 DEF Ascending, Ahead
<1>1. CASE OpenForward(w)
  <2>1. ASSUME opts.resume, NEW x \in Filter(task[w])
        PROVE  x > Checkpointed(task[w])
    <3>1. task[w] \in NS
      BY <1>1, OpenEffect
    <3>2. CASE Checkpointed(task[w]) = NoID
      BY <2>1, <3>2, NothingBefore DEF Filter
    <3>3. CASE Checkpointed(task[w]) # NoID
      BY <2>1, <3>3 DEF Filter, Beyond
    <3> QED BY <3>2, <3>3
  <2>2. Checkpointed(task[w])' = Checkpointed(task[w])
    BY <1>1, OpenEffect DEF Checkpointed, cpVars
  <2> QED BY <1>0, <1>1, <2>1, <2>2, OpenEffect DEF Ascending, Ahead, Checkpointed
<1>2. CASE NextForward(w) \/ SkipForward(w)
  <2>1. PICK id \in IDs :
          /\ IsNext(w, src, id, ~opts.sampled)
          /\ scan'[w].range = After(w, id, ~opts.sampled)
          /\ \/ scan'[w].id = id /\ pc'[w] = "find"
             \/ pc'[w] = "next"
          /\ pc[w] = "next" /\ task' = task
          /\ UNCHANGED cpVars
    BY <1>2, NextEffect, SkipEffect
  <2>2. id \in scan[w].range /\ scan'[w].range = {x \in scan[w].range : x > id}
    BY <2>1 DEF IsNext, Deliverable, After
  <2>3. Checkpointed(task[w])' = Checkpointed(task[w])
    BY <2>1 DEF Checkpointed, cpVars
  <2>4. Ascending(w)'
    BY <2>1, <2>2 DEF Ascending
  <2>5. Ahead(w)'
    BY <1>0, <2>1, <2>2, <2>3 DEF Ahead, ForwardLabels, Checkpointed
  <2> QED BY <2>4, <2>5
<1>3. CASE Compare(w) \/ Missing(w)
  <2>1. Checkpointed(task[w])' = Checkpointed(task[w])
    BY <1>3, LookupEffect DEF Checkpointed, cpVars
  <2> QED BY <1>0, <1>3, <2>1, LookupEffect
          DEF Ascending, Ahead, ForwardLabels, Checkpointed
<1>4. CASE TryAgain(w)
  <2>1. Checkpointed(task[w])' = Checkpointed(task[w])
    BY <1>4, RetryEffect DEF Checkpointed, cpVars
  <2> QED BY <1>0, <1>4, <2>1, RetryEffect
          DEF Ascending, Ahead, ForwardLabels, Checkpointed
<1>5. CASE Save(w) \/ SaveFile(w) \/ UpdateProgress(w)
  <2>1. /\ scan' = scan /\ task' = task
        /\ pc[w] \in ForwardLabels /\ pc'[w] \notin {"find", "save"}
    BY <1>5, SavingEffect DEF ForwardLabels
  <2>2. opts.resume => \A x \in scan[w].range : x > Checkpointed(task[w])'
    BY <1>0, <1>5, <2>1, OwnCheckpoint DEF Ascending, Ahead
  <2> QED BY <1>0, <2>1, <2>2 DEF Ascending, Ahead, Checkpointed
<1>6. CASE Aside(w)
  BY <1>6, AsideEffect DEF Ascending, Ahead, ForwardLabels
<1> QED BY <1>1, <1>2, <1>3, <1>4, <1>5, <1>6, StepKinds

LEMMA WorkerOnward ==
  ASSUME Types, Placed, Onward, NEW w \in Workers, WorkerStep(w) PROVE Onward'
<1>1. ASSUME NEW v \in Workers \ {w} PROVE Ascending(v)' /\ Ahead(v)'
  <2>1. /\ pc'[v] = pc[v] /\ task'[v] = task[v] /\ scan'[v] = scan[v] /\ opts' = opts
        /\ Ascending(v) /\ Ahead(v)
    BY WorkerMovesOnly DEF OnlyMoves, Onward
  <2>2. pc[v] \in ForwardLabels => task[v] \in NS \ {task[w]}
    BY VerifierAssumption DEF ForwardLabels, Types, TypeOK, InHand, Placed, NoTask
  <2>3. pc[v] \in ForwardLabels => Checkpointed(task[v])' = Checkpointed(task[v])
    <3> SUFFICES ASSUME pc[v] \in ForwardLabels
                 PROVE  Checkpointed(task[v])' = Checkpointed(task[v])
      OBVIOUS
    <3>1. \A n \in NS \ {task[w]} : Checkpointed(n)' = Checkpointed(n)
      BY OthersCheckpoints
    <3> QED BY <2>1, <2>2, <3>1 DEF Checkpointed
  <2> QED BY <2>1, <2>3 DEF Ascending, Ahead, Checkpointed
<1> QED BY <1>1, OwnOnward DEF Onward

LEMMA FreshOnward == ASSUME FreshCall PROVE Onward'
  BY DEF FreshCall, Onward, Ascending, Ahead, ForwardLabels

(* With nobody scanning, options and checkpoints are free to change.       *)
LEMMA NextOnward == Types /\ Placed /\ Gone /\ Onward /\ [Next]_vars => Onward'
<1> SUFFICES ASSUME Types, Placed, Gone, Onward, [Next]_vars PROVE Onward'
  OBVIOUS
<1>1. ASSUME NEW w \in Workers, SaveCheckpointPanics(w) \/ BarUpdatePanics(w)
      PROVE  Onward'
  BY <1>1, FreshOnward DEF SaveCheckpointPanics, BarUpdatePanics, ProcessEnds
<1>2. CASE Crash \/ NextCall
  BY <1>2, FreshOnward DEF Crash, NextCall, ProcessEnds
<1>3. CASE Restart
  BY <1>3 DEF Restart, Boot, Gone, Types, InHand, Onward, Ascending, Ahead, ForwardLabels
<1>4. ASSUME NEW n \in NS, NEW id \in IDs,
             \/ \E v \in Versions \cup {NoDoc} : SourceWrite(n, id, v)
             \/ Replicate(n, id)
      PROVE  Onward'
  BY <1>4 DEF SourceWrite, Replicate, Writes, allCpVars, callVars, Onward, Ascending,
     Ahead, Checkpointed
<1>5. CASE Return \/ UNCHANGED vars
  BY <1>5 DEF Return, vars, allCpVars, callVars, Onward, Ascending, Ahead, Checkpointed
<1> QED BY <1>1, <1>2, <1>3, <1>4, <1>5, WorkerOnward DEF Next, Stopped

LEMMA InitOnward == Init => Onward
  BY DEF Init, Onward, Ascending, Ahead, ForwardLabels

(* A resuming process, whatever its goroutines do at the same time, never  *)
(* moves a checkpoint back.                                                *)
THEOREM NeverBack == Spec => CheckpointNeverBack
<1> DEFINE Kept ==
      \A n \in NS : proc = "up" /\ proc' = "up" /\ opts.resume /\ ~opts.sampled =>
          Checkpointed(n)' >= Checkpointed(n)
<1>1. Types /\ Placed /\ Onward /\ [Next]_vars => [Kept]_vars
  <2> SUFFICES ASSUME Types, Placed, Onward, [Next]_vars,
                      NEW n \in NS, proc = "up", proc' = "up", opts.resume, ~opts.sampled
               PROVE  Checkpointed(n)' >= Checkpointed(n)
    OBVIOUS
  <2>0. Checkpointed(n) \in Nat
    BY CheckpointedType
  <2>1. CASE cpData' = cpData
    BY <2>0, <2>1 DEF Checkpointed
  <2>2. ASSUME NEW w \in Workers, WorkerStep(w) PROVE Checkpointed(n)' >= Checkpointed(n)
    <3>1. CASE n # task[w]
      BY <2>0, <2>2, <3>1, OthersCheckpoints
    <3>2. CASE n = task[w] /\ (Save(w) \/ SaveFile(w) \/ UpdateProgress(w))
      <4>1. \/ Checkpointed(task[w])' = Checkpointed(task[w])
            \/ pc[w] = "save" /\ Checkpointed(task[w])' = scan[w].id
        BY <3>2, OwnCheckpoint
      <4>2. pc[w] = "save" => scan[w].id > Checkpointed(n) /\ scan[w].id \in Nat
        BY <3>2, CheckpointAssumption DEF Onward, Ahead, ForwardLabels, Types, InHand
      <4>3. task' = task
        BY <3>2, SavingEffect
      <4> QED BY <2>0, <3>2, <4>1, <4>2, <4>3 DEF Checkpointed
    <3>3. CASE ~(Save(w) \/ SaveFile(w) \/ UpdateProgress(w))
      <4>1. cpData' = cpData
        BY <2>2, <3>3, StepKinds, OpenEffect, NextEffect, SkipEffect, LookupEffect,
           RetryEffect, AsideEffect DEF cpVars
      <4> QED BY <2>1, <4>1
    <3> QED BY <3>1, <3>2, <3>3
  <2>3. ASSUME NEW m \in NS, NEW id \in IDs,
               \/ \E v \in Versions \cup {NoDoc} : SourceWrite(m, id, v)
               \/ Replicate(m, id)
        PROVE  cpData' = cpData
    BY <2>3 DEF SourceWrite, Replicate, Writes, allCpVars
  <2>4. ASSUME NEW w \in Workers
        PROVE  ~SaveCheckpointPanics(w) /\ ~BarUpdatePanics(w)
    BY DEF SaveCheckpointPanics, SavePanics, BarUpdatePanics, Die
  <2>5. ~Crash /\ ~Restart
    BY DEF Crash, Kill, Die, Restart, Boot
  <2>6. ASSUME Return \/ NextCall \/ UNCHANGED vars PROVE cpData' = cpData
    BY <2>6 DEF Return, NextCall, vars, allCpVars, cpVars
  <2> QED BY <2>1, <2>2, <2>3, <2>4, <2>5, <2>6 DEF Next, Stopped
<1>2. CheckpointNeverBack <=> [][Kept]_vars
  BY PTL DEF CheckpointNeverBack
<1>3. Init => Gone
  BY DEF Init, Gone
<1> QED BY InitTypes, NextTypes, InitPlaced, NextPlaced, NextGone, InitOnward, NextOnward,
           <1>1, <1>2, <1>3, PTL DEF Spec
-----------------------------------------------------------------------------
(***************************************************************************)
(* A sampled scan saves the _id of the last document of a random sample,   *)
(* which says nothing of the documents below it.  Without such scans:      *)
(***************************************************************************)
Unsampled == \A o \in Options \cup LaterOptions : ~o.sampled

(* A source document that nobody changed and no scan has looked up yet.    *)
Owed(n) ==
    {id \in IDs \ touched[n] : src[n][id] # NoDoc /\ id \notin compared[n] \cup undecoded[n]}

(* The scan of an _id that is no string, resumed: it delivers nothing, so  *)
(* it never saves either.                                                  *)
Void(w) == task[w] \notin StringKeyed /\ pc[w] = "next" /\ scan[w].range = {}

(* What a scan has behind it is accounted for, by it or by those before.   *)
ScanAccounts(w) ==
    task[w] # NoTask =>
        /\ pc[w] \in ForwardLabels /\ ~Void(w) => Owed(task[w]) \subseteq Left(w)
        /\ /\ pc[w] \in LaterLabels /\ task[w] \in StringKeyed
           /\ ~opts.dryRun /\ "lost" \notin caveat[task[w]]
           => Owed(task[w]) = {}

Accounts ==
    /\ ~opts.sampled
    /\ CheckpointCovers
    /\ ResumeReachesAll
    /\ \A w \in Workers : ScanAccounts(w)

LEMMA CoversOwed ==
  ASSUME NEW n \in NS, NEW last
  PROVE  AccountedUpTo(n, last) <=> \A id \in Owed(n) : ~(id <= last)
  BY DEF AccountedUpTo, Owed

LEMMA ReachesOwed ==
  ASSUME NEW n \in NS
  PROVE  (\A id \in IDs : AccountedUpTo(n, id)) <=> Owed(n) = {}
<1>1. \A id \in IDs : id <= id
  BY CheckpointAssumption
<1>2. Owed(n) \subseteq IDs
  BY DEF Owed
<1>3. (\A id \in IDs : AccountedUpTo(n, id)) => Owed(n) = {}
  BY <1>1, <1>2, CoversOwed
<1>4. Owed(n) = {} => \A id \in IDs : AccountedUpTo(n, id)
  BY CoversOwed
<1> QED BY <1>3, <1>4

(* What has been looked up stays so, and only a write, which marks the     *)
(* document as touched, changes it.                                        *)
Keeps(n) ==
    /\ touched[n] \subseteq touched'[n]
    /\ compared[n] \subseteq compared'[n]
    /\ undecoded[n] \subseteq undecoded'[n]
    /\ \A id \in IDs \ touched'[n] : src'[n][id] = src[n][id]

LEMMA WorkerHistory ==
  ASSUME Types, NEW w \in Workers, WorkerStep(w), NEW n \in NS
  PROVE  compared[n] \subseteq compared'[n] /\ undecoded[n] \subseteq undecoded'[n]
<1> USE DEF history, Types, TypeOK
<1>1. CASE NextForward(w) \/ SkipForward(w)
  BY <1>1, NextEffect, SkipEffect
<1>2. CASE Compare(w) \/ Missing(w)
  BY <1>2, LookupEffect
<1>3. CASE ~(NextForward(w) \/ SkipForward(w) \/ Compare(w) \/ Missing(w))
  <2>1. CASE OpenForward(w)
    BY <2>1 DEF OpenForward
  <2> QED BY <1>3, <2>1, StepKinds, RetryEffect, SavingEffect, AsideEffect
<1> QED BY <1>1, <1>2, <1>3

LEMMA StepKeeps ==
  ASSUME Types, [Next]_vars, NEW n \in NS PROVE Keeps(n)
<1>1. ASSUME NEW w \in Workers, WorkerStep(w) PROVE Keeps(n)
  BY <1>1, WorkerHistory, WorkerMovesOnly DEF Keeps, OnlyMoves
<1>2. ASSUME NEW w \in Workers, SaveCheckpointPanics(w) \/ BarUpdatePanics(w)
      PROVE  Keeps(n)
  BY <1>2 DEF SaveCheckpointPanics, BarUpdatePanics, ProcessEnds, dbVars, Keeps
<1>3. CASE Crash \/ NextCall \/ Restart \/ Return \/ UNCHANGED vars
  BY <1>3 DEF Crash, ProcessEnds, NextCall, Restart, Return, vars, dbVars, history, Keeps
<1>4. ASSUME NEW m \in NS, NEW x \in IDs,
             \/ \E v \in Versions \cup {NoDoc} : SourceWrite(m, x, v)
             \/ Replicate(m, x)
      PROVE  Keeps(n)
  <2>1. /\ touched' = [touched EXCEPT ![m] = @ \cup {x}]
        /\ UNCHANGED <<compared, undecoded>>
    BY <1>4 DEF SourceWrite, Replicate, Writes, history
  <2>2. touched[n] \subseteq touched'[n] /\ (n = m => x \in touched'[n])
    BY <2>1 DEF Types, TypeOK
  <2>3. ASSUME NEW id \in IDs \ touched'[n] PROVE src'[n][id] = src[n][id]
    <3>1. n # m \/ id # x
      BY <2>2
    <3>2. ASSUME NEW v \in Versions \cup {NoDoc}, SourceWrite(m, x, v)
          PROVE  src'[n][id] = src[n][id]
      BY <3>1, <3>2 DEF SourceWrite, Types, TypeOK, Collections
    <3> QED BY <1>4, <3>2 DEF Replicate
  <2> QED BY <2>1, <2>2, <2>3 DEF Keeps
<1> QED BY <1>1, <1>2, <1>3, <1>4 DEF Next, Stopped

LEMMA OwedShrinks ==
  ASSUME NEW n \in NS, Keeps(n) PROVE Owed(n)' \subseteq Owed(n)
  BY DEF Keeps, Owed

-----------------------------------------------------------------------------
(* Where checkpoints come from: a save, the file, or nowhere.              *)
LEMMA MapSources ==
  ASSUME Types, Placed, [Next]_vars, NEW n \in NS, proc' = "up"
  PROVE  \/ proc = "up" /\ Checkpointed(n)' = Checkpointed(n)
         \/ \E w \in Workers : /\ task[w] = n /\ pc[w] = "save" /\ proc = "up"
                               /\ Checkpointed(n)' = scan[w].id
         \/ Checkpointed(n)' = NoID
         \/ file # Torn /\ Checkpointed(n)' = file[n]
<1>1. ASSUME NEW w \in Workers, WorkerStep(w)
      PROVE  \/ proc = "up" /\ Checkpointed(n)' = Checkpointed(n)
             \/ /\ task[w] = n /\ pc[w] = "save" /\ proc = "up"
                /\ Checkpointed(n)' = scan[w].id
  <2>1. proc = "up"
    BY <1>1, StepKinds, OpenEffect, NextEffect, SkipEffect, LookupEffect, RetryEffect,
       SavingEffect, AsideEffect DEF OpenForward, Read, kept
  <2>2. CASE n # task[w]
    BY <1>1, <2>1, <2>2, OthersCheckpoints
  <2>3. CASE n = task[w] /\ (Save(w) \/ SaveFile(w) \/ UpdateProgress(w))
    <3>1. task' = task
      BY <2>3, SavingEffect
    <3> QED BY <2>1, <2>3, <3>1, OwnCheckpoint DEF Checkpointed
  <2>4. CASE ~(Save(w) \/ SaveFile(w) \/ UpdateProgress(w))
    <3>1. cpData' = cpData
      BY <1>1, <2>4, StepKinds, OpenEffect, NextEffect, SkipEffect, LookupEffect,
         RetryEffect, AsideEffect DEF cpVars, OpenForward, Read
    <3> QED BY <2>1, <3>1 DEF Checkpointed
  <2> QED BY <2>2, <2>3, <2>4
<1>2. ASSUME NEW w \in Workers
      PROVE  ~SaveCheckpointPanics(w) /\ ~BarUpdatePanics(w)
  BY DEF SaveCheckpointPanics, SavePanics, BarUpdatePanics, Die
<1>3. ~Crash
  BY DEF Crash, Kill, Die
<1>4. CASE Restart
  <2>1. cpData' = IF file = Torn THEN Nil ELSE file
    BY <1>4 DEF Restart, Boot, Loaded
  <2> QED BY <2>1 DEF Checkpointed
<1>5. ASSUME NEW m \in NS, NEW id \in IDs,
             \/ \E v \in Versions \cup {NoDoc} : SourceWrite(m, id, v)
             \/ Replicate(m, id)
      PROVE  proc = "up" /\ cpData' = cpData
  BY <1>5 DEF SourceWrite, Replicate, Writes, allCpVars
<1>6. ASSUME Return \/ NextCall \/ UNCHANGED vars PROVE proc = "up" /\ cpData' = cpData
  BY <1>6 DEF Return, NextCall, vars, allCpVars, cpVars
<1> QED BY <1>1, <1>2, <1>3, <1>4, <1>5, <1>6 DEF Next, Stopped, Checkpointed

LEMMA FileSources ==
  ASSUME Types, [Next]_vars
  PROVE  file' = file \/ file' = Torn \/ (proc = "up" /\ cpData # Nil /\ file' = cpData)
<1>1. ASSUME NEW w \in Workers, WorkerStep(w)
      PROVE  file' = file \/ file' = Torn \/ (proc = "up" /\ cpData # Nil /\ file' = cpData)
  <2>1. CASE Save(w) \/ UpdateProgress(w)
    BY <2>1 DEF Save, SaveCheckpoint, UpdateProgress, cpVars
  <2>2. CASE SaveFile(w)
    <3>1. CASE WriteFile(w)
      <4>1. cpMu = w /\ proc = "up" /\ file' = cpData
        BY <3>1 DEF WriteFile, At, Types, HoldsLock
      <4> QED BY <4>1, CheckpointAssumption DEF Types, HolderHasMap
    <3> QED BY <2>2, <3>1 DEF SaveFile, FileOps, TruncateFile, OpenFileFails, WriteFileFails
  <2>3. CASE ~(Save(w) \/ SaveFile(w) \/ UpdateProgress(w))
    BY <1>1, <2>3, StepKinds, OpenEffect, NextEffect, SkipEffect, LookupEffect,
       RetryEffect, AsideEffect DEF cpVars, OpenForward, Read
  <2> QED BY <2>1, <2>2, <2>3
<1>2. ASSUME NEW w \in Workers, SaveCheckpointPanics(w) \/ BarUpdatePanics(w)
      PROVE  file' = file
  BY <1>2 DEF SaveCheckpointPanics, SavePanics, BarUpdatePanics, Die
<1>3. CASE Crash \/ Restart \/ NextCall \/ Return \/ UNCHANGED vars
  BY <1>3 DEF Crash, Kill, Die, Restart, Boot, NextCall, Return, vars, allCpVars, cpVars
<1>4. ASSUME NEW m \in NS, NEW id \in IDs,
             \/ \E v \in Versions \cup {NoDoc} : SourceWrite(m, id, v)
             \/ Replicate(m, id)
      PROVE  file' = file
  BY <1>4 DEF SourceWrite, Replicate, Writes, allCpVars
<1> QED BY <1>1, <1>2, <1>3, <1>4 DEF Next, Stopped
(* A save is of the document looked up last, and all below it are done.    *)
LEMMA SavedIsCovered ==
  ASSUME Types, Onward, Accounts, NEW w \in Workers, pc[w] = "save",
         NEW id \in Owed(task[w])
  PROVE  id > scan[w].id
<1>1. task[w] # NoTask
  BY DEF Types, InHand
<1>2. id \in Left(w)
  BY <1>1 DEF Accounts, ScanAccounts, ForwardLabels, Void
<1> QED BY <1>2 DEF Left, Onward, Ascending, Accounts

(* No checkpoint runs ahead of what is still owed.                         *)
LEMMA NextCovers ==
  ASSUME Types, Placed, Onward, Accounts, [Next]_vars PROVE CheckpointCovers'
<1> SUFFICES ASSUME NEW n \in NS, NEW id \in Owed(n)'
             PROVE  /\ proc' = "up" => ~(id <= Checkpointed(n)')
                    /\ file' # Torn => ~(id <= file'[n])
  BY DEF CheckpointCovers, AccountedUpTo, Owed, Checkpointed
<1>1. id \in Owed(n)
  BY StepKeeps, OwedShrinks
<1>2. id \in Nat \ {NoID}
  BY <1>1, CheckpointAssumption DEF Owed
<1>3. /\ proc = "up" => ~(id <= Checkpointed(n))
      /\ file # Torn => ~(id <= file[n])
  BY <1>1, CoversOwed DEF Accounts, CheckpointCovers
<1>4. ASSUME proc' = "up" PROVE ~(id <= Checkpointed(n)')
  <2>1. ASSUME NEW w \in Workers, task[w] = n, pc[w] = "save" PROVE ~(id <= scan[w].id)
    <3>1. id > scan[w].id
      BY <1>1, <2>1, SavedIsCovered
    <3>2. scan[w].id \in Nat
      BY <2>1, CheckpointAssumption DEF Types, InHand
    <3> QED BY <1>2, <3>1, <3>2
  <2>2. ~(id <= NoID)
    BY <1>2 DEF NoID
  <2> QED BY <1>3, <1>4, <2>1, <2>2, MapSources
<1>5. ASSUME file' # Torn PROVE ~(id <= file'[n])
  BY <1>3, <1>5, FileSources DEF Checkpointed
<1> QED BY <1>4, <1>5

-----------------------------------------------------------------------------
(* A worker's own scan.                                                    *)
LEMMA WorkerOwed ==
  ASSUME Types, NEW w \in Workers, WorkerStep(w), NEW n \in NS
  PROVE  Owed(n)' \subseteq Owed(n)
  BY OwedShrinks, WorkerMovesOnly, WorkerHistory DEF Keeps, OnlyMoves

LEMMA LostAccounts ==
  ASSUME Types, NEW w \in Workers, task[w] \in NS, task' = task,
         pc'[w] \notin ForwardLabels, Fails(w, "lost")
  PROVE  ScanAccounts(w)'
<1>1. "lost" \in caveat'[task[w]]
  BY DEF Fails, Note, Types, TypeOK
<1> QED BY <1>1 DEF ScanAccounts

LEMMA OpenAccounts ==
  ASSUME Types, Accounts, NEW w \in Workers, OpenForward(w) PROVE ScanAccounts(w)'
<1> DEFINE n == task[w]
<1>1. /\ scan'[w].range = Filter(n) /\ pc'[w] = "next" /\ task' = task /\ n \in NS
  BY OpenEffect DEF Accounts
<1>2. Owed(n)' \subseteq Owed(n)
  BY <1>1, WorkerOwed DEF WorkerStep
<1>3. proc = "up" /\ Owed(n) \subseteq IDs
  BY DEF OpenForward, At, Owed
<1>4. CASE Filter(n) = IDs
  BY <1>1, <1>2, <1>3, <1>4 DEF ScanAccounts, Left, LaterLabels
<1>5. CASE Filter(n) # IDs
  <2>1. Filter(n) = Beyond(n, Checkpointed(n))
    BY <1>5 DEF Filter
  <2>2. CASE n \in StringKeyed
    <3>1. Filter(n) = {id \in IDs : id > Checkpointed(n)}
      BY <2>1, <2>2 DEF Beyond
    <3>2. ASSUME NEW id \in Owed(n) PROVE id \in Filter(n)
      <4>1. ~(id <= Checkpointed(n))
        BY <1>1, <1>3, CoversOwed DEF Accounts, CheckpointCovers
      <4>2. id \in Nat /\ Checkpointed(n) \in Nat
        BY <1>1, <1>3, CheckpointAssumption, CheckpointedType
      <4> QED BY <1>3, <3>1, <4>1, <4>2
    <3> QED BY <1>1, <1>2, <3>2 DEF ScanAccounts, Left, LaterLabels
  <2>3. CASE n \notin StringKeyed
    BY <1>1, <2>1, <2>3 DEF Beyond, ScanAccounts, Void, LaterLabels
  <2> QED BY <2>2, <2>3
<1> QED BY <1>4, <1>5

(* The cursor passes over what is not there, and skips what it cannot      *)
(* decode.                                                                 *)
LEMMA NextAccounts ==
  ASSUME Types, Accounts, NEW w \in Workers, NextForward(w) \/ SkipForward(w)
  PROVE  ScanAccounts(w)'
<1> DEFINE n == task[w]
<1>1. PICK id \in IDs :
        /\ IsNext(w, src, id, ~opts.sampled)
        /\ scan'[w].range = After(w, id, ~opts.sampled)
        /\ \/ scan'[w].id = id /\ pc'[w] = "find"
           \/ pc'[w] = "next" /\ undecoded' = [undecoded EXCEPT ![n] = @ \cup {id}]
        /\ pc[w] = "next" /\ task' = task /\ n \in NS
  BY NextEffect, SkipEffect DEF Accounts
<1>2. Owed(n)' \subseteq Owed(n)
  BY <1>1, WorkerOwed DEF WorkerStep
<1>3. id \in scan[w].range
  BY <1>1 DEF IsNext, Deliverable
<1>4. Owed(n) \subseteq scan[w].range
  BY <1>1, <1>3, VerifierAssumption
  DEF Accounts, ScanAccounts, ForwardLabels, Void, Left, NoTask
<1>5. ASSUME NEW x \in Owed(n), x # id PROVE x \in scan'[w].range
  <2>1. x \in IDs /\ x \in scan[w].range /\ src[n][x] # NoDoc
    BY <1>4, <1>5 DEF Owed
  <2>2. IsNext(w, src, id, ~opts.sampled)
    BY <1>1
  <2>3. ASSUME x \notin After(w, id, ~opts.sampled) PROVE src[task[w]][x] = NoDoc
    BY <1>5, <2>1, <2>2, <2>3, CursorPasses
  <2> QED BY <1>1, <2>1, <2>3
<1>6. CASE scan'[w].id = id /\ pc'[w] = "find"
  BY <1>1, <1>2, <1>5, <1>6 DEF ScanAccounts, Left, LaterLabels
<1>7. CASE pc'[w] = "next" /\ undecoded' = [undecoded EXCEPT ![n] = @ \cup {id}]
  <2>1. id \notin Owed(n)'
    BY <1>1, <1>7 DEF Owed, Types, TypeOK
  <2> QED BY <1>1, <1>2, <1>5, <1>7, <2>1 DEF ScanAccounts, Left, LaterLabels
<1> QED BY <1>1, <1>6, <1>7

LEMMA LookupAccounts ==
  ASSUME Types, Accounts, NEW w \in Workers, Compare(w) \/ Missing(w)
  PROVE  ScanAccounts(w)'
<1> DEFINE n == task[w]
           id == scan[w].id
<1>1. /\ scan'[w].range = scan[w].range
      /\ compared' = [compared EXCEPT ![n] = @ \cup {id}]
      /\ pc[w] = "find" /\ pc'[w] \in {"save", "next"} /\ task' = task /\ n \in NS
  BY LookupEffect
<1>2. Owed(n)' \subseteq Owed(n)
  BY <1>1, WorkerOwed DEF WorkerStep
<1>3. Owed(n) \subseteq scan[w].range \cup {id}
  BY <1>1, VerifierAssumption
  DEF Accounts, ScanAccounts, ForwardLabels, Void, Left, NoTask
<1>4. id \notin Owed(n)'
  BY <1>1 DEF Owed, Types, TypeOK
<1> QED BY <1>1, <1>2, <1>3, <1>4 DEF ScanAccounts, Left, LaterLabels

LEMMA SaveAccounts ==
  ASSUME Types, Accounts, NEW w \in Workers,
         Save(w) \/ SaveFile(w) \/ UpdateProgress(w) \/ TryAgain(w)
  PROVE  ScanAccounts(w)'
<1>1. task[w] # NoTask => Owed(task[w])' \subseteq Owed(task[w])
  <2>1. task[w] # NoTask => task[w] \in NS
    BY DEF Types, TypeOK
  <2>2. task' = task
    BY SavingEffect, RetryEffect
  <2> QED BY <2>1, <2>2, WorkerOwed DEF WorkerStep
<1>2. CASE Save(w) \/ SaveFile(w) \/ UpdateProgress(w)
  BY <1>1, <1>2, SavingEffect
  DEF Accounts, ScanAccounts, Left, Void, ForwardLabels, LaterLabels
<1>3. CASE TryAgain(w)
  <2>1. Void(w)' <=> Void(w)
    BY <1>3, RetryEffect DEF Void
  <2>2. Left(w)' = Left(w)
    BY <1>3, RetryEffect DEF Left
  <2>3. UNCHANGED <<pc, task, caveat, opts>>
    BY <1>3, RetryEffect
  <2> QED BY <1>1, <2>1, <2>2, <2>3 DEF Accounts, ScanAccounts
<1> QED BY <1>2, <1>3

(* The end of the scan, and what comes after it.                           *)
LEMMA EndAccounts ==
  ASSUME Types, Accounts, NEW w \in Workers, EndOfForward(w) PROVE ScanAccounts(w)'
<1> DEFINE n == task[w]
<1>1. /\ pc[w] = "next" /\ pc'[w] \in {"openRev", "publish"}
      /\ task' = task /\ n \in NS /\ opts' = opts
  BY DEF EndOfForward, EndForward, At, Goto, Read, kept, callVars, Types, TypeOK, InHand
<1>2. CASE Fails(w, "lost")
  BY <1>1, <1>2, LostAccounts DEF ForwardLabels
<1>3. CASE Deliverable(w, src) = {} /\ Succeeds
  <2>1. n \in StringKeyed => Owed(n) \subseteq scan[w].range
    BY <1>1, VerifierAssumption
    DEF Accounts, ScanAccounts, ForwardLabels, Void, Left, NoTask
  <2>2. n \in StringKeyed => Owed(n) = {}
    BY <1>3, <2>1, CursorExhausted DEF Owed
  <2>3. Owed(n)' \subseteq Owed(n)
    BY <1>1, WorkerOwed DEF WorkerStep
  <2> QED BY <1>1, <2>2, <2>3 DEF ScanAccounts, ForwardLabels
<1> QED BY <1>2, <1>3 DEF EndOfForward, CursorEnds

LEMMA EarlyAccounts ==
  ASSUME Types, NEW w \in Workers,
         Take(w) \/ Exit(w) \/ CountSource(w) \/ CountTarget(w) \/ Publish(w)
  PROVE  ScanAccounts(w)'
<1> USE DEF Goto, Types, TypeOK
<1>1. CASE Take(w) \/ Exit(w) \/ CountSource(w) \/ Publish(w)
  <2>1. pc'[w] \in {"countSrc", "exited", "countTgt", "idle"}
    BY <1>1 DEF Take, Exit, CountSource, Publish
  <2> QED BY <2>1 DEF ScanAccounts, ForwardLabels, LaterLabels
<1>2. CASE CountTarget(w)
  <2>1. opts' = opts /\ pc'[w] = IF opts.dryRun THEN "publish" ELSE "open"
    BY <1>2 DEF CountTarget, Read, kept, callVars
  <2> QED BY <2>1 DEF ScanAccounts, ForwardLabels, LaterLabels
<1> QED BY <1>1, <1>2

LEMMA LaterAccounts ==
  ASSUME Types, Accounts, NEW w \in Workers,
         \/ OpenForwardFails(w) \/ OpenReverse(w) \/ OpenReverseFails(w) \/ NextReverse(w)
         \/ SkipReverse(w) \/ EndOfReverse(w) \/ LookupSource(w)
  PROVE  ScanAccounts(w)'
<1>1. task' = task /\ task[w] \in NS /\ opts' = opts
  BY DEF OpenForwardFails, OpenReverse, OpenReverseFails, NextReverse, SkipReverse,
     EndOfReverse, LookupSource, At, Read, kept, callVars, Types, TypeOK, InHand
<1>2. pc'[w] \notin ForwardLabels
  BY AsideEffect DEF Aside
<1>3. CASE OpenForwardFails(w) \/ OpenReverseFails(w) \/ SkipReverse(w)
  BY <1>1, <1>2, <1>3, LostAccounts DEF OpenForwardFails, OpenReverseFails, SkipReverse
<1>4. CASE OpenReverse(w) \/ NextReverse(w) \/ EndOfReverse(w) \/ LookupSource(w)
  <2>1. pc[w] \in LaterLabels
    BY <1>4 DEF OpenReverse, NextReverse, EndOfReverse, LookupSource, At, LaterLabels
  <2>2. caveat[task[w]] \subseteq caveat'[task[w]]
    <3>1. CASE caveat' = caveat
      BY <3>1
    <3>2. ASSUME NEW what, Note(w, what) PROVE caveat[task[w]] \subseteq caveat'[task[w]]
      BY <1>1, <3>2 DEF Note, Types, TypeOK
    <3>3. CASE OpenReverse(w) \/ NextReverse(w)
      BY <3>1, <3>3 DEF OpenReverse, NextReverse
    <3>4. CASE EndOfReverse(w) \/ LookupSource(w)
      BY <3>1, <3>2, <3>4 DEF EndOfReverse, CursorEnds, LookupSource, Succeeds, Fails
    <3> QED BY <1>4, <3>3, <3>4
  <2>3. Owed(task[w])' \subseteq Owed(task[w])
    BY <1>1, <1>4, WorkerOwed DEF WorkerStep
  <2>4. task[w] # NoTask
    BY <1>1, VerifierAssumption DEF NoTask
  <2> QED BY <1>1, <1>2, <2>1, <2>2, <2>3, <2>4 DEF Accounts, ScanAccounts
<1> QED BY <1>3, <1>4

LEMMA OwnAccounts ==
  ASSUME Types, Accounts, NEW w \in Workers, WorkerStep(w) PROVE ScanAccounts(w)'
  BY StepKinds, OpenAccounts, NextAccounts, LookupAccounts, SaveAccounts, EndAccounts,
     EarlyAccounts, LaterAccounts DEF Aside

(* The scans of the others, and what is published already.                 *)
LEMMA OthersAccount ==
  ASSUME Types, Placed, Accounts, NEW w \in Workers, WorkerStep(w),
         NEW v \in Workers \ {w}
  PROVE  ScanAccounts(v)'
<1> SUFFICES ASSUME task[v] # NoTask PROVE ScanAccounts(v)'
  BY WorkerMovesOnly DEF OnlyMoves, ScanAccounts
<1>1. task[v] \in NS \ {task[w]}
  BY DEF Types, TypeOK, Placed
<1>2. /\ pc'[v] = pc[v] /\ task'[v] = task[v] /\ scan'[v] = scan[v] /\ opts' = opts
      /\ caveat'[task[v]] = caveat[task[v]]
  BY <1>1, WorkerMovesOnly DEF OnlyMoves
<1>3. Owed(task[v])' \subseteq Owed(task[v])
  BY <1>1, <1>2, WorkerOwed
<1>4. (Void(v)' <=> Void(v)) /\ Left(v)' = Left(v)
  BY <1>2 DEF Void, Left
<1> QED BY <1>2, <1>3, <1>4 DEF Accounts, ScanAccounts

LEMMA WorkerReaches ==
  ASSUME Types, Placed, Accounts, NEW w \in Workers, WorkerStep(w)
  PROVE  ResumeReachesAll'
<1> SUFFICES ASSUME NEW n \in StringKeyed \cap published', ~opts'.dryRun,
                    "lost" \notin caveat'[n]
             PROVE  Owed(n)' = {}
  BY VerifierAssumption, ReachesOwed
  DEF ResumeReachesAll, ResumeReachesAllOf, AccountedUpTo, Owed
<1>1. n \in NS /\ opts' = opts /\ ~opts.sampled
  BY VerifierAssumption, WorkerMovesOnly DEF OnlyMoves, Accounts
<1>2. CASE n \in published
  <2>1. caveat'[n] = caveat[n]
    BY <1>1, <1>2, WorkerMovesOnly DEF OnlyMoves, Placed
  <2>2. Owed(n) = {}
    BY <1>1, <1>2, <2>1, ReachesOwed DEF Accounts, ResumeReachesAll, ResumeReachesAllOf
  <2> QED BY <1>1, <2>2, WorkerOwed
<1>3. CASE n \notin published
  <2>1. Publish(w) /\ n = task[w] /\ pc[w] = "publish" /\ caveat' = caveat
    BY <1>3, WorkIsOwn
    DEF OwnWork, Take, Exit, UpdateProgress, Publish, kept, At
  <2>2. Owed(n) = {}
    BY <1>1, <2>1, VerifierAssumption DEF Accounts, ScanAccounts, LaterLabels, NoTask
  <2> QED BY <1>1, <2>2, WorkerOwed
<1> QED BY <1>2, <1>3

LEMMA FreshReaches ==
  ASSUME FreshCall PROVE ResumeReachesAll' /\ \A w \in Workers : ScanAccounts(w)'
  BY DEF FreshCall, ResumeReachesAll, ResumeReachesAllOf, ScanAccounts

LEMMA StillAccounts ==
  ASSUME Types, Accounts, [Next]_vars,
         UNCHANGED <<pc, task, scan, opts, published, caveat>>
  PROVE  ResumeReachesAll' /\ \A w \in Workers : ScanAccounts(w)'
<1>1. ASSUME NEW n \in NS PROVE Owed(n)' \subseteq Owed(n)
  BY StepKeeps, OwedShrinks
<1>2. ASSUME NEW w \in Workers PROVE ScanAccounts(w)'
  <2>1. (Void(w)' <=> Void(w)) /\ Left(w)' = Left(w)
    BY DEF Void, Left
  <2>2. task[w] # NoTask => Owed(task[w])' \subseteq Owed(task[w])
    BY <1>1 DEF Types, TypeOK
  <2> QED BY <2>1, <2>2 DEF Accounts, ScanAccounts
<1>3. ResumeReachesAll'
  <2> SUFFICES ASSUME NEW n \in StringKeyed \cap published, ~opts.dryRun,
                      "lost" \notin caveat[n]
               PROVE  Owed(n)' = {}
    BY VerifierAssumption DEF ResumeReachesAll, ResumeReachesAllOf, AccountedUpTo, Owed
  <2> QED BY <1>1, VerifierAssumption, ReachesOwed
          DEF Accounts, ResumeReachesAll, ResumeReachesAllOf
<1> QED BY <1>2, <1>3

LEMMA InitAccounts == Unsampled /\ Init => Accounts
<1> SUFFICES ASSUME Unsampled, Init PROVE Accounts
  OBVIOUS
<1>1. ASSUME NEW id \in IDs PROVE ~(id <= NoID)
  BY <1>1, NothingBefore DEF NoID
<1>2. CheckpointCovers
  BY <1>1 DEF Init, CheckpointCovers, AccountedUpTo, Checkpointed, EmptyMap
<1> QED BY <1>2 DEF Init, Unsampled, Accounts, ResumeReachesAll, ResumeReachesAllOf, ScanAccounts

LEMMA NextAccounted ==
  Unsampled /\ Types /\ Placed /\ Gone /\ Onward /\ Accounts /\ [Next]_vars => Accounts'
<1> SUFFICES ASSUME Unsampled, Types, Placed, Gone, Onward, Accounts, [Next]_vars
             PROVE  Accounts'
  OBVIOUS
<1> DEFINE Scans == ResumeReachesAll /\ \A w \in Workers : ScanAccounts(w)
<1>1. CheckpointCovers'
  BY NextCovers
<1>2. ASSUME NEW w \in Workers, WorkerStep(w) PROVE Scans' /\ opts' = opts
  <2>1. \A v \in Workers : ScanAccounts(v)'
    BY <1>2, OwnAccounts, OthersAccount
  <2>2. ResumeReachesAll' /\ opts' = opts
    BY <1>2, WorkerReaches, WorkerMovesOnly DEF OnlyMoves
  <2> QED BY <2>1, <2>2
<1>3. ASSUME NEW w \in Workers, SaveCheckpointPanics(w) \/ BarUpdatePanics(w)
      PROVE  Scans' /\ opts' = opts
  BY <1>3, FreshReaches DEF SaveCheckpointPanics, BarUpdatePanics, ProcessEnds
<1>4. CASE Crash
  <2>1. Scans' /\ opts' = opts
    BY <1>4, FreshReaches DEF Crash, ProcessEnds
  <2> QED BY <1>1, <2>1 DEF Accounts
<1>5. CASE NextCall
  <2>1. Scans' /\ ~opts'.sampled
    BY <1>5, FreshReaches DEF NextCall, Unsampled
  <2> QED BY <1>1, <2>1 DEF Accounts
<1>6. CASE Restart
  <2>1. published' = {} /\ \A w \in Workers : task'[w] = NoTask
    BY <1>6 DEF Restart, Boot, Gone
  <2>2. Scans'
    BY <2>1 DEF ResumeReachesAll, ResumeReachesAllOf, ScanAccounts
  <2>3. ~opts'.sampled
    BY <1>6 DEF Restart, Unsampled
  <2> QED BY <1>1, <2>2, <2>3 DEF Accounts
<1>7. ASSUME UNCHANGED <<pc, task, scan, opts, published, caveat>> PROVE Accounts'
  BY <1>1, <1>7, StillAccounts DEF Accounts
<1>8. CASE Return \/ UNCHANGED vars
  BY <1>7, <1>8 DEF Return, vars, allCpVars, callVars
<1>9. ASSUME NEW n \in NS, NEW id \in IDs,
             \/ \E v \in Versions \cup {NoDoc} : SourceWrite(n, id, v)
             \/ Replicate(n, id)
      PROVE  Accounts'
  BY <1>7, <1>9 DEF SourceWrite, Replicate, Writes, allCpVars, callVars
<1>10. ASSUME Scans', opts' = opts PROVE Accounts'
  BY <1>1, <1>10 DEF Accounts
<1> QED BY <1>2, <1>3, <1>4, <1>5, <1>6, <1>8, <1>9, <1>10 DEF Next, Stopped

LEMMA AccountsAlways == ASSUME Unsampled PROVE Spec => []Accounts
<1>1. Init => Gone
  BY DEF Init, Gone
<1>2. Init => Accounts
  BY InitAccounts
<1>3. Types /\ Placed /\ Gone /\ Onward /\ Accounts /\ [Next]_vars => Accounts'
  BY NextAccounted
<1> QED BY InitTypes, NextTypes, InitPlaced, NextPlaced, NextGone, InitOnward, NextOnward,
           <1>1, <1>2, <1>3, PTL DEF Spec

(* In a deployment that never samples, a checkpoint in memory or in the    *)
(* file is behind the comparison: every source document up to it that      *)
(* nobody changed has been looked up, through kills, torn files, restarts  *)
(* and later calls.                                                        *)
THEOREM CheckpointsCover == ASSUME Unsampled PROVE Spec => []CheckpointCovers
<1>1. Accounts => CheckpointCovers
  BY DEF Accounts
<1> QED BY AccountsAlways, <1>1, PTL

(* There, when a scan of string _ids is published and lost nothing, it and *)
(* those it resumed from have between them looked up every source document *)
(* that nobody changed.                                                    *)
THEOREM ResumesReachAll == ASSUME Unsampled PROVE Spec => []ResumeReachesAll
<1>1. Accounts => ResumeReachesAll
  BY DEF Accounts
<1> QED BY AccountsAlways, <1>1, PTL

-----------------------------------------------------------------------------
(* The file and the map.  Apart from saves, a worker leaves checkpoints    *)
(* alone, and no step makes a failure unhappen.                            *)
LEMMA NoSaveNoChange ==
  ASSUME Types, NEW w \in Workers, WorkerStep(w), ~Save(w), ~SaveFile(w)
  PROVE  UNCHANGED <<cpVars, proc>> /\ (faults' = 0 => faults = 0)
<1>1. faults \in Nat
  BY CheckpointAssumption DEF Types, TypeOK
<1>2. Fault => faults' # 0
  BY <1>1 DEF Fault
<1> USE DEF Read, kept, Succeeds, Fails
<1>3. CASE Take(w) \/ Exit(w) \/ TryAgain(w) \/ Publish(w) \/ UpdateProgress(w)
  BY <1>2, <1>3 DEF Take, Exit, TryAgain, Publish, UpdateProgress
<1>4. CASE CountSource(w) \/ CountTarget(w)
  BY <1>2, <1>4 DEF CountSource, CountTarget, CountWithRetry
<1>5. CASE OpenForward(w) \/ OpenForwardFails(w) \/ NextForward(w) \/ SkipForward(w)
           \/ EndOfForward(w)
  BY <1>2, <1>5 DEF OpenForward, OpenForwardFails, NextForward, SkipForward, EndOfForward,
     CursorEnds
<1>6. CASE Compare(w) \/ Missing(w)
  BY <1>2, <1>6 DEF Compare, Missing
<1>7. CASE OpenReverse(w) \/ OpenReverseFails(w) \/ NextReverse(w) \/ SkipReverse(w)
           \/ EndOfReverse(w) \/ LookupSource(w)
  BY <1>2, <1>7 DEF OpenReverse, OpenReverseFails, NextReverse, SkipReverse, EndOfReverse,
     CursorEnds, LookupSource
<1> QED BY <1>3, <1>4, <1>5, <1>6, <1>7 DEF WorkerStep

LEMMA SaveFollows ==
  ASSUME Types, FileFollowsMap, NEW w \in Workers, Save(w) \/ SaveFile(w)
  PROVE  FileFollowsMap'
<1> USE CheckpointAssumption
<1>1. /\ cpMu # Free => cpData \in Maps
      /\ \A v \in Workers : pc[v] \in {"truncate", "write"} <=> cpMu = v
      /\ faults \in Nat
  BY DEF Types, TypeOK, HoldsLock, HolderHasMap
<1>2. CASE Save(w)
  BY <1>2 DEF Save, SaveCheckpoint, FileFollowsMap
<1>3. CASE TruncateFile(w)
  BY <1>1, <1>3 DEF TruncateFile, At, FileFollowsMap
<1>4. CASE OpenFileFails(w) \/ WriteFileFails(w)
  BY <1>1, <1>4 DEF OpenFileFails, WriteFileFails, Fault, FileFollowsMap
<1>5. CASE WriteFile(w)
  BY <1>1, <1>5 DEF WriteFile, At, FileFollowsMap, Loaded
<1> QED BY <1>2, <1>3, <1>4, <1>5 DEF SaveFile, FileOps

LEMMA NextFollows == Types /\ FileFollowsMap /\ [Next]_vars => FileFollowsMap'
<1> SUFFICES ASSUME Types, FileFollowsMap, [Next]_vars PROVE FileFollowsMap'
  OBVIOUS
<1>1. ASSUME UNCHANGED <<cpVars, proc>>, faults' = 0 => faults = 0 PROVE FileFollowsMap'
  BY <1>1 DEF cpVars, FileFollowsMap, Loaded
<1>2. ASSUME NEW w \in Workers, WorkerStep(w) PROVE FileFollowsMap'
  BY <1>1, <1>2, NoSaveNoChange, SaveFollows
<1>3. ASSUME NEW w \in Workers, SaveCheckpointPanics(w) \/ BarUpdatePanics(w)
      PROVE  FileFollowsMap'
  BY <1>3 DEF SaveCheckpointPanics, SavePanics, BarUpdatePanics, Die, FileFollowsMap
<1>4. CASE Crash
  BY <1>4 DEF Crash, Kill, Die, FileFollowsMap
<1>5. CASE Restart
  BY <1>5 DEF Restart, Boot, FileFollowsMap, Loaded
<1>6. CASE Return \/ NextCall \/ UNCHANGED vars
  BY <1>1, <1>6 DEF Return, NextCall, vars, allCpVars, cpVars
<1>7. ASSUME NEW n \in NS, NEW id \in IDs,
             \/ \E v \in Versions \cup {NoDoc} : SourceWrite(n, id, v)
             \/ Replicate(n, id)
      PROVE  FileFollowsMap'
  BY <1>1, <1>7 DEF SourceWrite, Replicate, Writes, allCpVars, cpVars
<1> QED BY <1>2, <1>3, <1>4, <1>5, <1>6, <1>7 DEF Next, Stopped

(* What Checkpoint promises of its operations holds of the verifier that   *)
(* calls them, whose goroutines also die of a panic in the progress bar    *)
(* and start over in a later call: while nothing failed and nobody is      *)
(* saving, checkpoints.json holds the checkpoints in memory.               *)
THEOREM VerifierSavesAll == Spec => []FileFollowsMap
<1>1. Init => FileFollowsMap
  BY EmptyMapType, CheckpointAssumption DEF Init, FileFollowsMap, Loaded
<1> QED BY InitTypes, NextTypes, NextFollows, <1>1, PTL DEF Spec
=============================================================================
