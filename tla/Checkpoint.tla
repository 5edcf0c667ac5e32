----------------------------- MODULE Checkpoint -----------------------------
(***************************************************************************)
(* internal/utils/checkpoint.go: the map cpData, the mutex cpMu that       *)
(* guards it, and the file checkpoints.json it is rewritten to on every    *)
(* save.  os.WriteFile is not atomic: it truncates the file and then       *)
(* writes it, and either half may fail (the error is ignored) or be the    *)
(* last thing the process does.                                            *)
(*                                                                         *)
(* A worker w saves with pc[w] going "save" -> "truncate" -> "write" ->    *)
(* "report".  The module is a component: DataVerifier extends it and       *)
(* takes its actions.  CpSpec closes it with workers that save whatever    *)
(* they like, so that it is checked and proved about on its own.           *)
(***************************************************************************)
EXTENDS Naturals, FiniteSets

CONSTANTS
    NS,          \* namespaces "db.collection"
    Workers,     \* the goroutines of VerifyAllData
    IDs,         \* _id values; their order is the server's sort order
    MaxFaults,   \* bound: failed operations in a behaviour
    MaxCrashes,  \* bound: times the process is killed
    Nil,         \* the nil map
    Torn,        \* a checkpoints.json that is not valid JSON
    Free         \* no goroutine holds cpMu

NoID == 0        \* a namespace without an entry in the map

Maps == [NS -> IDs \cup {NoID}]

ASSUME CheckpointAssumption ==
    /\ IDs \subseteq Nat \ {NoID}
    /\ MaxFaults \in Nat
    /\ MaxCrashes \in Nat
    /\ Free \notin Workers
    /\ Nil \notin Maps
    /\ Torn \notin Maps

VARIABLES
    pc,          \* where each worker is
    proc,        \* "up" or "down"
    cpMu,        \* the worker inside SaveCheckpoint, or Free
    cpData,      \* the map in memory
    file,        \* checkpoints.json
    faults,      \* operations failed so far
    crashes      \* times the process has been killed so far

cpVars == <<cpMu, cpData, file>>
allCpVars == <<pc, proc, cpMu, cpData, file, faults, crashes>>

EmptyMap == [n \in NS |-> NoID]

At(w, label) == proc = "up" /\ pc[w] = label
Goto(w, label) == pc' = [pc EXCEPT ![w] = label]
Fault == faults < MaxFaults /\ faults' = faults + 1

-----------------------------------------------------------------------------
(* Mutant of Loaded: a loader that keeps whatever the file held.           *)
LoadedUnparsed(f) == f

(* loadCheckpoints: a missing file gives the empty map; a file that does   *)
(* not parse leaves m nil, the error of Unmarshal being dropped.           *)
Loaded(f) == IF f = Torn THEN Nil ELSE f

(* LoadCheckpoint: reading a nil map is legal and finds nothing.           *)
Checkpointed(n) == IF cpData = Nil THEN NoID ELSE cpData[n]

(* Mutant of SaveCheckpoint: without cpMu.Lock().                          *)
SaveCheckpointUnlocked(w, n, id) ==
    /\ At(w, "save")
    /\ cpData # Nil
    /\ cpMu' = w
    /\ cpData' = [cpData EXCEPT ![n] = id]
    /\ Goto(w, "truncate")
    /\ UNCHANGED <<proc, file, faults, crashes>>

(* SaveCheckpoint takes the mutex and updates the map ...                  *)
SaveCheckpoint(w, n, id) ==
    /\ At(w, "save")
    /\ cpMu = Free
    /\ cpData # Nil
    /\ cpMu' = w
    /\ cpData' = [cpData EXCEPT ![n] = id]
    /\ Goto(w, "truncate")
    /\ UNCHANGED <<proc, file, faults, crashes>>

(* Mutant of TruncateFile: the mutex covers the map only, not the file.    *)
TruncateFileUnlocked(w) ==
    /\ At(w, "truncate")
    /\ file' = Torn
    /\ cpMu' = Free
    /\ Goto(w, "write")
    /\ UNCHANGED <<proc, cpData, faults, crashes>>

(* ... opens checkpoints.json with O_TRUNC ...                             *)
TruncateFile(w) ==
    /\ At(w, "truncate")
    /\ file' = Torn
    /\ Goto(w, "write")
    /\ UNCHANGED <<proc, cpMu, cpData, faults, crashes>>

(* Mutant of OpenFileFails: an early return that forgets the mutex.        *)
OpenFileFailsLocked(w) ==
    /\ At(w, "truncate")
    /\ Fault
    /\ Goto(w, "report")
    /\ UNCHANGED <<proc, cpMu, cpData, file, crashes>>

(* ... or cannot open it: the file stays as it was, the save returns ...   *)
OpenFileFails(w) ==
    /\ At(w, "truncate")
    /\ Fault
    /\ cpMu' = Free
    /\ Goto(w, "report")
    /\ UNCHANGED <<proc, cpData, file, crashes>>

(* ... writes the whole map and releases the mutex ...                     *)
WriteFile(w) ==
    /\ At(w, "write")
    /\ file' = cpData
    /\ cpMu' = Free
    /\ Goto(w, "report")
    /\ UNCHANGED <<proc, cpData, faults, crashes>>

(* ... or stops part of the way (disk full), which nobody notices.         *)
WriteFileFails(w) ==
    /\ At(w, "write")
    /\ Fault
    /\ cpMu' = Free
    /\ Goto(w, "report")
    /\ UNCHANGED <<proc, cpData, file, crashes>>

(* The process ends: memory and mutex are gone, the file stays.            *)
Die ==
    /\ proc' = "down"
    /\ cpMu' = Free
    /\ cpData' = Nil
    /\ UNCHANGED file

(* Assigning to an entry of the nil map panics, which no goroutine         *)
(* recovers from.                                                          *)
SavePanics(w) ==
    /\ At(w, "save")
    /\ cpMu = Free
    /\ cpData = Nil
    /\ Die
    /\ UNCHANGED <<faults, crashes>>

(* The process is killed: an OOM, a reboot, an operator.                   *)
Kill ==
    /\ proc = "up"
    /\ crashes < MaxCrashes
    /\ crashes' = crashes + 1
    /\ Die
    /\ UNCHANGED faults

(* init() of the next process loads the file.                              *)
Boot ==
    /\ proc = "down"
    /\ proc' = "up"
    /\ cpData' = Loaded(file)
    /\ UNCHANGED <<cpMu, file, faults, crashes>>

FileOps(w) ==
    \/ TruncateFile(w) \/ OpenFileFails(w)
    \/ WriteFile(w) \/ WriteFileFails(w)

-----------------------------------------------------------------------------
(* The component on its own: between two saves a worker does something     *)
(* else ("report"), and a restarted process starts its workers there.      *)
Labels == {"report", "save", "truncate", "write"}

CpInit ==
    /\ pc = [w \in Workers |-> "report"]
    /\ proc = "up"
    /\ cpMu = Free
    /\ cpData = EmptyMap
    /\ file = EmptyMap
    /\ faults = 0
    /\ crashes = 0

Request(w) ==
    /\ At(w, "report")
    /\ Goto(w, "save")
    /\ UNCHANGED <<proc, cpMu, cpData, file, faults, crashes>>

CpSave(w) == \E n \in NS, id \in IDs : SaveCheckpoint(w, n, id)
AllGone == pc' = [w \in Workers |-> "report"]

CpNext ==
    \/ \E w \in Workers :
           \/ Request(w)
           \/ CpSave(w)
           \/ FileOps(w)
           \/ SavePanics(w) /\ AllGone
    \/ Kill /\ AllGone
    \/ Boot /\ UNCHANGED pc

CpSpec == CpInit /\ [][CpNext]_allCpVars

(* A goroutine that can run is run; sync.Mutex hands over to a waiter that *)
(* has waited for 1ms (its starvation mode), hence SF for the lock.        *)
CpFairSpec ==
    /\ CpSpec
    /\ \A w \in Workers :
           /\ WF_allCpVars(FileOps(w))
           /\ SF_allCpVars(CpSave(w))

-----------------------------------------------------------------------------
(* The types of the component's state.                                     *)
CpTypeOK ==
    /\ pc \in [Workers -> Labels]
    /\ proc \in {"up", "down"}
    /\ cpMu \in Workers \cup {Free}
    /\ cpData \in Maps \cup {Nil}
    /\ file \in Maps \cup {Torn}
    /\ faults \in 0 .. MaxFaults
    /\ crashes \in 0 .. MaxCrashes

(* Only the holder of cpMu is between updating the map and writing it out, *)
(* so no two goroutines rewrite checkpoints.json at the same time.         *)
HoldsLock == \A w \in Workers : pc[w] \in {"truncate", "write"} <=> cpMu = w

(* While no operation has failed, whenever nobody is saving the file holds *)
(* what memory holds: no save of one goroutine is undone by the write of   *)
(* another, and a restart continues from the newest checkpoints (or, after *)
(* a torn write, from the nil map that the torn file loads as).            *)
FileFollowsMap ==
    (proc = "up" /\ cpMu = Free /\ faults = 0) => cpData = Loaded(file)

(* Every call of SaveCheckpoint returns, unless the process ends first.    *)
SaveReturns == \A w \in Workers :
    (pc[w] = "save") ~> (pc[w] = "report" \/ proc = "down" \/ cpData = Nil)
=============================================================================
