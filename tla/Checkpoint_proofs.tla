-------------------------- MODULE Checkpoint_proofs --------------------------
(***************************************************************************)
(* What Checkpoint promises, for any namespaces, goroutines and _id        *)
(* values, and for any number of failed writes and kills.                  *)
(***************************************************************************)
EXTENDS Checkpoint, TLAPS

(* The holder of the mutex got past the assignment to the map, so the map  *)
(* it is about to write is not nil; a dead process holds nothing.          *)
HolderHasMap == cpMu # Free => proc = "up" /\ cpData # Nil

CpInv == CpTypeOK /\ HoldsLock /\ HolderHasMap /\ FileFollowsMap

LEMMA EmptyMapType == EmptyMap \in Maps
  BY DEF EmptyMap, Maps

LEMMA CpInitInv == CpInit => CpInv
  BY CheckpointAssumption, EmptyMapType
  DEF CpInit, CpInv, CpTypeOK, Labels, HoldsLock, HolderHasMap, FileFollowsMap,
      Loaded

(* Each operation preserves the invariant.                                 *)
LEMMA CpNextInv == CpInv /\ [CpNext]_allCpVars => CpInv'
<1> SUFFICES ASSUME CpInv, [CpNext]_allCpVars PROVE CpInv'
  OBVIOUS
<1> USE CheckpointAssumption, EmptyMapType
<1> USE DEF CpInv, CpTypeOK, Labels, HoldsLock, HolderHasMap, FileFollowsMap,
            Loaded, At, Goto
<1>1. ASSUME NEW w \in Workers, Request(w) PROVE CpInv'
  BY <1>1 DEF Request
<1>2. ASSUME NEW w \in Workers, CpSave(w) PROVE CpInv'
  <2>1. PICK n \in NS, id \in IDs : SaveCheckpoint(w, n, id)
    BY <1>2 DEF CpSave
  <2>2. cpData' \in Maps
    BY <2>1 DEF SaveCheckpoint, Maps
  <2> QED BY <2>1, <2>2 DEF SaveCheckpoint
<1>3. ASSUME NEW w \in Workers, FileOps(w) PROVE CpInv'
  <2>1. CASE TruncateFile(w)
    BY <2>1 DEF TruncateFile
  <2>2. CASE OpenFileFails(w)
    BY <2>2 DEF OpenFileFails, Fault
  <2>3. CASE WriteFile(w)
    BY <2>3 DEF WriteFile
  <2>4. CASE WriteFileFails(w)
    BY <2>4 DEF WriteFileFails, Fault
  <2> QED BY <1>3, <2>1, <2>2, <2>3, <2>4 DEF FileOps
<1>4. ASSUME NEW w \in Workers, SavePanics(w) /\ AllGone PROVE CpInv'
  BY <1>4 DEF SavePanics, Die, AllGone
<1>5. ASSUME Kill /\ AllGone PROVE CpInv'
  BY <1>5 DEF Kill, Die, AllGone
<1>6. ASSUME Boot /\ UNCHANGED pc PROVE CpInv'
  BY <1>6 DEF Boot
<1>7. CASE UNCHANGED allCpVars
  BY <1>7 DEF allCpVars
<1> QED BY <1>1, <1>2, <1>3, <1>4, <1>5, <1>6, <1>7 DEF CpNext

(* The state of the component keeps its types.                             *)
THEOREM CpTypeCorrect == CpSpec => []CpTypeOK
<1>1. CpInv => CpTypeOK
  BY DEF CpInv
<1> QED BY CpInitInv, CpNextInv, <1>1, PTL DEF CpSpec

(* SaveCheckpoint excludes itself: only the holder of cpMu touches the     *)
(* file.                                                                   *)
THEOREM CpMutualExclusion == CpSpec => []HoldsLock
<1>1. CpInv => HoldsLock
  BY DEF CpInv
<1> QED BY CpInitInv, CpNextInv, <1>1, PTL DEF CpSpec

(* As long as no write failed, the file and the map agree whenever the     *)
(* mutex is free, through every interleaving of saves, kills and restarts. *)
THEOREM CpFileFollowsMap == CpSpec => []FileFollowsMap
<1>1. CpInv => FileFollowsMap
  BY DEF CpInv
<1> QED BY CpInitInv, CpNextInv, <1>1, PTL DEF CpSpec
=============================================================================
