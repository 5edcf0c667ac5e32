------------------------ MODULE AlertManager_proofs ------------------------
(***************************************************************************)
(* Proofs about AlertManager, for any number of namespaces, goroutines and *)
(* calls, any cooldown and any configuration.                              *)
(*                                                                         *)
(* What the manager remembers is tied to what has happened: firedKeys to   *)
(* the alerts raised, lastPct to the highest progress, and lastPctTime is  *)
(* no earlier than the time that was reached.  This Memory is inductive,   *)
(* and each of the action properties is one case of Check under it.        *)
(***************************************************************************)
EXTENDS AlertManager, TLAPS

Memory ==
    /\ firedKeys = alerted
    /\ highest.pct = lastPct
    /\ highest.at <= lastPctTime
    /\ \A k \in Keys : alerted[k] <= now

IInv == TypeOK /\ Memory

USE DEF Never, At, Goto, scanVars, managerVars, vars

(* A progress is a number.                                                 *)
LEMMA PctNat == ASSUME TypeOK, NEW w \in Workers PROVE Pct(w) \in Nat
  <1>1. total[w] \in Nat /\ done[w] \in Nat
    BY DEF TypeOK
  <1>2. total[w] # 0 => (done[w] * 100) \div total[w] \in Nat
    BY <1>1
  <1> QED BY <1>1, <1>2 DEF Pct, PctInf

(* The beginning.                                                          *)
LEMMA InitIInv == Init => IInv
  BY AlertAssumption, SMTT(30) DEF Init, IInv, TypeOK, Memory, NoFindings, Kinds

(* Check keeps the invariant.                                              *)
LEMMA CheckIInv == ASSUME IInv, NEW w \in Workers, Check(w) PROVE IInv'
  <1> USE DEF Check
  <1>1. task[w] \in NS /\ Pct(w) \in Nat
    BY PctNat, AlertAssumption DEF IInv, TypeOK
  <1>2. mu' = Free /\ pc' = [pc EXCEPT ![w] = "scan"]
    BY DEF Unlocked
  <1>3. CASE ~cfg.Enabled
    BY <1>2, <1>3, AlertAssumption DEF IInv, TypeOK, Memory
  <1>4. CASE cfg.Enabled
    <2>1. /\ lastPct' = (IF Moved(w) THEN Pct(w) ELSE lastPct)
          /\ highest' = IF Pct(w) > highest.pct THEN [pct |-> Pct(w), at |-> now] ELSE highest
          /\ lastPctTime' = IF Moved(w) \/ Stuck(w) THEN now ELSE lastPctTime
          /\ firedKeys' = [k \in Keys |-> IF k \in Fired(w) THEN now ELSE firedKeys[k]]
          /\ alerted' = [k \in Keys |-> IF k \in Fired(w) THEN now ELSE alerted[k]]
      BY <1>4 DEF PctTime, Remember
    <2>2. /\ lastPct \in Nat /\ highest \in [pct : Nat, at : Nat] /\ now \in Nat \ {0}
          /\ lastPctTime \in Nat \ {0} /\ lastPctTime <= now
          /\ firedKeys \in [Keys -> Nat] /\ alerted \in [Keys -> Nat]
      BY DEF IInv, TypeOK
    <2>3. lastPct' \in Nat /\ lastPctTime' \in Nat \ {0} /\ lastPctTime' <= now
      BY <2>1, <2>2, <1>1
    <2>4. highest' \in [pct : Nat, at : Nat] /\ highest'.pct = lastPct' /\ highest'.at <= lastPctTime'
      BY <2>1, <2>2, <1>1 DEF IInv, Memory, Moved
    <2>5. firedKeys' \in [Keys -> Nat] /\ alerted' \in [Keys -> Nat]
      BY <2>1, <2>2
    <2>6. firedKeys' = alerted' /\ \A k \in Keys : alerted'[k] <= now
      BY <2>1, <2>2 DEF IInv, Memory
    <2>7. TypeOK'
      BY <1>1, <1>2, <2>2, <2>3, <2>4, <2>5, AlertAssumption DEF IInv, TypeOK
    <2> QED BY <2>4, <2>6, <2>7 DEF IInv, Memory
  <1> QED BY <1>3, <1>4

(* The other steps of a goroutine, which leave the manager alone.          *)
LEMMA ScanIInv ==
  ASSUME IInv, NEW w \in Workers, Begin(w) \/ Thousand(w) \/ Write(w) \/ End(w) PROVE IInv'
  <1> SUFFICES TypeOK'
    BY DEF IInv, Memory, Begin, Thousand, Write, End
  <1> USE AlertAssumption DEF IInv, TypeOK
  <1>1. CASE Begin(w)
    <2> PICK n \in todo, t \in Totals :
          /\ todo' = todo \ {n}
          /\ task' = [task EXCEPT ![w] = n]
          /\ total' = [total EXCEPT ![w] = t]
      BY <1>1 DEF Begin
    <2> QED BY <1>1 DEF Begin
  <1>2. CASE Thousand(w)
    <2> PICK more \in PerBatch :
          found' = [found EXCEPT ![w] = [kind \in Kinds |-> @[kind] + more[kind]]]
      BY <1>2 DEF Thousand
    <2>1. [kind \in Kinds |-> found[w][kind] + more[kind]] \in [Kinds -> Nat]
      <3>1. found[w] \in [Kinds -> Nat] /\ more \in [Kinds -> Nat]
        OBVIOUS
      <3> QED BY <3>1
    <2>2. found' \in [Workers -> [Kinds -> Nat]] /\ done' \in [Workers -> Nat]
      BY <2>1, <1>2 DEF Thousand
    <2> QED BY <2>2, <1>2 DEF Thousand
  <1>3. CASE Write(w)
    BY <1>3 DEF Write
  <1>4. CASE End(w)
    <2>1. NoFindings \in [Kinds -> Nat]
      BY DEF NoFindings
    <2> QED BY <2>1, <1>4 DEF End
  <1> QED BY <1>1, <1>2, <1>3, <1>4

(* Every step keeps the invariant.                                         *)
LEMMA NextIInv == IInv /\ [Next]_vars => IInv'
  <1> SUFFICES ASSUME IInv, [Next]_vars PROVE IInv'
    OBVIOUS
  <1>1. CASE \E w \in Workers : WorkerStep(w)
    BY <1>1, CheckIInv, ScanIInv DEF WorkerStep
  <1>2. CASE Send
    BY <1>2 DEF Send, IInv, TypeOK, Memory
  <1>3. CASE NextCall
    BY <1>3 DEF NextCall, IInv, TypeOK, Memory
  <1>4. CASE Tick
    BY <1>4 DEF Tick, IInv, TypeOK, Memory
  <1>5. CASE UNCHANGED vars
    BY <1>5 DEF IInv, TypeOK, Memory
  <1> QED BY <1>1, <1>2, <1>3, <1>4, <1>5 DEF Next

(* The invariant holds for ever.                                           *)
THEOREM Remembers == Spec => []IInv
  BY InitIInv, NextIInv, PTL DEF Spec

(* The types of the alert manager and of the scans that call it.           *)
THEOREM AlertTypeCorrect == Spec => []TypeOK
  BY Remembers, PTL DEF IInv

-----------------------------------------------------------------------------
(* Only Check raises an alert.                                             *)
LEMMA OnlyCheckAlerts ==
  ASSUME IInv, [Next]_vars, alerted' # alerted
  PROVE  \E w \in Workers : Check(w) /\ cfg.Enabled
  BY DEF Next, WorkerStep, Begin, Thousand, Write, Check, End, Send, NextCall, Tick

(* What a check does to the time of a key's last alert.                    *)
LEMMA CheckAlerts ==
  ASSUME IInv, NEW w \in Workers, Check(w), cfg.Enabled
  PROVE  /\ alerted' = [k \in Keys |-> IF k \in Fired(w) THEN now ELSE alerted[k]]
         /\ \A k \in Fired(w) : alerted[k] # 0 => now - alerted[k] >= Cooldown
  BY DEF Check, IInv, Memory, Fired, CooledDown

(* fireOnce keeps its promise: two alerts of one key are a cooldown apart. *)
THEOREM CooldownIsKept == Spec => CooldownKept
  <1>1. ASSUME IInv, [Next]_vars, NEW k \in Keys, alerted'[k] # alerted[k], alerted[k] # Never
        PROVE  alerted'[k] - alerted[k] >= Cooldown
    <2>1. PICK w \in Workers : Check(w) /\ cfg.Enabled
      BY <1>1, OnlyCheckAlerts
    <2> QED BY <1>1, <2>1, CheckAlerts
  <1>2. IInv /\ [Next]_vars =>
          [\A k \in Keys : alerted'[k] # alerted[k] /\ alerted[k] # Never =>
              alerted'[k] - alerted[k] >= Cooldown]_vars
    BY <1>1
  <1> QED BY <1>2, Remembers, PTL DEF Spec, CooldownKept

(* A counter that Check sees above its threshold has been alerted about    *)
(* within the last cooldown, whatever else is being alerted about.         *)
THEOREM FindingsAlerted == Spec => FindingsAreAlerted
  <1> DEFINE Heard(w, kind) ==
        /\ cfg.Enabled /\ At(w, "check") /\ pc'[w] # "check"
        /\ found[w][kind] > cfg.Threshold[kind]
        => LET last == alerted'[Key(kind, task[w])]
           IN  last # Never /\ now - last < Cooldown
  <1>1. ASSUME IInv, [Next]_vars, NEW w \in Workers, NEW kind \in Kinds PROVE Heard(w, kind)
    <2> SUFFICES ASSUME cfg.Enabled, pc[w] = "check", pc'[w] # "check",
                        found[w][kind] > cfg.Threshold[kind]
                 PROVE  LET last == alerted'[Key(kind, task[w])]
                        IN  last # 0 /\ now - last < Cooldown
      OBVIOUS
    <2> DEFINE k == Key(kind, task[w])
    <2>1. Check(w)
      BY <1>1 DEF Next, WorkerStep, Begin, Thousand, Write, Check, End, Send, NextCall, Tick,
                  IInv, TypeOK
    <2>2. k \in Keys /\ k \in OverThreshold(w)
      BY <1>1, AlertAssumption DEF Keys, Key, OverThreshold, IInv, TypeOK
    <2>3. alerted'[k] = IF k \in Fired(w) THEN now ELSE alerted[k]
      BY <1>1, <2>1, <2>2, CheckAlerts
    <2>4. now \in Nat \ {0} /\ alerted[k] \in Nat /\ Cooldown \in Nat \ {0}
      BY <1>1, <2>2, AlertAssumption DEF IInv, TypeOK
    <2>5. k \notin Fired(w) => alerted[k] # 0 /\ ~(now - alerted[k] >= Cooldown)
      BY <1>1, <2>2 DEF Fired, CooledDown, IInv, Memory
    <2>6. alerted'[k] # 0 /\ now - alerted'[k] < Cooldown
      BY <2>3, <2>4, <2>5
    <2> QED BY <2>6
  <1> HIDE DEF Heard
  <1>2. IInv /\ [Next]_vars => [\A w \in Workers, kind \in Kinds : Heard(w, kind)]_vars
    BY <1>1
  <1>3. Spec => [][\A w \in Workers, kind \in Kinds : Heard(w, kind)]_vars
    BY <1>2, Remembers, PTL DEF Spec
  <1> QED BY <1>3 DEF FindingsAreAlerted, Heard

(* A stuck alert is raised only when no namespace has advanced the highest *)
(* progress for StuckMinutes.                                              *)
THEOREM StuckIsNoFalseAlarm == Spec => StuckMeansNoNewMaximum
  <1> DEFINE Quiet(n) == LET k == Key("stuck", n) IN
        alerted'[k] # alerted[k] => now - highest'.at > cfg.StuckMinutes
  <1>1. ASSUME IInv, [Next]_vars, NEW n \in NS PROVE Quiet(n)
    <2> DEFINE k == Key("stuck", n)
    <2> SUFFICES ASSUME alerted'[k] # alerted[k] PROVE now - highest'.at > cfg.StuckMinutes
      OBVIOUS
    <2>1. PICK w \in Workers : Check(w) /\ cfg.Enabled
      BY <1>1, OnlyCheckAlerts
    <2>2. k \in Keys
      BY DEF Key, Keys
    <2>3. k \in Fired(w)
      BY <1>1, <2>1, <2>2, CheckAlerts
    <2>4. Stuck(w)
      BY <2>3 DEF Fired, OverThreshold, Key, Kinds
    <2>5. highest' = highest
      BY <1>1, <2>1, <2>4 DEF Stuck, Moved, Check, IInv, Memory
    <2>6. highest.at <= lastPctTime /\ now - lastPctTime > cfg.StuckMinutes
      BY <1>1, <2>4 DEF Stuck, IInv, Memory
    <2>7. highest.at \in Nat /\ lastPctTime \in Nat /\ now \in Nat /\ cfg.StuckMinutes \in Nat
      BY <1>1 DEF IInv, TypeOK, AlertConfig
    <2> QED BY <2>5, <2>6, <2>7
  <1> HIDE DEF Quiet
  <1>2. IInv /\ [Next]_vars => [\A n \in NS : Quiet(n)]_vars
    BY <1>1
  <1>3. Spec => [][\A n \in NS : Quiet(n)]_vars
    BY <1>2, Remembers, PTL DEF Spec
  <1> QED BY <1>3 DEF StuckMeansNoNewMaximum, Quiet
=============================================================================
