---------------------------- MODULE AlertManager ----------------------------
(***************************************************************************)
(* internal/alert/alert.go and what the forward scan of a namespace does   *)
(* after every thousand documents (data_verifier.go): it writes a metric   *)
(* to the monitoring cluster (internal/monitor/metrics_writer.go), which   *)
(* may fail, and has the alert manager check its counters.  One alert      *)
(* manager serves all goroutines and all calls of VerifyAllData: the       *)
(* progress it remembers is the highest of any of them.                    *)
(*                                                                         *)
(* Time is counted in units of which Cooldown are ten minutes.  Check      *)
(* holds the mutex from its first line to its last and is one step: mu is  *)
(* what it leaves behind.  The documents after the last full thousand are  *)
(* checked by nobody and left out.                                         *)
(***************************************************************************)
EXTENDS Naturals, FiniteSets

CONSTANTS
    NS, Workers,
    Configs,        \* AlertConfig: [Enabled, Threshold, StuckMinutes, Channels]
    Cooldown,       \* 10 minutes in the code
    Totals,         \* what a count may return, in thousands; 0 if it failed
    PerBatch,       \* bound: what a scan may find among a thousand documents
    MaxBatches,     \* bound: thousands of documents in each namespace
    MaxTime,        \* bound: the end of time
    MaxCalls,       \* bound: calls of VerifyAllData
    Idle,           \* the worker has no namespace
    Free            \* no goroutine holds the mutex

Kinds == {"missing", "different"}
Keys == [kind : Kinds \cup {"stuck"}, ns : NS]
Key(kind, n) == [kind |-> kind, ns |-> n]

Never == 0              \* time starts at 1
PctInf == 1000000       \* +Inf, what a division by total = 0 gives
NoFindings == [kind \in Kinds |-> 0]

AlertConfig ==
    [Enabled : BOOLEAN, Threshold : [Kinds -> Nat], StuckMinutes : Nat,
     Channels : SUBSET {"slack", "email"}]

ASSUME AlertAssumption ==
    /\ IsFiniteSet(NS) /\ IsFiniteSet(Workers)
    /\ Configs \subseteq AlertConfig
    /\ Cooldown \in Nat \ {0}
    /\ Totals \subseteq Nat
    /\ PerBatch \subseteq [Kinds -> Nat]
    /\ MaxBatches \in [NS -> Nat]
    /\ {MaxTime, MaxCalls} \subseteq Nat
    /\ Idle \notin NS /\ Free \notin Workers

VARIABLES
    now, cfg,
    todo, calls,    \* the task channel; calls of VerifyAllData so far
    pc, task,       \* where a worker is in the loop body; its namespace
    total, done,    \* documents counted and processed, in thousands
    found,          \* MissingCount and DifferentCount
    mu, lastPct, lastPctTime, firedKeys,
    outbox,         \* goroutines sending an alert
    \* observations, read by no action:
    alerted,        \* when an alert of a key was last raised
    highest         \* the highest progress Check was called with, and when

scanVars == <<todo, calls, pc, task, total, done, found>>
managerVars == <<mu, lastPct, lastPctTime, firedKeys, alerted, highest>>
vars == <<now, cfg, scanVars, managerVars, outbox>>

At(w, label) == pc[w] = label
Goto(w, label) == pc' = [pc EXCEPT ![w] = label]

-----------------------------------------------------------------------------
(* The forward scan of a namespace, a thousand documents at a time.        *)
Begin(w) ==
    /\ At(w, "idle")
    /\ \E n \in todo, t \in Totals :
           /\ todo' = todo \ {n}
           /\ task' = [task EXCEPT ![w] = n]
           /\ total' = [total EXCEPT ![w] = t]
    /\ Goto(w, "scan")
    /\ UNCHANGED <<now, cfg, calls, done, found, managerVars, outbox>>

Thousand(w) ==
    /\ At(w, "scan")
    /\ done[w] < MaxBatches[task[w]]
    /\ done' = [done EXCEPT ![w] = @ + 1]
    /\ \E more \in PerBatch :
           found' = [found EXCEPT ![w] = [kind \in Kinds |-> @[kind] + more[kind]]]
    /\ Goto(w, "write")
    /\ UNCHANGED <<now, cfg, todo, calls, task, total, managerVars, outbox>>

(* MetricsWriter.Write inserts the metric, or gives up after three seconds *)
(* and says that the verification is unaffected: either way it returns,    *)
(* and no counter depends on it.                                           *)
Write(w) ==
    /\ At(w, "write")
    /\ Goto(w, "check")
    /\ UNCHANGED <<now, cfg, todo, calls, task, total, done, found, managerVars, outbox>>

Pct(w) == IF total[w] = 0 THEN PctInf ELSE (done[w] * 100) \div total[w]

OverThreshold(w) ==
    {k \in Keys : k.ns = task[w] /\ k.kind \in Kinds /\ found[w][k.kind] > cfg.Threshold[k.kind]}

Moved(w) == Pct(w) > lastPct
Stuck(w) == ~Moved(w) /\ now - lastPctTime > cfg.StuckMinutes

(* Mutant of CooledDown: the cooldown of one kind of alert holds back the  *)
(* alerts of that kind of every namespace.                                 *)
CooledDownEverywhere(k) ==
    \A n \in NS : LET last == firedKeys[Key(k.kind, n)] IN last # Never => now - last >= Cooldown

(* fireOnce: a key is silent for ten minutes after it has fired.           *)
CooledDown(k) == firedKeys[k] # Never => now - firedKeys[k] >= Cooldown

Fired(w) ==
    {k \in OverThreshold(w) \cup (IF Stuck(w) THEN {Key("stuck", task[w])} ELSE {}) : CooledDown(k)}

(* Mutant of PctTime: only the highest progress is kept.                   *)
PctTimeKept(w) == IF Stuck(w) THEN now ELSE lastPctTime

(* Mutant of PctTime: when the next stuck alert is due.                    *)
PctTimeDue(w) == IF Moved(w) \/ Stuck(w) THEN now + cfg.StuckMinutes ELSE lastPctTime

(* The stuck clock starts anew with progress and with every stuck alert,   *)
(* one that fireOnce suppressed too.                                       *)
PctTime(w) == IF Moved(w) \/ Stuck(w) THEN now ELSE lastPctTime

(* Mutant of Remember: only the first alert of a key is recorded.          *)
RememberFirst(w) ==
    [k \in Keys |-> IF k \in Fired(w) /\ firedKeys[k] = Never THEN now ELSE firedKeys[k]]

Remember(w) == [k \in Keys |-> IF k \in Fired(w) THEN now ELSE firedKeys[k]]

(* Mutant of Unlocked: the mutex is taken before cfg.Enabled is looked at. *)
UnlockedIfEnabled(w) == IF cfg.Enabled THEN Free ELSE w

(* defer a.mu.Unlock()                                                     *)
Unlocked(w) == Free

(* Check, with what Fire starts: a goroutine for each configured channel.  *)
Check(w) ==
    /\ At(w, "check")
    /\ mu = Free
    /\ mu' = Unlocked(w)
    /\ IF cfg.Enabled
       THEN /\ lastPct' = (IF Moved(w) THEN Pct(w) ELSE lastPct)
            /\ lastPctTime' = PctTime(w)
            /\ firedKeys' = Remember(w)
            /\ outbox' = outbox \cup [key : Fired(w), at : {now}, channel : cfg.Channels]
            /\ alerted' = [k \in Keys |-> IF k \in Fired(w) THEN now ELSE alerted[k]]
            /\ highest' = IF Pct(w) > highest.pct THEN [pct |-> Pct(w), at |-> now] ELSE highest
       ELSE UNCHANGED <<lastPct, lastPctTime, firedKeys, alerted, highest, outbox>>
    /\ Goto(w, "scan")
    /\ UNCHANGED <<now, cfg, todo, calls, task, total, done, found>>

(* The collection ends, and with it the variables of its scan.             *)
End(w) ==
    /\ At(w, "scan")
    /\ task' = [task EXCEPT ![w] = Idle]
    /\ total' = [total EXCEPT ![w] = 0]
    /\ done' = [done EXCEPT ![w] = 0]
    /\ found' = [found EXCEPT ![w] = NoFindings]
    /\ Goto(w, "idle")
    /\ UNCHANGED <<now, cfg, todo, calls, managerVars, outbox>>

WorkerStep(w) ==
    Begin(w) \/ Thousand(w) \/ Write(w) \/ Check(w) \/ End(w)

(* sendSlack, sendEmail: delivered or not, nobody is told.                 *)
Send ==
    /\ \E m \in outbox : outbox' = outbox \ {m}
    /\ UNCHANGED <<now, cfg, scanVars, managerVars>>

Finished == todo = {} /\ \A w \in Workers : At(w, "idle")

(* The next phase: VerifyAllData again, with the same alert manager.       *)
NextCall ==
    /\ Finished
    /\ calls < MaxCalls
    /\ calls' = calls + 1
    /\ todo' = NS
    /\ UNCHANGED <<now, cfg, pc, task, total, done, found, managerVars, outbox>>

Tick ==
    /\ now < MaxTime
    /\ now' = now + 1
    /\ UNCHANGED <<cfg, scanVars, managerVars, outbox>>

Init ==
    /\ now = 1
    /\ cfg \in Configs
    /\ todo = NS /\ calls = 1
    /\ pc = [w \in Workers |-> "idle"]
    /\ task = [w \in Workers |-> Idle]
    /\ total = [w \in Workers |-> 0]
    /\ done = [w \in Workers |-> 0]
    /\ found = [w \in Workers |-> NoFindings]
    /\ mu = Free /\ lastPct = 0 /\ lastPctTime = 1
    /\ firedKeys = [k \in Keys |-> Never]
    /\ outbox = {}
    /\ alerted = [k \in Keys |-> Never]
    /\ highest = [pct |-> 0, at |-> 1]

Next == (\E w \in Workers : WorkerStep(w)) \/ Send \/ NextCall \/ Tick

Spec == Init /\ [][Next]_vars

(* Goroutines run, and inserts and sends return, with an error or without; *)
(* time need not pass.                                                     *)
FairSpec ==
    /\ Spec
    /\ \A w \in Workers : WF_vars(WorkerStep(w))
    /\ WF_vars(Send)

-----------------------------------------------------------------------------
(* Types of the state.                                                     *)
TypeOK ==
    /\ now \in Nat \ {0}
    /\ cfg \in AlertConfig
    /\ todo \subseteq NS /\ calls \in Nat
    /\ pc \in [Workers -> {"idle", "scan", "write", "check"}]
    /\ task \in [Workers -> NS \cup {Idle}]
    /\ \A w \in Workers : task[w] = Idle <=> pc[w] = "idle"
    /\ total \in [Workers -> Nat] /\ done \in [Workers -> Nat]
    /\ found \in [Workers -> [Kinds -> Nat]]
    /\ mu \in Workers \cup {Free}
    /\ lastPct \in Nat
    /\ lastPctTime \in Nat \ {0} /\ lastPctTime <= now
    /\ firedKeys \in [Keys -> Nat]
    /\ alerted \in [Keys -> Nat]
    /\ highest \in [pct : Nat, at : Nat]

(* "suppresses repeats of the same key within a 10-minute cooldown": two   *)
(* alerts of one key are never closer, whichever goroutines raise them and *)
(* in whichever call.                                                      *)
CooldownKept ==
    [][\A k \in Keys : alerted'[k] # alerted[k] /\ alerted[k] # Never =>
          alerted'[k] - alerted[k] >= Cooldown]_vars

(* No finding drowns: whenever Check sees a counter above its threshold,   *)
(* an alert of that namespace and kind has been raised then or within the  *)
(* last ten minutes, whatever other namespaces are alerting about.         *)
FindingsAreAlerted ==
    [][\A w \in Workers, kind \in Kinds :
          /\ cfg.Enabled /\ At(w, "check") /\ pc'[w] # "check"
          /\ found[w][kind] > cfg.Threshold[kind]
          => LET last == alerted'[Key(kind, task[w])]
             IN  last # Never /\ now - last < Cooldown]_vars

(* A stuck alert is no false alarm as long as any namespace advances the   *)
(* highest progress: when it is raised, none has done so for StuckMinutes. *)
StuckMeansNoNewMaximum ==
    [][\A n \in NS : LET k == Key("stuck", n) IN
          alerted'[k] # alerted[k] => now - highest'.at > cfg.StuckMinutes]_vars

(* Neither a dead monitoring cluster nor a dead Slack holds up the         *)
(* verification, nor do goroutines that check at the same time: every call *)
(* comes to its end, and every send.                                       *)
MonitoringNeverBlocks == []<>(Finished /\ outbox = {})
=============================================================================
