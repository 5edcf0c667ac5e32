---------------------------- MODULE ReportAccess ----------------------------
(***************************************************************************)
(* Who touches the report while a run is in progress, and under which      *)
(* lock: the goroutines of VerifyAllData (internal/report/report.go: Set*, *)
(* UpdateProgress; internal/prometheus/metrics.go: Set), the handlers of   *)
(* internal/httpapi/server.go and of /metrics, and the main goroutine,     *)
(* which prints and saves the report at the end.                           *)
(*                                                                         *)
(* What a goroutine does with locks and maps is straight-line code, so     *)
(* every function here is the sequence of its operations, and a goroutine  *)
(* is the sequence of operations it has left.  Iterating over a map visits *)
(* the entries one by one; assigning to a map takes two steps, between     *)
(* which the Go runtime kills the process if it sees another goroutine     *)
(* use the map.                                                            *)
(***************************************************************************)
EXTENDS Naturals, Sequences, FiniteSets

CONSTANTS
    NS,         \* namespaces, each verified by a goroutine of its own
    Pollers,    \* clients, with one request at a time each
    Main,       \* the main goroutine
    MaxCalls,   \* bound: calls of VerifyAllData
    Nobody

Goroutines == NS \cup Pollers \cup {Main}
Mutexes == {"report", "gauges"}   \* Report.mu and MetricsServer.mu
Maps == {"data", "gauges"}        \* Report.Data and MetricsServer.gauges
Guard == [data |-> "report", gauges |-> "gauges"]

ASSUME AccessAssumption ==
    /\ Nobody \notin Goroutines
    /\ Main \notin NS \cup Pollers
    /\ NS \cap Pollers = {}
    /\ MaxCalls \in Nat

VARIABLES
    proc,       \* "up" or "down"
    code,       \* the operations each goroutine has left
    mutex,      \* the RWMutexes
    data,       \* Report.Data: "absent", "open" (a placeholder), "passed", "failed"
    assigning,  \* the goroutine in the middle of an assignment to the map
    left,       \* the entries a goroutine's iteration has still to visit
    allOK,      \* whether all the entries it visited have passed
    calls       \* calls of VerifyAllData so far

vars == <<proc, code, mutex, data, assigning, left, allOK, calls>>

-----------------------------------------------------------------------------
(* The code, as sequences of operations.                                   *)
Op(name, on) == [name |-> name, on |-> on]

Locked(m, body) == <<Op("announce", m), Op("enter", m)>> \o body \o <<Op("unlock", m)>>
RLocked(m, body) == <<Op("rlock", m)>> \o body \o <<Op("runlock", m)>>

(* Mutant of SetData: without Lock.                                        *)
SetDataUnlocked == <<Op("settle", "data"), Op("assigned", "data")>>

SetData == Locked("report", <<Op("settle", "data"), Op("assigned", "data")>>)
SetGauge == Locked("gauges", <<Op("assign", "gauges"), Op("assigned", "gauges")>>)

(* Mutant of UpdateProgress: it sets the gauge inside its critical section.*)
UpdateProgressNested ==
    Locked("report", <<Op("open", "data"), Op("assigned", "data")>> \o SetGauge)

UpdateProgress == Locked("report", <<Op("open", "data"), Op("assigned", "data")>>)

(* allPassedLocked, DataSummary and the loops of Print: iterate the map;   *)
(* allPassedLocked returns at the first entry that has not passed.         *)
AllPassedLocked == <<Op("range", "data"), Op("check", "data")>>
EachEntry(m) == <<Op("range", m), Op("visit", m)>>

(* Mutant of AllPassed: without RLock.                                     *)
AllPassedUnlocked == AllPassedLocked

AllPassed == RLocked("report", AllPassedLocked)
SectionPassed == RLocked("report", <<>>)

(* Mutant of DataSummary: the deferred RUnlock without its RLock.          *)
DataSummaryUnbalanced == EachEntry("data") \o <<Op("runlock", "report")>>

DataSummary == RLocked("report", EachEntry("data"))

(* GetData returns the live map: the lock is released before it is read.   *)
GetData == RLocked("report", <<>>)

(* Print sets EndTime under the write lock, then reads under the read lock *)
(* - and calls allPassedLocked, not AllPassed, to get the verdict.         *)
PrintSummary ==
    Locked("report", <<>>) \o RLocked("report", EachEntry("data") \o AllPassedLocked)
Save == Locked("report", <<>>) \o RLocked("report", EachEntry("data"))

Handlers ==
    {AllPassed,                                                  \* /passed
     AllPassed \o SectionPassed \o SectionPassed \o SectionPassed
               \o DataSummary,                                   \* /status
     GetData \o EachEntry("data"),                               \* /progress
     EachEntry("data"),                                          \* /report
     RLocked("gauges", EachEntry("gauges") \o GetData \o EachEntry("data")
                       \o AllPassed)}                            \* /metrics

(* The goroutine of a namespace: a checkpoint's worth of progress, and the *)
(* verdict.                                                                *)
Verification == UpdateProgress \o SetGauge \o SetData

-----------------------------------------------------------------------------
Doing(p, name) == proc = "up" /\ code[p] # <<>> /\ Head(code[p]).name = name
On(p) == Head(code[p]).on
Done(p) == code' = [code EXCEPT ![p] = Tail(@)]

Running(p) == code[p] # <<>>
Present == {n \in NS : data[n] # "absent"}

(* sync.RWMutex.  A writer first announces itself, which keeps new readers *)
(* out, and enters when the readers inside have left; its Unlock admits    *)
(* all the readers that queued up.  A goroutine that reads twice counts    *)
(* twice.                                                                  *)
Announce(p) ==
    /\ Doing(p, "announce")
    /\ mutex[On(p)].writer = Nobody
    /\ mutex' = [mutex EXCEPT ![On(p)].writer = p]
    /\ Done(p)
    /\ UNCHANGED <<proc, data, assigning, left, allOK, calls>>

Enter(p) ==
    /\ Doing(p, "enter")
    /\ \A q \in Goroutines : mutex[On(p)].readers[q] = 0
    /\ Done(p)
    /\ UNCHANGED <<proc, mutex, data, assigning, left, allOK, calls>>

Unlock(p) ==
    /\ Doing(p, "unlock")
    /\ mutex' = [mutex EXCEPT ![On(p)] =
           [writer |-> Nobody, queue |-> {},
            readers |-> [q \in Goroutines |-> @.readers[q] + IF q \in @.queue THEN 1 ELSE 0]]]
    /\ Done(p)
    /\ UNCHANGED <<proc, data, assigning, left, allOK, calls>>

RLock(p) ==
    /\ Doing(p, "rlock")
    /\ IF mutex[On(p)].writer = Nobody
       THEN /\ mutex' = [mutex EXCEPT ![On(p)].readers[p] = @ + 1]
            /\ Done(p)
       ELSE /\ mutex' = [mutex EXCEPT ![On(p)].queue = @ \cup {p}]
            /\ code' = [code EXCEPT ![p] = <<Op("queued", On(p))>> \o Tail(@)]
    /\ UNCHANGED <<proc, data, assigning, left, allOK, calls>>

Admitted(p) ==
    /\ Doing(p, "queued")
    /\ p \notin mutex[On(p)].queue
    /\ Done(p)
    /\ UNCHANGED <<proc, mutex, data, assigning, left, allOK, calls>>

RUnlock(p) ==
    /\ Doing(p, "runlock")
    /\ mutex' = [mutex EXCEPT ![On(p)].readers[p] = @ - 1]
    /\ Done(p)
    /\ UNCHANGED <<proc, data, assigning, left, allOK, calls>>

-----------------------------------------------------------------------------
(* UpdateProgress: an entry that is there has a field set, a new one is    *)
(* assigned to the map.                                                    *)
OpenEntry(p) ==
    /\ Doing(p, "open")
    /\ IF data[p] = "absent"
       THEN /\ data' = [data EXCEPT ![p] = "open"]
            /\ assigning' = [assigning EXCEPT !["data"] = p]
            /\ Done(p)
       ELSE /\ code' = [code EXCEPT ![p] = Tail(Tail(@))]
            /\ UNCHANGED <<data, assigning>>
    /\ UNCHANGED <<proc, mutex, left, allOK, calls>>

SettleEntry(p) ==
    /\ Doing(p, "settle")
    /\ \E verdict \in {"passed", "failed"} : data' = [data EXCEPT ![p] = verdict]
    /\ assigning' = [assigning EXCEPT !["data"] = p]
    /\ Done(p)
    /\ UNCHANGED <<proc, mutex, left, allOK, calls>>

AssignGauge(p) ==
    /\ Doing(p, "assign")
    /\ assigning' = [assigning EXCEPT !["gauges"] = p]
    /\ Done(p)
    /\ UNCHANGED <<proc, mutex, data, left, allOK, calls>>

Assigned(p) ==
    /\ Doing(p, "assigned")
    /\ assigning' = [assigning EXCEPT ![On(p)] = Nobody]
    /\ Done(p)
    /\ UNCHANGED <<proc, mutex, data, left, allOK, calls>>

StartOfRange(p) ==
    /\ Doing(p, "range")
    /\ left' = [left EXCEPT ![p] = IF On(p) = "data" THEN Present ELSE NS]
    /\ allOK' = [allOK EXCEPT ![p] = TRUE]
    /\ Done(p)
    /\ UNCHANGED <<proc, mutex, data, assigning, calls>>

Iterating(p) == Doing(p, "visit") \/ Doing(p, "check")
StopsEarly(p) == Doing(p, "check") /\ ~allOK[p]

VisitEntry(p) ==
    /\ Iterating(p)
    /\ ~StopsEarly(p)
    /\ \E n \in left[p] :
           /\ left' = [left EXCEPT ![p] = @ \ {n}]
           /\ allOK' = [allOK EXCEPT ![p] = @ /\ (On(p) = "data" => data[n] = "passed")]
    /\ UNCHANGED <<proc, code, mutex, data, assigning, calls>>

EndOfRange(p) ==
    /\ Iterating(p)
    /\ left[p] = {} \/ StopsEarly(p)
    /\ left' = [left EXCEPT ![p] = {}]
    /\ Done(p)
    /\ UNCHANGED <<proc, mutex, data, assigning, allOK, calls>>

(* "fatal error: concurrent map iteration and map write": the runtime      *)
(* looks for it at every step of an iteration, and nothing recovers.       *)
ConcurrentMapAccess(p) ==
    /\ Iterating(p) \/ Doing(p, "range")
    /\ assigning[On(p)] \notin {Nobody, p}
    /\ proc' = "down"
    /\ UNCHANGED <<code, mutex, data, assigning, left, allOK, calls>>

Step(p) ==
    \/ Announce(p) \/ Enter(p) \/ Unlock(p)
    \/ RLock(p) \/ Admitted(p) \/ RUnlock(p)
    \/ OpenEntry(p) \/ SettleEntry(p) \/ AssignGauge(p) \/ Assigned(p)
    \/ StartOfRange(p) \/ VisitEntry(p) \/ EndOfRange(p) \/ ConcurrentMapAccess(p)

-----------------------------------------------------------------------------
Request(h) ==
    /\ proc = "up"
    /\ ~Running(h)
    /\ code' \in {[code EXCEPT ![h] = handler] : handler \in Handlers}
    /\ UNCHANGED <<proc, mutex, data, assigning, left, allOK, calls>>

(* The main goroutine: another phase, while there is one, and the report.  *)
NextPhase ==
    /\ proc = "up"
    /\ calls < MaxCalls
    /\ \A n \in NS : ~Running(n)
    /\ calls' = calls + 1
    /\ code' = [p \in Goroutines |-> IF p \in NS THEN Verification ELSE code[p]]
    /\ UNCHANGED <<proc, mutex, data, assigning, left, allOK>>

Finish ==
    /\ proc = "up"
    /\ calls = MaxCalls
    /\ \A n \in NS : ~Running(n)
    /\ ~Running(Main)
    /\ code' = [code EXCEPT ![Main] = PrintSummary \o Save]
    /\ calls' = MaxCalls + 1
    /\ UNCHANGED <<proc, mutex, data, assigning, left, allOK>>

(* Nothing follows the end of the process.                                 *)
Stopped == proc = "down" /\ UNCHANGED vars

Init ==
    /\ proc = "up"
    /\ code = [p \in Goroutines |-> IF p \in NS THEN Verification ELSE <<>>]
    /\ mutex = [m \in Mutexes |->
           [writer |-> Nobody, queue |-> {}, readers |-> [p \in Goroutines |-> 0]]]
    /\ data = [n \in NS |-> "absent"]
    /\ assigning = [m \in Maps |-> Nobody]
    /\ left = [p \in Goroutines |-> {}]
    /\ allOK = [p \in Goroutines |-> TRUE]
    /\ calls = 1

Next ==
    \/ \E p \in Goroutines : Step(p)
    \/ \E h \in Pollers : Request(h)
    \/ NextPhase \/ Finish \/ Stopped

Spec == Init /\ [][Next]_vars

(* A goroutine that can run is run; clients need not ask for anything.     *)
FairSpec == Spec /\ \A p \in Goroutines : WF_vars(Step(p))

-----------------------------------------------------------------------------
(* The types of the component's state.                                     *)
OpNames ==
    {"announce", "enter", "unlock", "rlock", "queued", "runlock", "open", "settle",
     "assign", "assigned", "range", "visit", "check"}

TypeOK ==
    /\ proc \in {"up", "down"}
    /\ code \in [Goroutines -> Seq([name : OpNames, on : Mutexes \cup Maps])]
    /\ mutex \in [Mutexes -> [writer : Goroutines \cup {Nobody}, queue : SUBSET Goroutines,
                              readers : [Goroutines -> Nat]]]
    /\ data \in [NS -> {"absent", "open", "passed", "failed"}]
    /\ assigning \in [Maps -> Goroutines \cup {Nobody}]
    /\ left \in [Goroutines -> SUBSET NS]
    /\ allOK \in [Goroutines -> BOOLEAN]
    /\ calls \in Nat

HoldsRLock(p, m) == mutex[Guard[m]].readers[p] > 0

(* Whoever iterates a map under its mutex meets no assignment to it: the   *)
(* process never dies of AllPassed, DataSummary, Print or Save.            *)
LockedReadsAreSafe ==
    \A p \in Goroutines :
        Iterating(p) /\ HoldsRLock(p, On(p)) => assigning[On(p)] = Nobody

(* The verdict of /passed, of /status and of the final report is that of   *)
(* one state of the report: what the iteration has found so far is what    *)
(* the entries visited say now, however many goroutines publish meanwhile. *)
VerdictIsSnapshot ==
    \A p \in Goroutines :
        Doing(p, "check") => (allOK[p] <=> \A n \in Present \ left[p] : data[n] = "passed")

(* No goroutine waits forever for a lock: neither a publisher for pollers  *)
(* that keep coming, nor a poller for publishers, nor Print for itself.    *)
CallsReturn ==
    \A p \in Goroutines : Running(p) ~> (~Running(p) \/ proc = "down")

(* DESIGN.md: "Report struct, thread-safe" and "GET /progress": polling    *)
(* while verification is running ends no process.                          *)
ReportIsThreadSafe == proc = "up"
=============================================================================
