----------------------------- MODULE VerifyPool -----------------------------
(***************************************************************************)
(* What VerifyAllData (internal/verifier/data_verifier.go) promises its    *)
(* caller, with everything inside verifyOneCollection left out: each       *)
(* namespace is verified by one goroutine, at most Capacity at a time, its *)
(* verdict is published once, and the call returns when all have been.     *)
(* DataVerifier implements it.                                             *)
(***************************************************************************)
EXTENDS Naturals, FiniteSets

CONSTANTS
    NS,         \* the namespaces to verify
    Capacity    \* MaxWorkers

VARIABLES
    waiting,    \* namespaces nobody has taken
    active,     \* namespaces being verified
    verified,   \* namespaces whose verdict this call has published
    returned    \* the call has returned

poolVars == <<waiting, active, verified, returned>>

PoolInit ==
    /\ waiting = NS
    /\ active = {}
    /\ verified = {}
    /\ returned = FALSE

Begin(n) ==
    /\ n \in waiting
    /\ Cardinality(active) < Capacity
    /\ waiting' = waiting \ {n}
    /\ active' = active \cup {n}
    /\ UNCHANGED <<verified, returned>>

End(n) ==
    /\ n \in active
    /\ active' = active \ {n}
    /\ verified' = verified \cup {n}
    /\ UNCHANGED <<waiting, returned>>

ReturnAll ==
    /\ verified = NS
    /\ returned' = TRUE
    /\ UNCHANGED <<waiting, active, verified>>

(* The process dies, or the caller calls again.                            *)
StartOver ==
    /\ waiting' = NS
    /\ active' = {}
    /\ verified' = {}
    /\ returned' = FALSE

PoolNext ==
    \/ \E n \in NS : Begin(n) \/ End(n)
    \/ ReturnAll
    \/ StartOver

PoolSpec == PoolInit /\ [][PoolNext]_poolVars

=============================================================================
