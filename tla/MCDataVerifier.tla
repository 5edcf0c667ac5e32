--------------------------- MODULE MCDataVerifier ---------------------------
(***************************************************************************)
(* Values for the constants of DataVerifier.                               *)
(***************************************************************************)
EXTENDS DataVerifier

(* Every pair of contents.                                                 *)
AnyData == Collections \X Collections

(* Every pair with versions compared only up to renaming: the source holds *)
(* version 1 or nothing.                                                   *)
AnyDataUpToRenaming ==
    {data \in AnyData : \A n \in NS, id \in IDs : data[1][n][id] \in {NoDoc, 1}}

(* Every _id on both sides, in sync.                                       *)
FullData == LET all == [n \in NS |-> [id \in IDs |-> 1]] IN {<<all, all>>}

(* ... and with the first document missing from, or stale in, the target.  *)
FirstDiffers ==
    LET all == [n \in NS |-> [id \in IDs |-> 1]]
        but(v) == [n \in NS |-> [id \in IDs |-> IF id = 1 THEN v ELSE 1]]
    IN  {<<all, but(v)>> : v \in {0, 2}}

FullOrFirstDiffers == FullData \cup FirstDiffers

Opt(resume, sampled, bidirectional, dryRun) ==
    [resume |-> resume, sampled |-> sampled,
     bidirectional |-> bidirectional, dryRun |-> dryRun]

Phase3   == {Opt(FALSE, FALSE, TRUE, FALSE)}
OneWay   == {Opt(FALSE, FALSE, FALSE, FALSE)}
Phase2   == {Opt(FALSE, TRUE, FALSE, FALSE)}
Resuming == {Opt(TRUE, FALSE, TRUE, FALSE)}
DryRun   == {Opt(FALSE, FALSE, TRUE, TRUE)}

AnyMode  == Phase3 \cup OneWay \cup Phase2 \cup DryRun
=============================================================================
