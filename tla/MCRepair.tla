------------------------------ MODULE MCRepair ------------------------------
(***************************************************************************)
(* Values for the constants of Repair.                                     *)
(***************************************************************************)
EXTENDS Repair, TLC

CONSTANTS n1, n2

Id(type, words) == [type |-> type, text |-> words]

(* A plain string, one with a blank in it whose first word is the plain    *)
(* one, one that begins with a blank, and an ObjectID printed like the     *)
(* plain string.                                                           *)
PlainID  == Id("string", <<"a">>)
SpacedID == Id("string", <<"a", "b">>)
BlankID  == Id("string", <<>>)
OtherID  == Id("other", <<"a">>)

AllIDs == {PlainID, SpacedID, OtherID}
BlankIDs == {PlainID, SpacedID, OtherID, BlankID}

(* In the first namespace the source holds version 1 or nothing of each    *)
(* document and the target anything, but the one that begins with a blank, *)
(* which is stale if it is there; in the second every document is in sync, *)
(* or only the plain one is stale.                                         *)
InSyncData == [id \in IDs |-> 1]
SomeData ==
    {<<n1 :> s @@ n2 :> InSyncData, n1 :> t @@ n2 :> u>> :
        s \in {c \in [IDs -> {NoDoc, 1}] : \A id \in IDs : id.text = <<>> => c[id] = 1},
        t \in {c \in [IDs -> Versions \cup {NoDoc}] :
                   \A id \in IDs : id.text = <<>> => c[id] = 2},
        u \in {InSyncData, [InSyncData EXCEPT ![PlainID] = 2]}}
=============================================================================
