---------------------------- MODULE MCStructure ----------------------------
(***************************************************************************)
(* Values for the constants of Structure: a database with two collections  *)
(* (one of them indexed), a view and a GridFS file, a second database with *)
(* one collection, and something of the server's.                          *)
(***************************************************************************)
EXTENDS Structure

CONSTANTS d1, d2, c1, c2, v, x

Entry(kind, db, name) == [kind |-> kind, db |-> db, name |-> name]

DBEntries ==
    {Entry("collection", d1, c1), Entry("index", d1, c1), Entry("collection", d1, c2),
     Entry("view", d1, v), Entry("file", d1, x), Entry("collection", d2, c1)}

ServerEntries == {Entry(k, ServerWide, x) : k \in ServerKinds}
AllEntries == DBEntries \cup ServerEntries

ChangedEntries ==
    {Entry("collection", d1, c1), Entry("index", d1, c1), Entry("collection", d2, c1)}

Pattern(db, name) == [db |-> db, name |-> name]
Scope(include, exclude) == [include |-> include, exclude |-> exclude]

Everything == Scope({}, {})
WithoutC2ViewD2 == Scope({}, {Pattern(d1, c2), Pattern(d1, v), Pattern(d2, AnyName)})
OnlyC1OfD1 == Scope({Pattern(d1, c1), Pattern(d2, NoName)}, {})

Mode(scope, sharding, fullVerify) ==
    [scope |-> scope, sharding |-> sharding, fullVerify |-> fullVerify]

SomeModes ==
    {Mode(Everything, TRUE, TRUE), Mode(WithoutC2ViewD2, FALSE, FALSE),
     Mode(OnlyC1OfD1, FALSE, TRUE)}

(* Two clusters with everything in them, that may differ in one entry, and *)
(* in everything of one database.                                          *)
AllThere == [i \in Entries |-> "a"]
Put(i, d) == With(AllThere, i, d)
WithoutDB(db) == [i \in Entries |-> IF i.db = db THEN Absent ELSE "a"]

OneDifferent ==
    {<<Put(i, s), Put(i, t)>> :
        i \in Entries, s \in {"a", Plain, Absent}, t \in Defs \cup {Absent}}
DBMissing ==
    {<<WithoutDB(db), AllThere>> : db \in DBs} \cup {<<AllThere, WithoutDB(db)>> : db \in DBs}
SomeData ==
    {data \in OneDifferent : data[1] # data[2]} \cup {<<AllThere, AllThere>>} \cup DBMissing
=============================================================================
