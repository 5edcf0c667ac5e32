----------------------------- MODULE Structure -----------------------------
(***************************************************************************)
(* The structural verification (Phase 1) of internal/verifier: VerifyAuth, *)
(* VerifyCluster, VerifyDatabases and, for the databases on both sides,    *)
(* VerifyCollections, VerifyIndexes, VerifyViews and VerifyGridFS.  Each   *)
(* fills one section of the report; each reads a list from the source and  *)
(* then the same list from the target, and reports what is missing, extra  *)
(* or different, while administrators may be changing what is listed.      *)
(*                                                                         *)
(* What is listed is a set of entries, each a record of its kind, its      *)
(* database and its name; a collection has one index, listed under the     *)
(* collection's name.  The definition of an entry stands for one attribute *)
(* that is compared: Plain if the attribute is not set.  The definitions   *)
(* of a GridFS file other than Plain differ in content only, those of a    *)
(* view in its viewOn and pipeline.                                        *)
(***************************************************************************)
EXTENDS Naturals, FiniteSets, NamespaceScope

CONSTANTS
    Entries,     \* [kind : EntryKinds, db : DBs \cup {ServerWide}, name : Names]
    ServerWide,  \* the "database" of what belongs to the whole server
    Defs,        \* definitions, Plain among them
    Plain,
    SkipDBs,     \* skip_dbs
    Modes,       \* ways to run: [scope, sharding, fullVerify]
    InitialData, \* pairs of catalogues to start from
    MaxDisturbances, \* bound: lists that fail, and changes made in the source
    Changeable,  \* bound: the entries that may be changed there
    Absent, None, \* an entry that is not there; nothing in hand
    UsersUnread  \* the error "failed to get source users"

(* The order of the verifiers, and of the lists within VerifyAuth,         *)
(* VerifyCluster and VerifyCollections.                                    *)
Rank == [auth |-> 1, cluster |-> 2, databases |-> 3, collections |-> 4, indexes |-> 5,
         views |-> 6, gridfs |-> 7,
         user |-> 1, role |-> 2, mechanism |-> 3, ldap |-> 4,
         replset |-> 1, parameter |-> 2, shardcount |-> 3, shardkey |-> 4,
         database |-> 1, collection |-> 1, options |-> 2, index |-> 1, view |-> 1, file |-> 1]

EntryKinds == {"user", "role", "mechanism", "ldap", "replset", "parameter", "shardcount",
               "shardkey", "collection", "index", "view", "file"}
ServerKinds == EntryKinds \ {"collection", "index", "view", "file"}

Database(db) == [kind |-> "database", db |-> db, name |-> NoName]
Items == Entries \cup {Database(db) : db \in DBs}

Catalogues == [Entries -> Defs \cup {Absent}]

ASSUME StructureAssumption ==
    /\ ServerWide \notin DBs
    /\ Plain \in Defs
    /\ Absent \notin Defs
    /\ SkipDBs \subseteq DBs
    /\ \A i \in Entries :
           \/ i \in [kind : ServerKinds, db : {ServerWide}, name : Names]
           \/ i \in [kind : EntryKinds \ ServerKinds, db : DBs, name : Names]
    /\ UsersUnread \notin Items
    /\ Modes \subseteq [scope : ScopeSet, sharding : BOOLEAN, fullVerify : BOOLEAN]
    /\ InitialData \subseteq Catalogues \X Catalogues
    /\ MaxDisturbances \in Nat
    /\ Changeable \subseteq Entries

(* An index lives in its collection, in the clusters to start from too.    *)
CollectionOf(i) == [kind |-> "collection", db |-> i.db, name |-> i.name]

ASSUME IndexAssumption ==
    \A i \in Entries : i.kind = "index" =>
        /\ CollectionOf(i) \in Entries
        /\ \A data \in InitialData : \A cat \in {data[1], data[2]} :
               cat[i] # Absent => cat[CollectionOf(i)] # Absent

Section(kind, db, name) == [kind |-> kind, db |-> db, name |-> name]
DBKinds == {"collections", "views", "gridfs"}
Sections ==
    {Section(k, ServerWide, NoName) : k \in {"auth", "cluster", "databases"}}
        \cup [kind : DBKinds, db : DBs, name : {NoName}]
        \cup [kind : {"indexes"}, db : DBs, name : Names]

Jobs == [kind : EntryKinds \cup {"database", "options"}, name : Names \cup {NoName}]

ASSUME HandAssumption == None \notin Sections /\ None \notin Jobs

VARIABLES
    src, tgt,   \* what is in the two clusters
    mode,
    plan,       \* sections still to be verified
    section,    \* the section in hand, or None
    jobs,       \* the lists it has still to compare
    job,        \* the list in hand, read from the source, or None
    listed,     \* ... and what it was read as
    errors,     \* the section's errors so far: the items they are about
    common,     \* what a finished listing of names found on both sides
    rpt,        \* the report: per section, whether it is there, and its errors
    faults, changes,
    touched     \* observation: entries changed since the beginning

work == <<plan, section, jobs, job, listed, errors, common, rpt>>
vars == <<work, src, tgt, mode, faults, changes, touched>>

-----------------------------------------------------------------------------
(* What the lists of a section are about.                                  *)
DBWanted(db) == db \notin SkipDBs /\ DBInScope(mode.scope, db)

(* Mutant of NSWanted: verifiers called without a namespace filter.        *)
NSWantedUnfiltered(db, name) == TRUE

(* The namespace filter of VerifyCollections.                              *)
NSWanted(db, name) == NSFilter(mode.scope, db, name)

DatabasesListed == {Database(db) : db \in {d \in DBs : DBWanted(d)}}

CollectionsListed(db) ==
    {i \in Entries : i.kind \in {"collection", "view"} /\ i.db = db /\ NSWanted(db, i.name)}

OptionsListed(db, name) ==
    {i \in Entries : i.kind \in {"collection", "view"} /\ i.db = db /\ i.name = name}

IndexesListed(db, name) == {i \in Entries : i.kind = "index" /\ i.db = db /\ i.name = name}
ViewsListed(db) == {i \in Entries : i.kind = "view" /\ i.db = db}
FilesListed(db) == {i \in Entries : i.kind = "file" /\ i.db = db}
ServerListed(kind) == {i \in Entries : i.kind = kind /\ i.db = ServerWide}

AuthLists == {"user", "role", "mechanism", "ldap"}
ClusterLists == {"replset", "parameter"} \cup IF mode.sharding THEN {"shardcount", "shardkey"} ELSE {}

Wanted(sec, j) ==
    CASE j.kind = "database"   -> DatabasesListed
      [] j.kind = "collection" -> CollectionsListed(sec.db)
      [] j.kind = "options"    -> OptionsListed(sec.db, j.name)
      [] j.kind = "index"      -> IndexesListed(sec.db, sec.name)
      [] j.kind = "view"       -> ViewsListed(sec.db)
      [] j.kind = "file"       -> FilesListed(sec.db)
      [] OTHER                 -> ServerListed(j.kind)

Unnamed(kinds) == [kind : kinds, name : {NoName}]
JobsOf(sec) ==
    CASE sec.kind = "auth"        -> Unnamed(AuthLists)
      [] sec.kind = "cluster"     -> Unnamed(ClusterLists)
      [] sec.kind = "databases"   -> Unnamed({"database"})
      [] sec.kind = "collections" -> Unnamed({"collection"})
      [] sec.kind = "indexes"     -> Unnamed({"index"})
      [] sec.kind = "views"       -> Unnamed({"view"})
      [] OTHER                    -> Unnamed({"file"})

First(s) == {x \in s : \A y \in s : Rank[x.kind] <= Rank[y.kind]}

-----------------------------------------------------------------------------
(* How a list reads an entry of a catalogue.  A database is there if       *)
(* something is in it; a collection that is not there has no options, and  *)
(* those of a view are other than the compared ones.                       *)
Unset(j) == IF j.kind = "options" THEN Plain ELSE Absent

Reading(cat, j, i) ==
    CASE j.kind = "database" ->
             IF \E e \in Entries : e.db = i.db /\ cat[e] # Absent THEN Plain ELSE Absent
      [] j.kind = "options" ->
             IF i.kind = "view" \/ cat[i] = Absent THEN Plain ELSE cat[i]
      [] OTHER -> cat[i]

(* A list that fails is taken for an empty one, and a cursor that fails    *)
(* for one that has ended: no verifier looks at the error.                 *)
OneByOne == {"index", "view", "file", "shardcount", "shardkey", "parameter"}
Losses(sec, j) == IF j.kind \in OneByOne THEN SUBSET Wanted(sec, j) ELSE {Wanted(sec, j)}

List(cat, sec, j, lost) ==
    [i \in Wanted(sec, j) |-> IF i \in lost THEN Unset(j) ELSE Reading(cat, j, i)]

(* The comparisons, each of what was read of one entry on the two sides.   *)
OnOneSide(s, t) == (s = Absent) # (t = Absent)
OnBoth(s, t) == s # Absent /\ t # Absent

(* compareBSONFields: an attribute the source has not set is passed over.  *)
OptionsReported(s, t) == s # Plain /\ s # t

IndexReported(s, t) == OnOneSide(s, t) \/ (OnBoth(s, t) /\ OptionsReported(s, t))

ViewReported(s, t) == s # t

(* Length and name are always compared, the MD5 for fullVerify only.       *)
FileReported(s, t) ==
    \/ OnOneSide(s, t)
    \/ OnBoth(s, t) /\ IF mode.fullVerify THEN s # t ELSE (s = Plain) # (t = Plain)

(* Roles are compared by name and in one direction; an LDAP setting only   *)
(* if the source has one.                                                  *)
AuthReported(kind, s, t) ==
    \/ kind \in {"user", "mechanism"} /\ s # t
    \/ kind = "role" /\ s # Absent /\ t = Absent
    \/ kind = "ldap" /\ s # Absent /\ s # t

(* The replica set configuration if both have been read, parameters and    *)
(* shard keys in one direction.                                            *)
ClusterReported(kind, s, t) ==
    \/ kind = "replset" /\ OnBoth(s, t) /\ s # t
    \/ kind \in {"parameter", "shardkey"} /\ s # Absent /\ s # t
    \/ kind = "shardcount" /\ s # t

Reported(kind, s, t) ==
    CASE kind \in {"database", "collection"} -> OnOneSide(s, t)
      [] kind = "options"   -> OptionsReported(s, t)
      [] kind = "index"     -> IndexReported(s, t)
      [] kind = "view"      -> ViewReported(s, t)
      [] kind = "file"      -> FileReported(s, t)
      [] kind \in AuthLists -> AuthReported(kind, s, t)
      [] OTHER              -> ClusterReported(kind, s, t)

-----------------------------------------------------------------------------
(* Mutant of Begin: the errors of the last section are carried along.      *)
BeginKeepingErrors ==
    /\ section = None
    /\ \E sec \in First(plan) :
           /\ section' = sec
           /\ jobs' = JobsOf(sec)
           /\ plan' = plan \ {sec}
    /\ common' = {}
    /\ UNCHANGED <<errors, job, listed, rpt, src, tgt, mode, faults, changes, touched>>

(* The caller takes the next section.                                      *)
Begin ==
    /\ section = None
    /\ \E sec \in First(plan) :
           /\ section' = sec
           /\ jobs' = JobsOf(sec)
           /\ plan' = plan \ {sec}
    /\ errors' = {}
    /\ common' = {}
    /\ UNCHANGED <<job, listed, rpt, src, tgt, mode, faults, changes, touched>>

CanDisturb == faults + changes < MaxDisturbances
Fault == CanDisturb /\ faults' = faults + 1

ReadSource ==
    /\ section # None
    /\ job = None
    /\ \E j \in First(jobs) :
           /\ job' = j
           /\ jobs' = jobs \ {j}
           /\ \/ /\ listed' = List(src, section, j, {})
                 /\ UNCHANGED <<errors, faults>>
              \/ /\ Fault
                 /\ \E lost \in Losses(section, j) : listed' = List(src, section, j, lost)
                 /\ errors' = IF j.kind = "user" THEN errors \cup {UsersUnread} ELSE errors
    /\ UNCHANGED <<plan, section, common, rpt, src, tgt, mode, changes, touched>>

(* The comparison of the two lists.  VerifyCollections goes on to the      *)
(* options of what is on both sides.                                       *)
OnBothSides(there) == {i \in Wanted(section, job) : listed[i] # Absent /\ there[i] # Absent}

Compare(there) ==
    /\ errors' = errors \cup
           {i \in Wanted(section, job) : Reported(job.kind, listed[i], there[i])}
    /\ common' = IF job.kind = "options" THEN common ELSE OnBothSides(there)
    /\ jobs' = IF job.kind = "collection"
               THEN {[kind |-> "options", name |-> i.name] : i \in OnBothSides(there)}
               ELSE jobs

(* Mutant of ReadTarget: the list in hand stays in hand.                   *)
ReadTargetKeepingJob ==
    /\ job # None
    /\ \/ /\ Compare(List(tgt, section, job, {}))
          /\ UNCHANGED faults
       \/ /\ Fault
          /\ \E lost \in Losses(section, job) : Compare(List(tgt, section, job, lost))
    /\ listed' = <<>>
    /\ UNCHANGED <<plan, section, job, rpt, src, tgt, mode, changes, touched>>

ReadTarget ==
    /\ job # None
    /\ \/ /\ Compare(List(tgt, section, job, {}))
          /\ UNCHANGED faults
       \/ /\ Fault
          /\ \E lost \in Losses(section, job) : Compare(List(tgt, section, job, lost))
    /\ job' = None
    /\ listed' = <<>>
    /\ UNCHANGED <<plan, section, rpt, src, tgt, mode, changes, touched>>

(* The section goes to the report, except for the views of a database that *)
(* has none, and the caller goes on with what the verifier returned.       *)
Follows ==
    CASE section.kind = "databases" ->
             {Section(k, i.db, NoName) : k \in DBKinds, i \in common}
      [] section.kind = "collections" ->
             {Section("indexes", i.db, i.name) : i \in common}
      [] OTHER -> {}

Publish ==
    /\ section # None
    /\ jobs = {} /\ job = None
    /\ rpt' = IF section.kind = "views" /\ errors = {} /\ common = {}
              THEN rpt
              ELSE [rpt EXCEPT ![section] = [there |-> TRUE, errors |-> errors]]
    /\ plan' = plan \cup Follows
    /\ section' = None
    /\ UNCHANGED <<jobs, job, listed, errors, common, src, tgt, mode, faults, changes, touched>>

VerifierStep == Begin \/ ReadSource \/ ReadTarget \/ Publish

-----------------------------------------------------------------------------
(* Administrators of the source, and the migration following them.  An     *)
(* index lives in its collection.                                          *)
IndexOf(j, i) == i.kind = "collection" /\ j.kind = "index" /\ j.db = i.db /\ j.name = i.name

CanBe(cat, i, d) ==
    d # Absent => \A c \in Entries : IndexOf(i, c) => cat[c] # Absent

With(cat, i, d) ==
    [j \in Entries |-> IF j = i THEN d
                       ELSE IF d = Absent /\ IndexOf(j, i) THEN Absent
                       ELSE cat[j]]

Changed(old, new) == {i \in Entries : old[i] # new[i]}

SourceChange(i, d) ==
    /\ CanDisturb
    /\ i \in Changeable
    /\ src[i] # d
    /\ CanBe(src, i, d)
    /\ src' = With(src, i, d)
    /\ touched' = touched \cup Changed(src, src')
    /\ changes' = changes + 1
    /\ UNCHANGED <<work, tgt, mode, faults>>

Replicate(i) ==
    /\ i \in touched
    /\ tgt[i] # src[i]
    /\ CanBe(tgt, i, src[i])
    /\ tgt' = With(tgt, i, src[i])
    /\ touched' = touched \cup Changed(tgt, tgt')
    /\ UNCHANGED <<work, src, mode, faults, changes>>

Environment ==
    \E i \in Entries : Replicate(i) \/ \E d \in Defs \cup {Absent} : SourceChange(i, d)

Init ==
    /\ \E data \in InitialData : src = data[1] /\ tgt = data[2]
    /\ mode \in Modes
    /\ plan = {Section(k, ServerWide, NoName) : k \in {"auth", "cluster", "databases"}}
    /\ section = None /\ job = None
    /\ jobs = {} /\ listed = <<>> /\ errors = {} /\ common = {}
    /\ rpt = [sec \in Sections |-> [there |-> FALSE, errors |-> {}]]
    /\ faults = 0 /\ changes = 0
    /\ touched = {}

Next == VerifierStep \/ Environment

Spec == Init /\ [][Next]_vars

-----------------------------------------------------------------------------
TypeOK ==
    /\ src \in Catalogues /\ tgt \in Catalogues
    /\ mode \in Modes
    /\ plan \in SUBSET Sections
    /\ section \in Sections \cup {None}
    /\ jobs \in SUBSET Jobs
    /\ job \in Jobs \cup {None}
    /\ job # None => section # None /\ listed \in [Wanted(section, job) -> Defs \cup {Absent}]
    /\ errors \in SUBSET (Items \cup {UsersUnread})
    /\ common \in SUBSET Items
    /\ rpt \in [Sections -> [there : BOOLEAN, errors : SUBSET (Items \cup {UsersUnread})]]
    /\ faults \in Nat
    /\ changes \in Nat
    /\ faults + changes <= MaxDisturbances
    /\ touched \in SUBSET Entries

Finished == plan = {} /\ section = None
Passed == \A sec \in Sections : rpt[sec].errors = {}

InScope(i) ==
    CASE i.kind \in ServerKinds -> i.kind \in {"shardcount", "shardkey"} => mode.sharding
      [] i.kind = "file" -> DBWanted(i.db)
      [] OTHER -> i.db \notin SkipDBs /\ NSFilter(mode.scope, i.db, i.name)

(* What a pass says of an entry: it is the same on both sides, or one of   *)
(* the differences that the verifiers pass over.                           *)
Agrees(i) ==
    \/ src[i] = tgt[i]
    \/ src[i] = Absent /\ i.kind \in {"role", "ldap", "parameter", "shardkey", "replset"}
    \/ tgt[i] = Absent /\ i.kind = "replset"
    \/ src[i] = Plain /\ tgt[i] # Absent /\ i.kind \in {"index", "collection"}
    \/ Absent \notin {src[i], tgt[i]} /\ i.kind = "role"
    \/ {src[i], tgt[i]} \subseteq Defs \ {Plain} /\ i.kind = "file" /\ ~mode.fullVerify

(* When every list could be read and every section of the report passes,   *)
(* the two clusters agree on every entry in scope that nobody changed,     *)
(* however the verifiers found their way to it through the databases and   *)
(* collections on both sides.                                              *)
PassMeansSameStructure ==
    Finished /\ faults = 0 /\ Passed =>
        \A i \in Entries \ touched : InScope(i) => Agrees(i)

EntriesOf(i) == IF i.kind = "database" THEN {e \in Entries : e.db = i.db} ELSE {i}

(* When every list could be read, an error of a section is about an entry  *)
(* of that section that differs, or that was changed meanwhile.            *)
ErrorsAreDifferences ==
    faults = 0 =>
        \A sec \in Sections : \A i \in rpt[sec].errors :
            /\ i \in UNION {Wanted(sec, j) : j \in JobsOf(sec)}
            /\ \E e \in EntriesOf(i) : e \in touched \/ src[e] # tgt[e]

(* Nothing is reported of a database out of scope, nor of a collection or  *)
(* index out of scope, whatever fails.                                     *)
OutOfScopeIsSilent ==
    \A sec \in Sections : \A i \in rpt[sec].errors \ {UsersUnread} :
        /\ i.db # ServerWide => DBWanted(i.db)
        /\ sec.kind \in {"collections", "indexes"} => NSFilter(mode.scope, i.db, i.name)
=============================================================================
