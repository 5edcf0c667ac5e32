--------------------------- MODULE Structure_proofs ---------------------------
(***************************************************************************)
(* Theorems about Structure, for every catalogue and every scope.  The     *)
(* verifiers go from section to section by what earlier lists returned, so *)
(* each invariant follows that way.  ScopeIsKept: what is planned, in hand *)
(* or found on both sides is in scope.  ErrorsAreGenuine: what is in hand  *)
(* or reported differs or was changed.  PassIsSound: what is behind, with  *)
(* nothing reported, agrees, and what agrees on both sides is planned.     *)
(***************************************************************************)
EXTENDS Structure, TLAPS

(* A collection in scope lies in a database in scope, so that the database *)
(* list never hides what the namespace filter lets through.                *)
THEOREM NamespaceInDBScope ==
    ASSUME NEW scope, NEW db, NEW name, NSFilter(scope, db, name)
    PROVE  DBInScope(scope, db)
<1>1. scope.include = {} \/ \E p \in scope.include : p.db = db
  BY DEF NSFilter, matchNS
<1>2. [db |-> db, name |-> AnyName] \notin scope.exclude
  <2> SUFFICES ASSUME [db |-> db, name |-> AnyName] \in scope.exclude
               PROVE  FALSE
    OBVIOUS
  <2>1. matchNS([db |-> db, name |-> AnyName], db, name)
    BY DEF matchNS
  <2> QED BY <2>1 DEF NSFilter
<1> QED BY <1>1, <1>2 DEF DBInScope

-----------------------------------------------------------------------------
(* A section that the caller may verify.                                   *)
SectionInScope(sec) ==
    /\ sec.kind \in DBKinds \cup {"indexes"} => DBWanted(sec.db)
    /\ sec.kind = "indexes" => NSFilter(mode.scope, sec.db, sec.name)

(* A list that belongs to a section.                                       *)
JobFits(sec, j) ==
    /\ sec.kind \in {"auth", "cluster"} => j.kind \in ServerKinds
    /\ sec.kind = "databases" => j.kind = "database"
    /\ sec.kind = "collections" =>
           j.kind = "collection" \/ (j.kind = "options" /\ NSFilter(mode.scope, sec.db, j.name))
    /\ sec.kind = "indexes" => j.kind = "index"
    /\ sec.kind = "views" => j.kind = "view"
    /\ sec.kind = "gridfs" => j.kind = "file"

(* An item that a section may report.                                      *)
ItemInScope(sec, i) ==
    /\ i.db # ServerWide => DBWanted(i.db)
    /\ sec.kind \in {"collections", "indexes"} => NSFilter(mode.scope, i.db, i.name)

(* An item that makes the caller go on.                                    *)
LeadsOn(sec, i) ==
    /\ sec.kind = "databases" => i.db \in DBs /\ DBWanted(i.db)
    /\ sec.kind = "collections" =>
           /\ i.db \in DBs /\ i.name \in Names
           /\ DBWanted(i.db) /\ NSFilter(mode.scope, i.db, i.name)

HandInScope ==
    /\ \A sec \in plan : SectionInScope(sec)
    /\ section # None =>
           /\ SectionInScope(section)
           /\ \A j \in jobs : JobFits(section, j)
           /\ job # None => JobFits(section, job)
           /\ \A i \in errors \ {UsersUnread} : ItemInScope(section, i)
           /\ \A i \in common : LeadsOn(section, i)

IInv == TypeOK /\ HandInScope /\ OutOfScopeIsSilent

-----------------------------------------------------------------------------
(* What the lists of a section in scope can hold.                          *)
LEMMA WantedInScope ==
    ASSUME NEW sec \in Sections, NEW j \in Jobs, SectionInScope(sec), JobFits(sec, j)
    PROVE  /\ Wanted(sec, j) \subseteq Items
           /\ j.kind # "database" => Wanted(sec, j) \subseteq Entries
           /\ \A i \in Wanted(sec, j) : ItemInScope(sec, i) /\ LeadsOn(sec, i)
<1>1. j.kind # "database" => Wanted(sec, j) \subseteq Entries
  BY SMTT(30)
     DEF Wanted, Jobs, EntryKinds, CollectionsListed, OptionsListed, IndexesListed,
         ViewsListed, FilesListed, ServerListed
<1>2. j.kind = "database" =>
          /\ Wanted(sec, j) \subseteq {Database(db) : db \in DBs}
          /\ \A i \in Wanted(sec, j) : i.db \in DBs /\ DBWanted(i.db)
  BY DEF Wanted, DatabasesListed, Database
<1>3. Wanted(sec, j) \subseteq Items
  BY <1>1, <1>2 DEF Items
<1>4. ASSUME NEW i \in Wanted(sec, j)
      PROVE  ItemInScope(sec, i) /\ LeadsOn(sec, i)
  <2>1. CASE sec.kind = "databases"
    BY <2>1, <1>2 DEF JobFits, ItemInScope, LeadsOn
  <2>2. CASE sec.kind \in {"auth", "cluster"}
    <3>1. j.kind \in ServerKinds
      BY <2>2 DEF JobFits
    <3>2. sec.db = ServerWide
      BY <2>2 DEF Sections, Section, DBKinds
    <3>3. i.db = ServerWide
      BY <3>1, <3>2 DEF Wanted, ServerListed, ServerKinds, EntryKinds
    <3> QED BY <2>2, <3>3 DEF ItemInScope, LeadsOn
  <2>3. CASE sec.kind = "collections"
    <3>0. sec.db \in DBs /\ DBWanted(sec.db)
      BY <2>3 DEF Sections, Section, DBKinds, SectionInScope
    <3>1. CASE j.kind = "collection"
      <4>1. i \in Entries /\ i.kind \in {"collection", "view"} /\ i.db = sec.db
            /\ NSFilter(mode.scope, i.db, i.name)
        BY <3>1 DEF Wanted, CollectionsListed, NSWanted
      <4>2. i.name \in Names
        BY <4>1, StructureAssumption DEF ServerKinds, EntryKinds
      <4> QED BY <4>1, <4>2, <3>0, <2>3 DEF ItemInScope, LeadsOn
    <3>2. CASE j.kind = "options"
      <4>1. i \in Entries /\ i.kind \in {"collection", "view"} /\ i.db = sec.db /\ i.name = j.name
        BY <3>2 DEF Wanted, OptionsListed
      <4>2. i.name \in Names
        BY <4>1, StructureAssumption DEF ServerKinds, EntryKinds
      <4>3. NSFilter(mode.scope, i.db, i.name)
        BY <4>1, <3>2, <2>3 DEF JobFits
      <4> QED BY <4>1, <4>2, <4>3, <3>0, <2>3 DEF ItemInScope, LeadsOn
    <3> QED BY <3>1, <3>2, <2>3 DEF JobFits
  <2>4. CASE sec.kind = "indexes"
    <3>1. j.kind = "index"
      BY <2>4 DEF JobFits
    <3>2. i.db = sec.db /\ i.name = sec.name
      BY <3>1 DEF Wanted, IndexesListed
    <3> QED BY <2>4, <3>2 DEF SectionInScope, ItemInScope, LeadsOn
  <2>5. CASE sec.kind \in {"views", "gridfs"}
    <3>1. j.kind \in {"view", "file"}
      BY <2>5 DEF JobFits
    <3>2. i.db = sec.db
      BY <3>1 DEF Wanted, ViewsListed, FilesListed
    <3>3. DBWanted(sec.db)
      BY <2>5 DEF SectionInScope, DBKinds
    <3> QED BY <2>5, <3>2, <3>3 DEF ItemInScope, LeadsOn
  <2> QED BY <2>1, <2>2, <2>3, <2>4, <2>5 DEF Sections, Section, DBKinds
<1> QED BY <1>1, <1>3, <1>4

(* What a list is read as.                                                 *)
LEMMA ListType ==
    ASSUME NEW cat \in Catalogues, NEW sec, NEW j \in Jobs, NEW lost,
           j.kind # "database" => Wanted(sec, j) \subseteq Entries
    PROVE  List(cat, sec, j, lost) \in [Wanted(sec, j) -> Defs \cup {Absent}]
<1>1. Plain \in Defs
  BY StructureAssumption
<1>2. Unset(j) \in Defs \cup {Absent}
  BY <1>1 DEF Unset
<1>3. ASSUME NEW i \in Wanted(sec, j)
      PROVE  Reading(cat, j, i) \in Defs \cup {Absent}
  <2>1. CASE j.kind = "database"
    BY <2>1, <1>1 DEF Reading
  <2>2. CASE j.kind # "database"
    <3>1. cat[i] \in Defs \cup {Absent}
      BY <2>2 DEF Catalogues
    <3> QED BY <2>2, <3>1, <1>1 DEF Reading
  <2> QED BY <2>1, <2>2
<1> QED BY <1>2, <1>3 DEF List

(* The lists that a section starts with are its own.                       *)
LEMMA JobsFit ==
    ASSUME NEW sec \in Sections
    PROVE  JobsOf(sec) \subseteq Jobs /\ \A j \in JobsOf(sec) : JobFits(sec, j)
<1> USE DEF JobsOf, Unnamed, AuthLists, ClusterLists, Jobs, JobFits, EntryKinds, ServerKinds
<1>1. CASE sec.kind = "auth" BY <1>1
<1>2. CASE sec.kind = "cluster" BY <1>2
<1>3. CASE sec.kind = "databases" BY <1>3
<1>4. CASE sec.kind = "collections" BY <1>4
<1>5. CASE sec.kind = "indexes" BY <1>5
<1>6. CASE sec.kind = "views" BY <1>6
<1>7. CASE sec.kind = "gridfs" BY <1>7
<1> QED BY <1>1, <1>2, <1>3, <1>4, <1>5, <1>6, <1>7 DEF Sections, Section, DBKinds

-----------------------------------------------------------------------------
LEMMA InitIInv == Init => IInv
<1> SUFFICES ASSUME Init PROVE IInv
  OBVIOUS
<1>1. plan \in SUBSET Sections /\ \A sec \in plan : SectionInScope(sec)
  BY DEF Init, Section, Sections, SectionInScope, DBKinds
<1>2. TypeOK
  BY <1>1, StructureAssumption DEF Init, TypeOK, Catalogues
<1>3. HandInScope
  BY <1>1 DEF Init, HandInScope
<1>4. OutOfScopeIsSilent
  BY DEF Init, OutOfScopeIsSilent
<1> QED BY <1>2, <1>3, <1>4 DEF IInv

LEMMA BeginIInv == IInv /\ Begin => IInv'
<1> SUFFICES ASSUME IInv, Begin PROVE IInv'
  OBVIOUS
<1> USE DEF IInv
<1>1. PICK sec \in First(plan) :
          section' = sec /\ jobs' = JobsOf(sec) /\ plan' = plan \ {sec}
  BY DEF Begin
<1>2. sec \in plan /\ sec \in Sections /\ SectionInScope(sec)
  BY <1>1 DEF First, TypeOK, HandInScope
<1>3. mode' = mode /\ job' = job /\ rpt' = rpt /\ errors' = {} /\ common' = {} /\ section = None
  BY DEF Begin
<1>4. job = None
  BY <1>3 DEF TypeOK
<1>5. JobsOf(sec) \subseteq Jobs /\ \A j \in JobsOf(sec) : JobFits(sec, j)
  BY <1>2, JobsFit
<1>6. TypeOK'
  BY <1>1, <1>2, <1>3, <1>4, <1>5 DEF TypeOK, Begin
<1>7. HandInScope'
  BY <1>1, <1>2, <1>3, <1>4, <1>5
     DEF HandInScope, SectionInScope, JobFits, DBWanted, First
<1>8. OutOfScopeIsSilent'
  BY <1>3 DEF OutOfScopeIsSilent, DBWanted
<1> QED BY <1>6, <1>7, <1>8

LEMMA ReadSourceIInv == IInv /\ ReadSource => IInv'
<1> SUFFICES ASSUME IInv, ReadSource PROVE IInv'
  OBVIOUS
<1> USE DEF IInv
<1>1. PICK j \in First(jobs) :
          /\ job' = j
          /\ jobs' = jobs \ {j}
          /\ \E lost : listed' = List(src, section, j, lost)
          /\ errors' \in {errors, errors \cup {UsersUnread}}
          /\ faults' \in {faults, faults + 1} /\ faults' + changes <= MaxDisturbances
  <2>1. faults + changes <= MaxDisturbances /\ faults \in Nat /\ changes \in Nat /\ MaxDisturbances \in Nat
    BY StructureAssumption DEF TypeOK
  <2> QED BY <2>1 DEF ReadSource, Fault, CanDisturb
<1>2. j \in jobs /\ j \in Jobs
  BY <1>1 DEF First, TypeOK
<1>3. section # None /\ job = None /\ section \in Sections /\ section' = section /\ mode' = mode
      /\ plan' = plan /\ common' = common /\ rpt' = rpt
      /\ src' = src /\ tgt' = tgt /\ changes' = changes /\ touched' = touched
  BY DEF ReadSource, TypeOK
<1>4. JobFits(section, j) /\ SectionInScope(section)
  BY <1>2, <1>3 DEF HandInScope
<1>5. j.kind # "database" => Wanted(section, j) \subseteq Entries
  BY <1>2, <1>3, <1>4, WantedInScope
<1>6. listed' \in [Wanted(section, j) -> Defs \cup {Absent}]
  <2>1. src \in Catalogues BY DEF TypeOK
  <2> QED BY <1>1, <1>2, <1>5, <2>1, ListType
<1>8. TypeOK'
  <2>1. listed' \in [Wanted(section, job)' -> Defs \cup {Absent}]
    BY <1>1, <1>3, <1>6
     DEF Wanted, DatabasesListed, CollectionsListed, OptionsListed, IndexesListed,
         ViewsListed, FilesListed, ServerListed, NSWanted, DBWanted
  <2>2. errors' \in SUBSET (Items \cup {UsersUnread})
    BY <1>1 DEF TypeOK
  <2>3. jobs' \in SUBSET Jobs /\ job' \in Jobs
    BY <1>1, <1>2 DEF TypeOK
  <2>4. faults' \in Nat
    BY <1>1 DEF TypeOK
  <2> QED BY <1>1, <1>3, <2>1, <2>2, <2>3, <2>4 DEF TypeOK
<1>9. HandInScope'
  BY <1>1, <1>2, <1>3, <1>4
     DEF HandInScope, SectionInScope, JobFits, ItemInScope, LeadsOn, DBWanted
<1>10. OutOfScopeIsSilent'
  BY <1>3 DEF OutOfScopeIsSilent, DBWanted
<1> QED BY <1>8, <1>9, <1>10

LEMMA ReadTargetIInv == IInv /\ ReadTarget => IInv'
<1> SUFFICES ASSUME IInv, ReadTarget PROVE IInv'
  OBVIOUS
<1> USE DEF IInv
<1>1. PICK there :
          /\ Compare(there)
          /\ faults' \in {faults, faults + 1} /\ faults' + changes <= MaxDisturbances
  <2>1. faults + changes <= MaxDisturbances /\ faults \in Nat /\ changes \in Nat /\ MaxDisturbances \in Nat
    BY StructureAssumption DEF TypeOK
  <2> QED BY <2>1 DEF ReadTarget, Fault, CanDisturb
<1>2. job # None /\ job' = None /\ section # None /\ section \in Sections /\ job \in Jobs
      /\ section' = section /\ mode' = mode /\ plan' = plan /\ rpt' = rpt
      /\ src' = src /\ tgt' = tgt /\ changes' = changes /\ touched' = touched
  BY DEF ReadTarget, TypeOK
<1>3. JobFits(section, job) /\ SectionInScope(section)
  BY <1>2 DEF HandInScope
<1>4. /\ Wanted(section, job) \subseteq Items
      /\ job.kind # "database" => Wanted(section, job) \subseteq Entries
      /\ \A i \in Wanted(section, job) : ItemInScope(section, i) /\ LeadsOn(section, i)
  BY <1>2, <1>3, WantedInScope
<1>5. errors' \subseteq errors \cup Wanted(section, job)
  BY <1>1 DEF Compare
<1>6. common' \subseteq common \cup Wanted(section, job)
  BY <1>1 DEF Compare, OnBothSides
<1>7. \A k \in jobs' : k \in Jobs /\ JobFits(section, k)
  <2>1. CASE job.kind # "collection"
    BY <2>1, <1>1, <1>2 DEF Compare, TypeOK, HandInScope
  <2>2. CASE job.kind = "collection"
    <3>1. section.kind = "collections"
      BY <2>2, <1>2, <1>3 DEF JobFits, Sections, Section, DBKinds, ServerKinds, EntryKinds
    <3>2. ASSUME NEW k \in jobs'
          PROVE  k \in Jobs /\ JobFits(section, k)
      <4>1. PICK i \in Wanted(section, job) : k = [kind |-> "options", name |-> i.name]
        BY <1>1, <2>2 DEF Compare, OnBothSides
      <4>2. i.name \in Names /\ NSFilter(mode.scope, i.db, i.name)
        BY <3>1, <1>4 DEF LeadsOn
      <4>3. i.db = section.db
        BY <2>2 DEF Wanted, CollectionsListed
      <4> QED BY <3>1, <4>1, <4>2, <4>3 DEF Jobs, JobFits
    <3> QED BY <3>2
  <2> QED BY <2>1, <2>2
<1>8. TypeOK'
  <2>1. errors' \in SUBSET (Items \cup {UsersUnread}) /\ common' \in SUBSET Items
    BY <1>4, <1>5, <1>6 DEF TypeOK
  <2>2. faults' \in Nat
    BY <1>1 DEF TypeOK
  <2> QED BY <1>1, <1>2, <1>7, <2>1, <2>2 DEF TypeOK
<1>9. HandInScope'
  <2>1. \A i \in errors' \ {UsersUnread} : ItemInScope(section, i)
    BY <1>2, <1>4, <1>5 DEF HandInScope
  <2>2. \A i \in common' : LeadsOn(section, i)
    BY <1>2, <1>4, <1>6 DEF HandInScope
  <2> QED BY <1>2, <1>3, <1>7, <2>1, <2>2
     DEF HandInScope, SectionInScope, JobFits, ItemInScope, LeadsOn, DBWanted
<1>10. OutOfScopeIsSilent'
  BY <1>2 DEF OutOfScopeIsSilent, DBWanted
<1> QED BY <1>8, <1>9, <1>10

LEMMA PublishIInv == IInv /\ Publish => IInv'
<1> SUFFICES ASSUME IInv, Publish PROVE IInv'
  OBVIOUS
<1> USE DEF IInv
<1>1. section # None /\ section \in Sections /\ section' = None /\ job = None /\ job' = job
      /\ jobs' = jobs /\ errors' = errors /\ common' = common /\ mode' = mode
      /\ plan' = plan \cup Follows /\ src' = src /\ tgt' = tgt /\ touched' = touched
      /\ faults' = faults /\ changes' = changes /\ listed' = listed
  BY DEF Publish, TypeOK
<1>2. rpt' \in {rpt, [rpt EXCEPT ![section] = [there |-> TRUE, errors |-> errors]]}
  BY DEF Publish
<1>3. \A sec \in Follows : sec \in Sections /\ SectionInScope(sec)
  <2>1. CASE section.kind = "databases"
    <3>1. \A i \in common : i.db \in DBs /\ DBWanted(i.db)
      BY <2>1, <1>1 DEF HandInScope, LeadsOn
    <3>2. Follows = {Section(k, i.db, NoName) : k \in DBKinds, i \in common}
      BY <2>1 DEF Follows
    <3> QED BY <3>1, <3>2 DEF Sections, Section, SectionInScope, DBKinds
  <2>2. CASE section.kind = "collections"
    <3>1. \A i \in common : /\ i.db \in DBs /\ i.name \in Names
                            /\ DBWanted(i.db) /\ NSFilter(mode.scope, i.db, i.name)
      BY <2>2, <1>1 DEF HandInScope, LeadsOn
    <3>2. Follows = {Section("indexes", i.db, i.name) : i \in common}
      BY <2>2 DEF Follows
    <3> QED BY <3>1, <3>2 DEF Sections, Section, SectionInScope, DBKinds
  <2>3. CASE section.kind \notin {"databases", "collections"}
    BY <2>3 DEF Follows
  <2> QED BY <2>1, <2>2, <2>3
<1>4. TypeOK'
  <2>1. rpt' \in [Sections -> [there : BOOLEAN, errors : SUBSET (Items \cup {UsersUnread})]]
    <3> DEFINE Entry == [there : BOOLEAN, errors : SUBSET (Items \cup {UsersUnread})]
    <3>1. rpt \in [Sections -> Entry] /\ [there |-> TRUE, errors |-> errors] \in Entry
      BY DEF TypeOK
    <3> HIDE DEF Entry
    <3>2. rpt' \in [Sections -> Entry]
      BY <1>1, <1>2, <3>1
    <3> QED BY <3>2 DEF Entry
  <2>2. plan' \in SUBSET Sections
    BY <1>1, <1>3 DEF TypeOK
  <2> QED BY <1>1, <2>1, <2>2 DEF TypeOK
<1>5. HandInScope'
  BY <1>1, <1>3 DEF HandInScope, SectionInScope, DBWanted
<1>6. OutOfScopeIsSilent'
  <2>1. \A i \in errors \ {UsersUnread} : ItemInScope(section, i)
    BY <1>1 DEF HandInScope
  <2>2. ASSUME NEW sec \in Sections, NEW i \in rpt'[sec].errors \ {UsersUnread}
        PROVE  ItemInScope(sec, i)
    <3>1. CASE sec # section \/ rpt' = rpt
      <4>1. rpt'[sec] = rpt[sec]
        BY <3>1, <1>2 DEF TypeOK
      <4> QED BY <4>1, <2>2 DEF OutOfScopeIsSilent, ItemInScope
    <3>2. CASE sec = section /\ rpt' # rpt
      <4>1. rpt'[sec].errors = errors
        BY <3>2, <1>2 DEF TypeOK
      <4> QED BY <4>1, <3>2, <2>1
    <3> QED BY <3>1, <3>2
  <2> QED BY <1>1, <2>2 DEF OutOfScopeIsSilent, ItemInScope, DBWanted
<1> QED BY <1>4, <1>5, <1>6

LEMMA EnvironmentIInv == IInv /\ Environment => IInv'
<1> SUFFICES ASSUME IInv, Environment PROVE IInv'
  OBVIOUS
<1> USE DEF IInv
<1>1. UNCHANGED <<work, mode>> /\ faults' = faults
  BY DEF Environment, SourceChange, Replicate
<1>2. ASSUME NEW cat \in Catalogues, NEW i \in Entries, NEW d \in Defs \cup {Absent}
      PROVE  With(cat, i, d) \in Catalogues
  BY DEF With, Catalogues
<1>3. /\ src' \in Catalogues /\ tgt' \in Catalogues /\ touched' \in SUBSET Entries
      /\ changes' \in Nat /\ faults + changes' <= MaxDisturbances
  <2>0. src \in Catalogues /\ tgt \in Catalogues /\ touched \in SUBSET Entries
        /\ changes \in Nat /\ faults \in Nat /\ faults + changes <= MaxDisturbances
        /\ MaxDisturbances \in Nat
    BY StructureAssumption DEF TypeOK
  <2>1. PICK i \in Entries : Replicate(i) \/ \E d \in Defs \cup {Absent} : SourceChange(i, d)
    BY DEF Environment
  <2>2. CASE Replicate(i)
    <3>1. src[i] \in Defs \cup {Absent}
      BY <2>0 DEF Catalogues
    <3>2. tgt' \in Catalogues
      BY <2>0, <2>2, <3>1, <1>2 DEF Replicate
    <3> QED BY <2>0, <2>2, <3>2 DEF Replicate, Changed
  <2>3. CASE \E d \in Defs \cup {Absent} : SourceChange(i, d)
    <3>1. PICK d \in Defs \cup {Absent} : SourceChange(i, d)
      BY <2>3
    <3>2. src' \in Catalogues
      BY <2>0, <3>1, <1>2 DEF SourceChange
    <3> QED BY <2>0, <3>1, <3>2 DEF SourceChange, Changed, CanDisturb
  <2> QED BY <2>1, <2>2, <2>3
<1>4. TypeOK'
  BY <1>1, <1>3 
     DEF TypeOK, work, Wanted, DatabasesListed, CollectionsListed, OptionsListed, IndexesListed,
         ViewsListed, FilesListed, ServerListed, NSWanted, DBWanted
<1>5. HandInScope'
  BY <1>1 DEF work, HandInScope, SectionInScope, JobFits, ItemInScope, LeadsOn, DBWanted
<1>6. OutOfScopeIsSilent'
  BY <1>1 DEF work, OutOfScopeIsSilent, DBWanted
<1> QED BY <1>4, <1>5, <1>6

LEMMA StutterIInv == IInv /\ UNCHANGED vars => IInv'
<1> SUFFICES ASSUME IInv, UNCHANGED vars PROVE IInv'
  OBVIOUS
<1> USE DEF IInv, vars, work
<1>1. TypeOK'
  BY DEF TypeOK, Wanted, DatabasesListed, CollectionsListed, OptionsListed, IndexesListed,
         ViewsListed, FilesListed, ServerListed, NSWanted, DBWanted
<1>2. HandInScope'
  BY DEF HandInScope, SectionInScope, JobFits, ItemInScope, LeadsOn, DBWanted
<1>3. OutOfScopeIsSilent'
  BY DEF OutOfScopeIsSilent, DBWanted
<1> QED BY <1>1, <1>2, <1>3

(* The invariant: types, and the scope along the caller's way.             *)
THEOREM InvariantHolds == Spec => []IInv
<1>1. IInv /\ [Next]_vars => IInv'
  BY BeginIInv, ReadSourceIInv, ReadTargetIInv, PublishIInv, EnvironmentIInv, StutterIInv
     DEF Next, VerifierStep
<1> QED BY InitIInv, <1>1, PTL DEF Spec

(* The types of Structure's state.                                         *)
THEOREM StructureTypeCorrect == Spec => []TypeOK
<1>1. IInv => TypeOK
  BY DEF IInv
<1> QED BY InvariantHolds, <1>1, PTL

(* Nothing out of scope is reported, whichever lists fail and whatever is  *)
(* changed meanwhile; views and files only as far as their database.       *)
THEOREM ScopeIsKept == Spec => []OutOfScopeIsSilent
<1>1. IInv => OutOfScopeIsSilent
  BY DEF IInv
<1> QED BY InvariantHolds, <1>1, PTL

-----------------------------------------------------------------------------
(* What the report says of an item: it belongs to the section, and one of  *)
(* the entries behind it differs or was changed.                           *)
Belongs(sec, i) == i \in UNION {Wanted(sec, j) : j \in JobsOf(sec)}
Differs(i) == \E e \in Entries : e \in EntriesOf(i) /\ (e \in touched \/ src[e] # tgt[e])

OwnJob(sec, j) == j \in JobsOf(sec) \/ (sec.kind = "collections" /\ j.kind = "options")

ReadAsItWas ==
    \A i \in Wanted(section, job) :
        (\A e \in Entries : e \in EntriesOf(i) => e \notin touched)
            => listed[i] = Reading(src, job, i)

HandIsGenuine ==
    section # None =>
        /\ \A j \in jobs : OwnJob(section, j)
        /\ job # None => OwnJob(section, job)
        /\ faults = 0 => \A i \in errors : Belongs(section, i) /\ Differs(i)
        /\ faults = 0 /\ job # None => ReadAsItWas

ReportIsGenuine ==
    faults = 0 => \A sec \in Sections : \A i \in rpt[sec].errors : Belongs(sec, i) /\ Differs(i)

DInv == IInv /\ HandIsGenuine /\ ReportIsGenuine

(* What is wanted, and by which lists, depends on the mode only.           *)
LEMMA WantedSteady ==
    ASSUME UNCHANGED mode
    PROVE  \A sec, j : Wanted(sec, j)' = Wanted(sec, j) /\ JobsOf(sec)' = JobsOf(sec)
BY DEF Wanted, DatabasesListed, CollectionsListed, OptionsListed, IndexesListed,
       ViewsListed, FilesListed, ServerListed, NSWanted, DBWanted,
       JobsOf, Unnamed, AuthLists, ClusterLists

(* The options compared are those of collections the section lists.        *)
LEMMA OwnJobBelongs ==
    ASSUME NEW sec \in Sections, NEW j \in Jobs, OwnJob(sec, j), JobFits(sec, j),
           NEW i \in Wanted(sec, j)
    PROVE  Belongs(sec, i)
<1>1. CASE j \in JobsOf(sec)
  BY <1>1 DEF Belongs
<1>2. CASE sec.kind = "collections" /\ j.kind = "options"
  <2> DEFINE k == [kind |-> "collection", name |-> NoName]
  <2>1. k \in JobsOf(sec)
    BY <1>2 DEF JobsOf, Unnamed
  <2>2. i \in Wanted(sec, k)
    BY <1>2 DEF Wanted, OptionsListed, CollectionsListed, NSWanted, JobFits
  <2> QED BY <2>1, <2>2 DEF Belongs
<1> QED BY <1>1, <1>2 DEF OwnJob

(* Two lists that read an item differently differ in an entry behind it.   *)
LEMMA ReadingsDiffer ==
    ASSUME NEW a \in Catalogues, NEW b \in Catalogues, NEW j \in Jobs, NEW i \in Items,
           j.kind # "database" => i \in Entries,
           j.kind = "database" => i.kind = "database",
           \A e \in Entries : e \in EntriesOf(i) => a[e] = b[e]
    PROVE  Reading(a, j, i) = Reading(b, j, i)
<1>1. CASE j.kind = "database"
  <2>1. \A e \in Entries : e.db = i.db => a[e] = b[e]
    BY <1>1 DEF EntriesOf
  <2> QED BY <1>1, <2>1 DEF Reading
<1>2. CASE j.kind # "database"
  <2>1. i.kind # "database"
    BY <1>2, StructureAssumption DEF EntryKinds, ServerKinds
  <2>2. a[i] = b[i]
    BY <1>2, <2>1 DEF EntriesOf
  <2> QED BY <1>2, <2>2 DEF Reading
<1> QED BY <1>1, <1>2

(* No comparison reports what it reads the same on both sides.             *)
LEMMA ReportedDiffer ==
    ASSUME NEW kind, NEW s, NEW t, Reported(kind, s, t)
    PROVE  s # t
BY SMTT(30)
   DEF Reported, OnOneSide, OnBoth, OptionsReported, IndexReported, ViewReported, FileReported,
       AuthReported, ClusterReported, AuthLists

(* An administrator changes only what is recorded as touched.              *)
LEMMA EnvironmentTouches ==
    ASSUME TypeOK, Environment
    PROVE  /\ UNCHANGED <<work, mode, faults>>
           /\ touched \subseteq touched'
           /\ \A e \in Entries : e \notin touched' => src'[e] = src[e] /\ tgt'[e] = tgt[e]
BY DEF Environment, SourceChange, Replicate, Changed

LEMMA WantedKinds ==
    ASSUME NEW sec \in Sections, NEW j \in Jobs, SectionInScope(sec), JobFits(sec, j),
           NEW i \in Wanted(sec, j)
    PROVE  /\ i \in Items
           /\ j.kind # "database" => i \in Entries
           /\ j.kind = "database" => i.kind = "database"
<1>1. j.kind = "database" => i.kind = "database"
  BY DEF Wanted, DatabasesListed, Database
<1> QED BY <1>1, WantedInScope

LEMMA InitDInv == Init => DInv
BY InitIInv DEF Init, DInv, HandIsGenuine, ReportIsGenuine

LEMMA BeginDInv == DInv /\ Begin => DInv'
<1> SUFFICES ASSUME DInv, Begin PROVE DInv'
  OBVIOUS
<1>1. IInv /\ IInv'
  BY BeginIInv DEF DInv
<1>2. PICK sec \in First(plan) : section' = sec /\ jobs' = JobsOf(sec)
  BY DEF Begin
<1>3. /\ section = None /\ job' = None /\ errors' = {}
      /\ UNCHANGED <<rpt, src, tgt, mode, faults, touched>>
  BY <1>1 DEF Begin, IInv, TypeOK
<1>4. \A s, j : Wanted(s, j)' = Wanted(s, j) /\ JobsOf(s)' = JobsOf(s)
  BY <1>3, WantedSteady
<1>5. HandIsGenuine'
  BY <1>2, <1>3, <1>4 DEF HandIsGenuine, OwnJob
<1>6. ReportIsGenuine'
  BY <1>3, <1>4 DEF DInv, ReportIsGenuine, Belongs, Differs
<1> QED BY <1>1, <1>5, <1>6 DEF DInv

LEMMA ReadSourceDInv == DInv /\ ReadSource => DInv'
<1> SUFFICES ASSUME DInv, ReadSource PROVE DInv'
  OBVIOUS
<1>1. IInv /\ IInv'
  BY ReadSourceIInv DEF DInv
<1>2. PICK j \in First(jobs) :
          /\ job' = j
          /\ jobs' = jobs \ {j}
          /\ \/ listed' = List(src, section, j, {}) /\ UNCHANGED <<errors, faults>>
             \/ faults' = faults + 1
  BY DEF ReadSource, Fault
<1>3. section # None /\ UNCHANGED <<section, rpt, src, tgt, mode, touched>>
  BY DEF ReadSource
<1>4. \A s, k : Wanted(s, k)' = Wanted(s, k) /\ JobsOf(s)' = JobsOf(s)
  BY <1>3, WantedSteady
<1>5. j \in jobs /\ OwnJob(section, j)
  BY <1>2, <1>3 DEF First, DInv, HandIsGenuine
<1>6. faults' = 0 => faults = 0 /\ errors' = errors /\ listed' = List(src, section, j, {})
  BY <1>1, <1>2 DEF IInv, TypeOK
<1>7. HandIsGenuine'
  <2>1. \A k \in jobs' : OwnJob(section, k)
    BY <1>2, <1>3 DEF DInv, HandIsGenuine
  <2>2. faults' = 0 => \A i \in errors' : Belongs(section, i) /\ Differs(i)
    BY <1>3, <1>6 DEF DInv, HandIsGenuine
  <2>3. faults' = 0 =>
            \A i \in Wanted(section, j) : listed'[i] = Reading(src, j, i)
    BY <1>6 DEF List
  <2>4. faults' = 0 => ReadAsItWas'
    BY <1>2, <1>3, <1>4, <2>3 DEF ReadAsItWas, Reading
  <2> QED BY <1>2, <1>3, <1>4, <1>5, <2>1, <2>2, <2>4 DEF HandIsGenuine, OwnJob, Belongs, Differs
<1>8. ReportIsGenuine'
  BY <1>3, <1>4, <1>6 DEF DInv, ReportIsGenuine, Belongs, Differs
<1> QED BY <1>1, <1>7, <1>8 DEF DInv

LEMMA ReadTargetDInv == DInv /\ ReadTarget => DInv'
<1> SUFFICES ASSUME DInv, ReadTarget PROVE DInv'
  OBVIOUS
<1>1. IInv /\ IInv'
  BY ReadTargetIInv DEF DInv
<1>2. /\ job # None /\ job' = None /\ section # None
      /\ UNCHANGED <<section, rpt, src, tgt, mode, touched>>
  BY <1>1 DEF ReadTarget, IInv, TypeOK
<1>3. PICK lost :
          /\ Compare(List(tgt, section, job, lost))
          /\ faults' = 0 => faults = 0 /\ lost = {}
  <2>1. CASE Compare(List(tgt, section, job, {})) /\ UNCHANGED faults
    BY <2>1
  <2>2. CASE Fault /\ \E lost : Compare(List(tgt, section, job, lost))
    <3>1. faults' # 0
      BY <1>1, <2>2 DEF Fault, IInv, TypeOK
    <3> QED BY <2>2, <3>1
  <2> QED BY <2>1, <2>2 DEF ReadTarget
<1>4. \A s, k : Wanted(s, k)' = Wanted(s, k) /\ JobsOf(s)' = JobsOf(s)
  BY <1>2, WantedSteady
<1>5. section \in Sections /\ job \in Jobs /\ src \in Catalogues /\ tgt \in Catalogues
  BY <1>1, <1>2 DEF IInv, TypeOK
<1>6. SectionInScope(section) /\ JobFits(section, job) /\ OwnJob(section, job)
  BY <1>1, <1>2 DEF IInv, HandInScope, DInv, HandIsGenuine
<1>7. ASSUME faults' = 0, NEW i \in errors' \ errors
      PROVE  Belongs(section, i) /\ Differs(i)
  <2>1. /\ i \in Wanted(section, job)
        /\ Reported(job.kind, listed[i], Reading(tgt, job, i))
    BY <1>3, <1>7 DEF Compare, List
  <2>2. Belongs(section, i)
    BY <2>1, <1>5, <1>6, OwnJobBelongs
  <2>3. listed[i] # Reading(tgt, job, i)
    BY <2>1, ReportedDiffer
  <2>4. SUFFICES ASSUME ~Differs(i) PROVE FALSE
    BY <2>2
  <2>5. listed[i] = Reading(src, job, i)
    BY <2>1, <2>4, <1>2, <1>3, <1>7 DEF Differs, DInv, HandIsGenuine, ReadAsItWas
  <2>6. /\ i \in Items
        /\ job.kind # "database" => i \in Entries
        /\ job.kind = "database" => i.kind = "database"
    BY <2>1, <1>5, <1>6, WantedKinds
  <2>7. Reading(src, job, i) = Reading(tgt, job, i)
    BY <2>4, <2>6, <1>5, ReadingsDiffer DEF Differs
  <2> QED BY <2>3, <2>5, <2>7
<1>8. \A k \in jobs' : OwnJob(section, k)
  <2>1. CASE job.kind = "collection"
    <3>1. section.kind = "collections"
      BY <2>1, <1>5, <1>6 DEF JobFits, Sections, Section, DBKinds, ServerKinds, EntryKinds
    <3> QED BY <2>1, <3>1, <1>3 DEF Compare, OwnJob
  <2>2. CASE job.kind # "collection"
    BY <2>2, <1>2, <1>3 DEF Compare, DInv, HandIsGenuine
  <2> QED BY <2>1, <2>2
<1>9. HandIsGenuine'
  <2>1. faults' = 0 => \A i \in errors' : Belongs(section, i) /\ Differs(i)
    BY <1>2, <1>3, <1>7 DEF DInv, HandIsGenuine
  <2> QED BY <1>2, <1>4, <1>8, <2>1 DEF HandIsGenuine, OwnJob, Belongs, Differs
<1>10. ReportIsGenuine'
  BY <1>2, <1>3, <1>4 DEF DInv, ReportIsGenuine, Belongs, Differs
<1> QED BY <1>1, <1>9, <1>10 DEF DInv

LEMMA PublishDInv == DInv /\ Publish => DInv'
<1> SUFFICES ASSUME DInv, Publish PROVE DInv'
  OBVIOUS
<1>1. IInv /\ IInv'
  BY PublishIInv DEF DInv
<1>2. /\ section # None /\ section \in Sections /\ section' = None
      /\ rpt' \in {rpt, [rpt EXCEPT ![section] = [there |-> TRUE, errors |-> errors]]}
      /\ UNCHANGED <<src, tgt, mode, faults, touched>>
  BY <1>1 DEF Publish, IInv, TypeOK
<1>3. \A s, k : Wanted(s, k)' = Wanted(s, k) /\ JobsOf(s)' = JobsOf(s)
  BY <1>2, WantedSteady
<1>4. HandIsGenuine'
  BY <1>2 DEF HandIsGenuine
<1>5. ASSUME faults = 0, NEW sec \in Sections, NEW i \in rpt'[sec].errors
      PROVE  Belongs(sec, i) /\ Differs(i)
  <2>1. i \in rpt[sec].errors \/ (sec = section /\ i \in errors)
    BY <1>1, <1>2, <1>5 DEF IInv, TypeOK
  <2> QED BY <2>1, <1>2, <1>5 DEF DInv, HandIsGenuine, ReportIsGenuine
<1>6. ReportIsGenuine'
  BY <1>2, <1>3, <1>5 DEF ReportIsGenuine, Belongs, Differs
<1> QED BY <1>1, <1>4, <1>6 DEF DInv

LEMMA EnvironmentDInv == DInv /\ Environment => DInv'
<1> SUFFICES ASSUME DInv, Environment PROVE DInv'
  OBVIOUS
<1>1. IInv /\ IInv'
  BY EnvironmentIInv DEF DInv
<1>2. /\ UNCHANGED <<work, mode, faults>>
      /\ touched \subseteq touched'
      /\ \A e \in Entries : e \notin touched' => src'[e] = src[e] /\ tgt'[e] = tgt[e]
  BY <1>1, EnvironmentTouches DEF IInv
<1>3. UNCHANGED <<section, jobs, job, listed, errors, rpt>>
  BY <1>2 DEF work
<1>4. \A s, k : Wanted(s, k)' = Wanted(s, k) /\ JobsOf(s)' = JobsOf(s)
  BY <1>2, WantedSteady
<1>5. ASSUME NEW i, Differs(i) PROVE Differs(i)'
  BY <1>2, <1>5 DEF Differs, EntriesOf
<1>6. ASSUME section # None, job # None, faults = 0 PROVE ReadAsItWas'
  <2>1. SUFFICES ASSUME NEW i \in Wanted(section, job),
                        \A e \in Entries : e \in EntriesOf(i) => e \notin touched'
                 PROVE  listed[i] = Reading(src', job, i)
    BY <1>3, <1>4 DEF ReadAsItWas, EntriesOf, Reading
  <2>2. listed[i] = Reading(src, job, i)
    BY <2>1, <1>2, <1>6 DEF DInv, HandIsGenuine, ReadAsItWas
  <2>3. /\ section \in Sections /\ job \in Jobs /\ src \in Catalogues /\ src' \in Catalogues
        /\ SectionInScope(section) /\ JobFits(section, job)
    BY <1>1, <1>6 DEF IInv, TypeOK, HandInScope
  <2>4. /\ i \in Items
        /\ job.kind # "database" => i \in Entries
        /\ job.kind = "database" => i.kind = "database"
    BY <2>1, <2>3, WantedKinds
  <2>5. Reading(src', job, i) = Reading(src, job, i)
    BY <2>1, <2>3, <2>4, <1>2, ReadingsDiffer
  <2> QED BY <2>2, <2>5
<1>7. HandIsGenuine'
  BY <1>2, <1>3, <1>4, <1>5, <1>6 DEF DInv, HandIsGenuine, OwnJob, Belongs
<1>8. ReportIsGenuine'
  BY <1>2, <1>3, <1>4, <1>5 DEF DInv, ReportIsGenuine, Belongs
<1> QED BY <1>1, <1>7, <1>8 DEF DInv

LEMMA StutterDInv == DInv /\ UNCHANGED vars => DInv'
<1> SUFFICES ASSUME DInv, UNCHANGED vars PROVE DInv'
  OBVIOUS
<1>1. IInv'
  BY StutterIInv DEF DInv
<1>2. UNCHANGED <<section, jobs, job, listed, errors, rpt, src, tgt, mode, faults, touched>>
  BY DEF vars, work
<1>3. \A s, k : Wanted(s, k)' = Wanted(s, k) /\ JobsOf(s)' = JobsOf(s)
  BY <1>2, WantedSteady
<1>4. HandIsGenuine' /\ ReportIsGenuine'
  BY <1>2, <1>3
     DEF DInv, HandIsGenuine, ReportIsGenuine, OwnJob, Belongs, Differs, ReadAsItWas, Reading,
         EntriesOf
<1> QED BY <1>1, <1>4 DEF DInv

(* What is in hand and what has been reported are differences.             *)
LEMMA DifferencesHold == Spec => []DInv
<1>1. DInv /\ [Next]_vars => DInv'
  BY BeginDInv, ReadSourceDInv, ReadTargetDInv, PublishDInv, EnvironmentDInv, StutterDInv
     DEF Next, VerifierStep
<1> QED BY InitDInv, <1>1, PTL DEF Spec

(* No false alarm: as long as every list can be read, every error of every *)
(* section is about an entry of that section that differs between the      *)
(* clusters, or that somebody changed while it was being verified.         *)
THEOREM ErrorsAreGenuine == Spec => []ErrorsAreDifferences
<1>1. DInv => ErrorsAreDifferences
  BY DEF DInv, ReportIsGenuine, Belongs, Differs, ErrorsAreDifferences
<1> QED BY DifferencesHold, <1>1, PTL

-----------------------------------------------------------------------------
(* An index that is there is in a collection that is there.                *)
InPlace(cat) ==
    \A i \in Entries, c \in Entries : IndexOf(i, c) /\ cat[i] # Absent => cat[c] # Absent

(* An untouched entry that shows an item to be there, on one side at least *)
(* and for as long as it has been looked at.                               *)
Shows(e, i) == e = i \/ IndexOf(e, i) \/ (i.kind = "database" /\ e.db = i.db)
SureIn(cat, i) == \E e \in Entries : e \notin touched /\ Shows(e, i) /\ cat[e] # Absent
Sure(i) == SureIn(src, i) \/ SureIn(tgt, i)

(* A comparison of the entry as it is would report nothing.                *)
Silent(kind, i) == ~Reported(kind, src[i], tgt[i])

NameLists == {"database", "collection"}
OptionsOf(i) == [kind |-> "options", name |-> i.name]

(* What the section in hand has made, so far, of the lists it has finished *)
(* with: the names on either side, the entries of the other lists, and the *)
(* options of what is on both sides.                                       *)
NamesFound ==
    \A j \in JobsOf(section) : j.kind \in NameLists =>
        \A i \in Wanted(section, j) : Sure(i) =>
            /\ job = j /\ SureIn(src, i) => listed[i] # Absent
            /\ j \in jobs \/ job = j \/ i \in errors \cup common

EntriesCompared ==
    \A j \in JobsOf(section) : j.kind \notin NameLists =>
        \A i \in Wanted(section, j) : i \notin touched =>
            j \in jobs \/ job = j \/ Silent(j.kind, i) \/ i \in errors

OptionsCompared ==
    section.kind = "collections" =>
        \A i \in common :
            /\ i \in Entries /\ i.db = section.db
            /\ i \notin touched => OnBoth(src[i], tgt[i])
            /\ i \notin touched /\ i.kind = "collection" =>
                   \/ OptionsOf(i) \in jobs \/ job = OptionsOf(i)
                   \/ Silent("options", i) \/ i \in errors

HandFinds == section # None => NamesFound /\ EntriesCompared /\ OptionsCompared

(* What a section that passed says, and the sections it has led to.        *)
Clean(sec) == sec \notin plan /\ section # sec /\ rpt[sec].errors = {}

ListsSettled(sec) ==
    Clean(sec) =>
        \A j \in JobsOf(sec) : \A i \in Wanted(sec, j) :
            i \notin touched => Silent(j.kind, i)

CollectionsSettled(sec) ==
    Clean(sec) =>
        \A i \in CollectionsListed(sec.db) : Sure(i) =>
            /\ i \notin touched /\ i.kind = "collection" =>
                   OnBoth(src[i], tgt[i]) /\ Silent("options", i)
            /\ ListsSettled(Section("indexes", sec.db, i.name))

DatabasesSettled(sec) ==
    Clean(sec) =>
        \A db \in DBs : DBWanted(db) /\ Sure(Database(db)) =>
            /\ CollectionsSettled(Section("collections", db, NoName))
            /\ ListsSettled(Section("views", db, NoName))
            /\ ListsSettled(Section("gridfs", db, NoName))

ReportSettled ==
    /\ ListsSettled(Section("auth", ServerWide, NoName))
    /\ ListsSettled(Section("cluster", ServerWide, NoName))
    /\ DatabasesSettled(Section("databases", ServerWide, NoName))

PInv ==
    /\ DInv
    /\ InPlace(src) /\ InPlace(tgt)
    /\ faults = 0 => HandFinds /\ ReportSettled

-----------------------------------------------------------------------------
(* A step under which nothing untouched changes.                           *)
Steady ==
    /\ mode' = mode
    /\ touched \subseteq touched'
    /\ \A e \in Entries : e \notin touched' => src'[e] = src[e] /\ tgt'[e] = tgt[e]

(* Nothing becomes surer on the way.                                       *)
LEMMA SureDecreases ==
    ASSUME Steady
    PROVE  \A i : (SureIn(src, i)' => SureIn(src, i)) /\ (Sure(i)' => Sure(i))
BY DEF Steady, Sure, SureIn, Shows, IndexOf

(* An entry that differs shows itself, its collection and its database.    *)
LEMMA DifferentIsSure ==
    ASSUME NEW i \in Entries, i \notin touched, src[i] # tgt[i]
    PROVE  /\ Sure(i)
           /\ Sure(Database(i.db))
           /\ i.kind = "index" => Sure(CollectionOf(i))
<1>1. src[i] # Absent \/ tgt[i] # Absent
  OBVIOUS
<1>2. Shows(i, i) /\ Shows(i, Database(i.db))
  BY DEF Shows, Database
<1>3. i.kind = "index" => Shows(i, CollectionOf(i))
  BY DEF Shows, IndexOf, CollectionOf
<1> QED BY <1>1, <1>2, <1>3 DEF Sure, SureIn

(* What is sure to be there is read as there.                              *)
LEMMA SureIsRead ==
    ASSUME NEW cat \in Catalogues, InPlace(cat), NEW j \in Jobs, NEW i \in Items,
           SureIn(cat, i), j.kind \in NameLists,
           j.kind # "database" => i \in Entries,
           j.kind = "database" => i.kind = "database"
    PROVE  Reading(cat, j, i) # Absent
<1>1. PICK e \in Entries : Shows(e, i) /\ cat[e] # Absent
  BY DEF SureIn
<1>2. CASE j.kind = "database"
  <2>1. e # i /\ ~IndexOf(e, i)
    BY <1>2, StructureAssumption DEF EntryKinds, ServerKinds, IndexOf
  <2>2. e.db = i.db
    BY <1>1, <2>1 DEF Shows
  <2>3. Plain # Absent
    BY StructureAssumption
  <2> QED BY <1>1, <1>2, <2>2, <2>3 DEF Reading
<1>3. CASE j.kind = "collection"
  <2>1. i.kind # "database"
    BY <1>3, StructureAssumption DEF EntryKinds, ServerKinds
  <2>2. cat[i] # Absent
    BY <1>1, <1>3, <2>1 DEF Shows, InPlace
  <2> QED BY <1>3, <2>2 DEF Reading
<1> QED BY <1>2, <1>3 DEF NameLists

(* A list of names is the only one its section starts with.                *)
LEMMA NameListAlone ==
    ASSUME NEW sec \in Sections, NEW j \in JobsOf(sec), j.kind \in NameLists, NEW k \in JobsOf(sec)
    PROVE  k = j
<1>1. sec.kind \in {"databases", "collections"}
  BY DEF NameLists, JobsOf, Unnamed, AuthLists, ClusterLists, Sections, Section, DBKinds
<1> QED BY <1>1 DEF JobsOf, Unnamed

(* The collections section starts with its names, and goes on to options.  *)
LEMMA CollectionsJob ==
    ASSUME NEW sec \in Sections, sec.kind = "collections"
    PROVE  \A j \in JobsOf(sec) : j.kind = "collection"
BY DEF JobsOf, Unnamed

LEMMA StartsWithoutOptions ==
    ASSUME NEW sec \in Sections
    PROVE  \A j \in JobsOf(sec) : j.kind # "options"
BY JobsFit DEF JobFits, ServerKinds, EntryKinds, Sections, Section, DBKinds, JobsOf, Unnamed

(* Indexes stay in their collections, whatever is created or dropped.      *)
LEMMA WithInPlace ==
    ASSUME NEW cat \in Catalogues, InPlace(cat), NEW i \in Entries, NEW d, CanBe(cat, i, d)
    PROVE  InPlace(With(cat, i, d))
<1> SUFFICES ASSUME NEW j \in Entries, NEW c \in Entries, IndexOf(j, c),
                    With(cat, i, d)[j] # Absent
             PROVE  With(cat, i, d)[c] # Absent
  BY DEF InPlace
<1>1. j # c /\ ~IndexOf(c, i)
  BY DEF IndexOf
<1>2. CASE j = i
  <2>1. d # Absent
    BY <1>2 DEF With
  <2>2. cat[c] # Absent
    BY <1>2, <2>1 DEF CanBe
  <2> QED BY <1>1, <1>2, <2>2 DEF With
<1>3. CASE j # i
  <2>1. cat[j] # Absent /\ ~(d = Absent /\ IndexOf(j, i))
    BY <1>3 DEF With
  <2>2. cat[c] # Absent
    BY <2>1 DEF InPlace
  <2>3. c = i => d # Absent
    BY <2>1
  <2> QED BY <1>1, <2>2, <2>3 DEF With
<1> QED BY <1>2, <1>3

LEMMA InitInPlace == Init => InPlace(src) /\ InPlace(tgt)
<1> SUFFICES ASSUME Init PROVE InPlace(src) /\ InPlace(tgt)
  OBVIOUS
<1>1. PICK data \in InitialData : src = data[1] /\ tgt = data[2]
  BY DEF Init
<1>2. ASSUME NEW i \in Entries, NEW c \in Entries, IndexOf(i, c)
      PROVE  i.kind = "index" /\ c = CollectionOf(i)
  <2>1. c \in [kind : EntryKinds, db : DBs \cup {ServerWide}, name : Names]
    BY StructureAssumption DEF ServerKinds
  <2>2. c = [kind |-> c.kind, db |-> c.db, name |-> c.name]
    BY <2>1
  <2> QED BY <2>2, <1>2 DEF IndexOf, CollectionOf
<1>3. ASSUME NEW cat \in {data[1], data[2]} PROVE InPlace(cat)
  BY <1>2, IndexAssumption DEF InPlace
<1> QED BY <1>1, <1>3

LEMMA EnvironmentInPlace ==
    ASSUME TypeOK, InPlace(src), InPlace(tgt), Environment
    PROVE  InPlace(src)' /\ InPlace(tgt)'
<1>1. src \in Catalogues /\ tgt \in Catalogues
  BY DEF TypeOK
<1>2. PICK i \in Entries : Replicate(i) \/ \E d \in Defs \cup {Absent} : SourceChange(i, d)
  BY DEF Environment
<1>3. CASE Replicate(i)
  <2>1. InPlace(With(tgt, i, src[i]))
    BY <1>1, <1>3, WithInPlace DEF Replicate
  <2> QED BY <1>3, <2>1 DEF Replicate, InPlace
<1>4. CASE \E d \in Defs \cup {Absent} : SourceChange(i, d)
  <2>1. PICK d \in Defs \cup {Absent} : SourceChange(i, d)
    BY <1>4
  <2>2. InPlace(With(src, i, d))
    BY <1>1, <2>1, WithInPlace DEF SourceChange
  <2> QED BY <2>1, <2>2 DEF SourceChange, InPlace
<1> QED BY <1>2, <1>3, <1>4

-----------------------------------------------------------------------------
LEMMA SilentTransfer ==
    ASSUME mode' = mode, NEW kind, NEW i, src'[i] = src[i], tgt'[i] = tgt[i]
    PROVE  Silent(kind, i)' <=> Silent(kind, i)
BY DEF Silent, Reported, FileReported

(* What a section that passed says carries over a steady step, if it still *)
(* passes by the same run.                                                 *)
LEMMA ListsTransfer ==
    ASSUME Steady, NEW sec \in Sections, SectionInScope(sec), ListsSettled(sec),
           sec.kind \notin {"databases", "collections"},
           Clean(sec)' => Clean(sec)
    PROVE  ListsSettled(sec)'
<1>1. \A s, j : Wanted(s, j)' = Wanted(s, j) /\ JobsOf(s)' = JobsOf(s)
  BY WantedSteady DEF Steady
<1>2. ASSUME NEW j \in JobsOf(sec), NEW i \in Wanted(sec, j), i \notin touched'
      PROVE  i \in Entries
  <2>1. j \in Jobs /\ JobFits(sec, j) /\ j.kind # "database"
    BY JobsFit DEF JobFits, ServerKinds, EntryKinds, Sections, Section, DBKinds
  <2> QED BY <2>1, WantedKinds
<1>3. ASSUME Clean(sec)', NEW j \in JobsOf(sec), NEW i \in Wanted(sec, j), i \notin touched'
      PROVE  Silent(j.kind, i)'
  <2>1. src'[i] = src[i] /\ tgt'[i] = tgt[i] /\ i \notin touched
    BY <1>2, <1>3 DEF Steady
  <2>2. Silent(j.kind, i)
    BY <1>3, <2>1 DEF ListsSettled
  <2> QED BY <2>1, <2>2, SilentTransfer DEF Steady
<1> QED BY <1>1, <1>3 DEF ListsSettled

(* The scope of the sections that a section can lead to.                   *)
LEMMA IndexSection ==
    ASSUME NEW sec \in Sections, sec.kind = "collections", SectionInScope(sec),
           NEW i \in CollectionsListed(sec.db)
    PROVE  /\ i \in Entries
           /\ Section("indexes", sec.db, i.name) \in Sections
           /\ SectionInScope(Section("indexes", sec.db, i.name))
<1>1. i \in Entries /\ i.kind \in {"collection", "view"} /\ i.db = sec.db
      /\ NSFilter(mode.scope, sec.db, i.name)
  BY DEF CollectionsListed, NSWanted
<1>2. i.name \in Names /\ sec.db \in DBs
  BY <1>1, StructureAssumption DEF ServerKinds, EntryKinds, Sections, Section, DBKinds
<1>3. DBWanted(sec.db)
  BY DEF SectionInScope, DBKinds
<1> QED BY <1>1, <1>2, <1>3 DEF Sections, Section, SectionInScope, DBKinds

LEMMA DatabaseSections ==
    ASSUME NEW db \in DBs, DBWanted(db), NEW k \in DBKinds
    PROVE  Section(k, db, NoName) \in Sections /\ SectionInScope(Section(k, db, NoName))
BY DEF Sections, Section, SectionInScope, DBKinds

LEMMA CollectionsTransfer ==
    ASSUME Steady, NEW sec \in Sections, sec.kind = "collections", SectionInScope(sec),
           CollectionsSettled(sec),
           Clean(sec)' => Clean(sec),
           \A i \in CollectionsListed(sec.db) :
               ListsSettled(Section("indexes", sec.db, i.name))
                   => ListsSettled(Section("indexes", sec.db, i.name))'
    PROVE  CollectionsSettled(sec)'
<1>1. CollectionsListed(sec.db)' = CollectionsListed(sec.db)
  BY DEF Steady, CollectionsListed, NSWanted
<1>2. ASSUME Clean(sec)', NEW i \in CollectionsListed(sec.db), Sure(i)'
      PROVE  /\ i \notin touched' /\ i.kind = "collection" =>
                   OnBoth(src[i], tgt[i])' /\ Silent("options", i)'
             /\ ListsSettled(Section("indexes", sec.db, i.name))'
  <2>1. Clean(sec) /\ Sure(i) /\ i \in Entries
    BY <1>2, SureDecreases, IndexSection
  <2>2. /\ i \notin touched /\ i.kind = "collection" =>
               OnBoth(src[i], tgt[i]) /\ Silent("options", i)
        /\ ListsSettled(Section("indexes", sec.db, i.name))
    BY <1>2, <2>1 DEF CollectionsSettled
  <2>3. i \notin touched' => i \notin touched /\ src'[i] = src[i] /\ tgt'[i] = tgt[i]
    BY <2>1 DEF Steady
  <2> QED BY <1>2, <2>2, <2>3, SilentTransfer DEF Steady, OnBoth
<1> QED BY <1>1, <1>2 DEF CollectionsSettled

LEMMA DatabasesTransfer ==
    ASSUME Steady, NEW sec, DatabasesSettled(sec),
           Clean(sec)' => Clean(sec),
           \A db \in DBs : DBWanted(db) =>
               /\ CollectionsSettled(Section("collections", db, NoName))
                      => CollectionsSettled(Section("collections", db, NoName))'
               /\ ListsSettled(Section("views", db, NoName))
                      => ListsSettled(Section("views", db, NoName))'
               /\ ListsSettled(Section("gridfs", db, NoName))
                      => ListsSettled(Section("gridfs", db, NoName))'
    PROVE  DatabasesSettled(sec)'
<1>1. \A db \in DBs : DBWanted(db)' => DBWanted(db)
  BY DEF Steady, DBWanted
<1> QED BY <1>1, SureDecreases DEF DatabasesSettled

(* A step under which no section comes to pass keeps what the report says. *)
LEMMA ReportTransfer ==
    ASSUME Steady, ReportSettled, \A sec \in Sections : Clean(sec)' => Clean(sec)
    PROVE  ReportSettled'
<1>1. ASSUME NEW sec \in Sections, SectionInScope(sec), ListsSettled(sec),
             sec.kind \notin {"databases", "collections"}
      PROVE  ListsSettled(sec)'
  BY <1>1, ListsTransfer
<1>2. ASSUME NEW sec \in Sections, sec.kind = "collections", SectionInScope(sec),
             CollectionsSettled(sec)
      PROVE  CollectionsSettled(sec)'
  <2>1. \A i \in CollectionsListed(sec.db) :
            ListsSettled(Section("indexes", sec.db, i.name))
                => ListsSettled(Section("indexes", sec.db, i.name))'
    BY <1>1, <1>2, IndexSection DEF Section
  <2> QED BY <1>2, <2>1, CollectionsTransfer
<1>3. \A k \in {"auth", "cluster", "databases"} :
          /\ Section(k, ServerWide, NoName) \in Sections
          /\ SectionInScope(Section(k, ServerWide, NoName))
  BY DEF Sections, Section, SectionInScope, DBKinds
<1>4. DatabasesSettled(Section("databases", ServerWide, NoName))'
  <2>1. \A db \in DBs : DBWanted(db) =>
            /\ CollectionsSettled(Section("collections", db, NoName))
                   => CollectionsSettled(Section("collections", db, NoName))'
            /\ ListsSettled(Section("views", db, NoName))
                   => ListsSettled(Section("views", db, NoName))'
            /\ ListsSettled(Section("gridfs", db, NoName))
                   => ListsSettled(Section("gridfs", db, NoName))'
    BY <1>1, <1>2, DatabaseSections DEF Section, DBKinds
  <2> QED BY <1>3, <2>1, DatabasesTransfer DEF ReportSettled
<1>5. /\ ListsSettled(Section("auth", ServerWide, NoName))'
      /\ ListsSettled(Section("cluster", ServerWide, NoName))'
  BY <1>1, <1>3 DEF ReportSettled, Section
<1> QED BY <1>4, <1>5 DEF ReportSettled

-----------------------------------------------------------------------------
LEMMA InitPInv == Init => PInv
<1> SUFFICES ASSUME Init PROVE PInv
  OBVIOUS
<1>1. DInv /\ InPlace(src) /\ InPlace(tgt)
  BY InitDInv, InitInPlace
<1>2. HandFinds
  BY DEF Init, HandFinds
<1>3. ReportSettled
  BY DEF Init, ReportSettled, ListsSettled, DatabasesSettled, Clean
<1> QED BY <1>1, <1>2, <1>3 DEF PInv

LEMMA BeginPInv == PInv /\ Begin => PInv'
<1> SUFFICES ASSUME PInv, Begin PROVE PInv'
  OBVIOUS
<1>1. DInv /\ DInv' /\ IInv
  BY BeginDInv DEF PInv, DInv
<1>2. PICK sec \in First(plan) :
          section' = sec /\ jobs' = JobsOf(sec) /\ plan' = plan \ {sec}
  BY DEF Begin
<1>3. /\ section = None /\ job' = None /\ errors' = {} /\ common' = {}
      /\ UNCHANGED <<rpt, src, tgt, mode, faults, touched>>
  BY <1>1 DEF Begin, IInv, TypeOK
<1>4. \A s, j : Wanted(s, j)' = Wanted(s, j) /\ JobsOf(s)' = JobsOf(s)
  BY <1>3, WantedSteady
<1>5. ASSUME NEW j \in JobsOf(sec) PROVE j # None
  BY <1>1, <1>2, JobsFit, HandAssumption DEF IInv, TypeOK, First
<1>6. HandFinds'
  BY <1>2, <1>3, <1>4, <1>5 DEF HandFinds, NamesFound, EntriesCompared, OptionsCompared
<1>7. \A s \in Sections : Clean(s)' => Clean(s)
  BY <1>2, <1>3, HandAssumption DEF Clean
<1>8. faults' = 0 => ReportSettled'
  BY <1>3, <1>7, ReportTransfer DEF PInv, Steady
<1> QED BY <1>1, <1>3, <1>6, <1>8 DEF PInv, InPlace

LEMMA ReadSourcePInv == PInv /\ ReadSource => PInv'
<1> SUFFICES ASSUME PInv, ReadSource PROVE PInv'
  OBVIOUS
<1>1. DInv /\ DInv' /\ IInv
  BY ReadSourceDInv DEF PInv, DInv
<1>2. PICK j \in First(jobs) :
          /\ job' = j
          /\ jobs' = jobs \ {j}
          /\ \/ listed' = List(src, section, j, {}) /\ UNCHANGED <<errors, faults>>
             \/ faults' = faults + 1
  BY DEF ReadSource, Fault
<1>3. /\ section # None /\ job = None
      /\ UNCHANGED <<section, plan, common, rpt, src, tgt, mode, touched>>
  BY DEF ReadSource
<1>4. \A s, k : Wanted(s, k)' = Wanted(s, k) /\ JobsOf(s)' = JobsOf(s)
  BY <1>3, WantedSteady
<1>5. /\ section \in Sections /\ j \in Jobs /\ src \in Catalogues
      /\ SectionInScope(section) /\ JobFits(section, j)
      /\ \A k \in JobsOf(section) : k \in Jobs /\ k # None
  BY <1>1, <1>2, <1>3, JobsFit, HandAssumption DEF IInv, TypeOK, HandInScope, First
<1>6. faults' = 0 => faults = 0 /\ errors' = errors /\ listed' = List(src, section, j, {})
  BY <1>1, <1>2 DEF IInv, TypeOK
<1>7. Steady
  BY <1>3 DEF Steady
<1>8. ASSUME faults' = 0 PROVE HandFinds'
  <2>0. NamesFound /\ EntriesCompared /\ OptionsCompared
    BY <1>3, <1>6, <1>8 DEF PInv, HandFinds
  <2>1. ASSUME NEW k \in JobsOf(section), k.kind \in NameLists,
               NEW i \in Wanted(section, k), Sure(i)
        PROVE  /\ job' = k /\ SureIn(src, i) => listed'[i] # Absent
               /\ k \in jobs' \/ job' = k \/ i \in errors' \cup common'
    <3>1. k \in jobs \/ i \in errors \cup common
      BY <2>0, <2>1, <1>3, <1>5 DEF NamesFound
    <3>2. ASSUME k = j, SureIn(src, i) PROVE listed'[i] # Absent
      <4>1. /\ i \in Items
            /\ j.kind # "database" => i \in Entries
            /\ j.kind = "database" => i.kind = "database"
        BY <1>5, <2>1, <3>2, WantedKinds
      <4>2. Reading(src, j, i) # Absent
        BY <4>1, <1>5, <2>1, <3>2, SureIsRead DEF PInv
      <4> QED BY <4>2, <3>2, <2>1, <1>6, <1>8 DEF List
    <3> QED BY <3>1, <3>2, <1>2, <1>3, <1>6, <1>8
  <2>2. NamesFound'
    BY <2>1, <1>3, <1>4, <1>7, SureDecreases DEF NamesFound
  <2>3. EntriesCompared'
    BY <2>0, <1>2, <1>3, <1>4, <1>5, <1>6, <1>8, SilentTransfer DEF EntriesCompared
  <2>4. \A k : k \in jobs => k \in jobs' \/ job' = k
    BY <1>2
  <2>5. \A i : /\ Silent("options", i)' <=> Silent("options", i)
               /\ OnBoth(src[i], tgt[i])' <=> OnBoth(src[i], tgt[i])
    BY <1>3, SilentTransfer DEF OnBoth
  <2>6. ASSUME NEW i \in common, section.kind = "collections"
        PROVE  OptionsOf(i) # None
    <3>1. i \in Entries
      BY <2>0, <2>6 DEF OptionsCompared
    <3>2. i.name \in Names
      BY <3>1, StructureAssumption
    <3>3. OptionsOf(i) \in Jobs
      BY <3>2 DEF OptionsOf, Jobs
    <3> QED BY <3>3, HandAssumption
  <2>7. SUFFICES ASSUME section.kind = "collections", NEW i \in common
                 PROVE  /\ i \in Entries /\ i.db = section.db
                        /\ i \notin touched => OnBoth(src[i], tgt[i])
                        /\ i \notin touched /\ i.kind = "collection" =>
                               \/ OptionsOf(i) \in jobs' \/ job' = OptionsOf(i)
                               \/ Silent("options", i) \/ i \in errors'
    BY <2>2, <2>3, <2>5, <1>3 DEF HandFinds, OptionsCompared, OptionsOf
  <2>8. /\ i \in Entries /\ i.db = section.db
        /\ i \notin touched => OnBoth(src[i], tgt[i])
        /\ i \notin touched /\ i.kind = "collection" =>
               OptionsOf(i) \in jobs \/ Silent("options", i) \/ i \in errors
    BY <2>0, <2>6, <2>7, <1>3 DEF OptionsCompared
  <2> QED BY <2>4, <2>8, <1>6, <1>8
<1>9. \A s \in Sections : Clean(s)' => Clean(s)
  BY <1>3 DEF Clean
<1>10. faults' = 0 => ReportSettled'
  BY <1>6, <1>7, <1>9, ReportTransfer DEF PInv
<1> QED BY <1>1, <1>3, <1>8, <1>10 DEF PInv, InPlace

LEMMA EnvironmentPInv == PInv /\ Environment => PInv'
<1> SUFFICES ASSUME PInv, Environment PROVE PInv'
  OBVIOUS
<1>1. DInv /\ DInv' /\ IInv
  BY EnvironmentDInv DEF PInv, DInv
<1>2. Steady /\ UNCHANGED <<work, faults>>
  BY <1>1, EnvironmentTouches DEF IInv, Steady
<1>3. UNCHANGED <<plan, section, jobs, job, listed, errors, common, rpt>>
  BY <1>2 DEF work
<1>4. \A s, k : Wanted(s, k)' = Wanted(s, k) /\ JobsOf(s)' = JobsOf(s)
  BY <1>2, WantedSteady DEF Steady
<1>5. InPlace(src)' /\ InPlace(tgt)'
  BY <1>1, EnvironmentInPlace DEF PInv, IInv
<1>6. \A i \in Entries : i \notin touched' =>
          i \notin touched /\ src'[i] = src[i] /\ tgt'[i] = tgt[i]
  BY <1>2 DEF Steady
<1>7. ASSUME faults = 0, section # None PROVE HandFinds'
  <2>0. NamesFound /\ EntriesCompared /\ OptionsCompared
    BY <1>7 DEF PInv, HandFinds
  <2>1. NamesFound'
    BY <2>0, <1>2, <1>3, <1>4, SureDecreases DEF NamesFound
  <2>2. ASSUME NEW j \in JobsOf(section), j.kind \notin NameLists,
               NEW i \in Wanted(section, j), i \notin touched'
        PROVE  j \in jobs \/ job = j \/ Silent(j.kind, i)' \/ i \in errors
    <3>1. section \in Sections /\ SectionInScope(section)
      BY <1>1, <1>7 DEF IInv, TypeOK, HandInScope
    <3>2. i \in Entries
      BY <2>2, <3>1, JobsFit, WantedKinds DEF NameLists
    <3> QED BY <2>0, <2>2, <3>2, <1>2, <1>6, SilentTransfer DEF EntriesCompared, Steady
  <2>3. EntriesCompared'
    BY <2>2, <1>3, <1>4 DEF EntriesCompared
  <2>4. ASSUME section.kind = "collections", NEW i \in common
        PROVE  /\ i \in Entries /\ i.db = section.db
               /\ i \notin touched' => OnBoth(src[i], tgt[i])'
               /\ i \notin touched' /\ i.kind = "collection" =>
                      \/ OptionsOf(i) \in jobs \/ job = OptionsOf(i)
                      \/ Silent("options", i)' \/ i \in errors
    BY <2>0, <2>4, <1>2, <1>6, SilentTransfer DEF OptionsCompared, OnBoth, Steady
  <2>5. OptionsCompared'
    BY <2>4, <1>3 DEF OptionsCompared, OptionsOf
  <2> QED BY <2>1, <2>3, <2>5 DEF HandFinds
<1>8. section = None => HandFinds'
  BY <1>3 DEF HandFinds
<1>9. \A s \in Sections : Clean(s)' => Clean(s)
  BY <1>3 DEF Clean
<1>10. faults = 0 => ReportSettled'
  BY <1>2, <1>9, ReportTransfer DEF PInv
<1> QED BY <1>1, <1>2, <1>5, <1>7, <1>8, <1>10 DEF PInv

LEMMA StutterPInv == PInv /\ UNCHANGED vars => PInv'
<1> SUFFICES ASSUME PInv, UNCHANGED vars PROVE PInv'
  OBVIOUS
<1>1. DInv'
  BY StutterDInv DEF PInv
<1>2. UNCHANGED <<plan, section, jobs, job, listed, errors, common, rpt, src, tgt, mode, faults, touched>>
  BY DEF vars, work
<1>3. \A s, k : Wanted(s, k)' = Wanted(s, k) /\ JobsOf(s)' = JobsOf(s)
  BY <1>2, WantedSteady
<1>4. Steady
  BY <1>2 DEF Steady
<1>5. \A kind, i : Silent(kind, i)' <=> Silent(kind, i)
  BY <1>2 DEF Silent, Reported, FileReported
<1>6. \A i : (SureIn(src, i)' <=> SureIn(src, i)) /\ (Sure(i)' <=> Sure(i))
  BY <1>2 DEF Sure, SureIn, Shows, IndexOf
<1>7. HandFinds => HandFinds'
  BY <1>2, <1>3, <1>5, <1>6
     DEF HandFinds, NamesFound, EntriesCompared, OptionsCompared, OptionsOf, OnBoth
<1>8. \A s \in Sections : Clean(s)' => Clean(s)
  BY <1>2 DEF Clean
<1>9. ReportSettled => ReportSettled'
  BY <1>4, <1>8, ReportTransfer
<1> QED BY <1>1, <1>2, <1>7, <1>9 DEF PInv, InPlace

LEMMA NamesReported ==
    ASSUME NEW kind \in NameLists, NEW s, NEW t, OnOneSide(s, t)
    PROVE  Reported(kind, s, t)
BY DEF Reported, NameLists, AuthLists

(* An untouched entry that is listed plainly was read as it is.            *)
LEMMA EntryReadAsItIs ==
    ASSUME DInv, faults = 0, section # None, job # None,
           NEW i \in Wanted(section, job), i \in Entries, i \notin touched,
           job.kind \notin {"database", "options"}
    PROVE  listed[i] = src[i]
<1>1. i.kind # "database"
  BY StructureAssumption DEF EntryKinds, ServerKinds
<1>2. listed[i] = Reading(src, job, i)
  BY <1>1 DEF DInv, HandIsGenuine, ReadAsItWas, EntriesOf
<1> QED BY <1>2 DEF Reading

LEMMA ReadTargetPInv == PInv /\ ReadTarget => PInv'
<1> SUFFICES ASSUME PInv, ReadTarget PROVE PInv'
  OBVIOUS
<1>1. DInv /\ DInv' /\ IInv
  BY ReadTargetDInv DEF PInv, DInv
<1>2. /\ job # None /\ job' = None /\ section # None
      /\ UNCHANGED <<section, plan, rpt, src, tgt, mode, touched>>
  BY <1>1 DEF ReadTarget, IInv, TypeOK
<1>3. PICK lost :
          /\ Compare(List(tgt, section, job, lost))
          /\ faults' = 0 => faults = 0 /\ lost = {}
  <2>1. CASE Compare(List(tgt, section, job, {})) /\ UNCHANGED faults
    BY <2>1
  <2>2. CASE Fault /\ \E lost : Compare(List(tgt, section, job, lost))
    <3>1. faults' # 0
      BY <1>1, <2>2 DEF Fault, IInv, TypeOK
    <3> QED BY <2>2, <3>1
  <2> QED BY <2>1, <2>2 DEF ReadTarget
<1>4. \A s, k : Wanted(s, k)' = Wanted(s, k) /\ JobsOf(s)' = JobsOf(s)
  BY <1>2, WantedSteady
<1>5. /\ section \in Sections /\ job \in Jobs /\ src \in Catalogues /\ tgt \in Catalogues
      /\ SectionInScope(section) /\ JobFits(section, job) /\ OwnJob(section, job)
      /\ \A k \in JobsOf(section) : k \in Jobs /\ k # None /\ k.kind # "options"
  BY <1>1, <1>2, JobsFit, StartsWithoutOptions, HandAssumption
     DEF IInv, TypeOK, HandInScope, DInv, HandIsGenuine
<1>6. Steady
  BY <1>2 DEF Steady
<1>7. job.kind # "options" => job \in JobsOf(section)
  BY <1>5 DEF OwnJob
<1>8. job.kind = "collection" => section.kind = "collections"
  BY <1>5 DEF JobFits, Sections, Section, DBKinds, ServerKinds, EntryKinds
<1>9. ASSUME faults' = 0 PROVE HandFinds'
  <2> DEFINE there == List(tgt, section, job, {})
  <2>0. /\ NamesFound /\ EntriesCompared /\ OptionsCompared /\ faults = 0
        /\ Compare(there)
    BY <1>2, <1>3, <1>9 DEF PInv, HandFinds
  <2>1. errors \subseteq errors'
    BY <2>0 DEF Compare
  <2>2. ASSUME NEW i \in Wanted(section, job)
        PROVE  there[i] = Reading(tgt, job, i)
    BY <2>2 DEF List
  <2>3. ASSUME NEW i \in Wanted(section, job), Reported(job.kind, listed[i], there[i])
        PROVE  i \in errors'
    BY <2>0, <2>3 DEF Compare
  <2>4. ASSUME NEW j \in JobsOf(section), j.kind \in NameLists,
               NEW i \in Wanted(section, j), Sure(i)
        PROVE  j \in jobs' \/ i \in errors' \cup common'
    <3>1. CASE job = j
      <4>1. /\ i \in Items
            /\ j.kind # "database" => i \in Entries
            /\ j.kind = "database" => i.kind = "database"
        BY <1>5, <2>4, <3>1, WantedKinds
      <4>2. SureIn(src, i) => listed[i] # Absent
        BY <2>0, <2>4, <3>1 DEF NamesFound
      <4>3. SureIn(tgt, i) => there[i] # Absent
        BY <4>1, <2>2, <2>4, <3>1, <1>5, SureIsRead DEF PInv
      <4>4. ASSUME OnOneSide(listed[i], there[i]) PROVE i \in errors'
        <5>1. Reported(job.kind, listed[i], there[i])
          BY <4>4, <3>1, <2>4, NamesReported
        <5> QED BY <5>1, <2>3, <2>4, <3>1
      <4>5. ASSUME listed[i] # Absent, there[i] # Absent PROVE i \in common'
        BY <4>5, <2>0, <2>4, <3>1, <1>5 DEF Compare, OnBothSides
      <4> QED BY <4>2, <4>3, <4>4, <4>5, <2>4 DEF Sure, OnOneSide
    <3>2. CASE job # j
      <4>1. job.kind = "options"
        BY <3>2, <1>5, <1>7, <2>4, NameListAlone
      <4>2. common' = common /\ jobs' = jobs
        BY <4>1, <2>0 DEF Compare
      <4>3. j \in jobs \/ i \in errors \cup common
        BY <2>0, <2>4, <3>2 DEF NamesFound
      <4> QED BY <4>2, <4>3, <2>1
    <3> QED BY <3>1, <3>2
  <2>5. NamesFound'
    BY <2>4, <1>2, <1>4, <1>5, <1>6, SureDecreases DEF NamesFound
  <2>6. ASSUME NEW j \in JobsOf(section), j.kind \notin NameLists,
               NEW i \in Wanted(section, j), i \notin touched
        PROVE  j \in jobs' \/ Silent(j.kind, i) \/ i \in errors'
    <3>0. i \in Entries
      BY <2>6, <1>5, JobsFit, WantedKinds DEF NameLists
    <3>1. CASE job = j
      <4>1. listed[i] = src[i]
        BY <3>0, <3>1, <2>0, <2>6, <1>1, <1>2, <1>5, EntryReadAsItIs DEF NameLists
      <4>2. there[i] = tgt[i]
        BY <3>1, <2>2, <2>6, <1>5 DEF Reading, NameLists
      <4> QED BY <4>1, <4>2, <2>3, <2>6, <3>1 DEF Silent
    <3>2. CASE job # j
      <4>1. j \in jobs \/ Silent(j.kind, i) \/ i \in errors
        BY <2>0, <2>6, <3>2 DEF EntriesCompared
      <4>2. job.kind # "collection"
        BY <2>6, <1>5, <1>8, CollectionsJob DEF NameLists
      <4>3. jobs' = jobs
        BY <4>2, <2>0 DEF Compare
      <4> QED BY <4>1, <4>3, <2>1
    <3> QED BY <3>1, <3>2
  <2>7. EntriesCompared'
    BY <2>6, <1>2, <1>4, SilentTransfer DEF EntriesCompared
  <2>8. ASSUME section.kind = "collections", NEW i \in common'
        PROVE  /\ i \in Entries /\ i.db = section.db
               /\ i \notin touched => OnBoth(src[i], tgt[i])
               /\ i \notin touched /\ i.kind = "collection" =>
                      OptionsOf(i) \in jobs' \/ Silent("options", i) \/ i \in errors'
    <3>1. CASE job.kind = "options"
      <4>1. common' = common /\ jobs' = jobs
        BY <3>1, <2>0 DEF Compare
      <4>2. /\ i \in Entries /\ i.db = section.db
            /\ i \notin touched => OnBoth(src[i], tgt[i])
            /\ i \notin touched /\ i.kind = "collection" =>
                   \/ OptionsOf(i) \in jobs \/ job = OptionsOf(i)
                   \/ Silent("options", i) \/ i \in errors
        BY <4>1, <2>0, <2>8 DEF OptionsCompared
      <4>3. ASSUME i \notin touched, i.kind = "collection", job = OptionsOf(i), i \notin errors'
            PROVE  Silent("options", i)
        <5>1. i \in Wanted(section, job)
          BY <4>2, <4>3 DEF Wanted, OptionsListed, OptionsOf
        <5>2. listed[i] = Reading(src, job, i)
          BY <5>1, <4>3, <2>0, <1>1, <1>2 DEF DInv, HandIsGenuine, ReadAsItWas, EntriesOf
        <5>3. Reading(src, job, i) = src[i] /\ Reading(tgt, job, i) = tgt[i]
          BY <4>2, <4>3, <3>1 DEF Reading, OnBoth
        <5>4. ~Reported(job.kind, src[i], tgt[i])
          BY <5>1, <5>2, <5>3, <4>3, <2>2, <2>3
        <5> QED BY <5>4, <3>1 DEF Silent
      <4> QED BY <4>1, <4>2, <4>3, <2>1
    <3>2. CASE job.kind # "options"
      <4>1. job.kind = "collection"
        BY <3>2, <1>5, <1>7, <2>8, CollectionsJob
      <4>2. i \in Wanted(section, job) /\ listed[i] # Absent /\ there[i] # Absent
        BY <3>2, <2>0, <2>8 DEF Compare, OnBothSides
      <4>3. i \in Entries /\ i.db = section.db
        BY <4>1, <4>2 DEF Wanted, CollectionsListed
      <4>4. i \notin touched => listed[i] = src[i] /\ there[i] = tgt[i]
        BY <4>1, <4>2, <4>3, <2>0, <2>2, <1>1, <1>2, EntryReadAsItIs DEF Reading
      <4>5. OptionsOf(i) \in jobs'
        BY <4>1, <4>2, <2>0, <2>8, <3>2 DEF Compare, OptionsOf
      <4> QED BY <4>2, <4>3, <4>4, <4>5 DEF OnBoth
    <3> QED BY <3>1, <3>2
  <2>9. OptionsCompared'
    <3>1. \A i : /\ Silent("options", i)' <=> Silent("options", i)
                 /\ OnBoth(src[i], tgt[i])' <=> OnBoth(src[i], tgt[i])
      BY <1>2, SilentTransfer DEF OnBoth
    <3> QED BY <2>8, <3>1, <1>2 DEF OptionsCompared, OptionsOf
  <2> QED BY <2>5, <2>7, <2>9 DEF HandFinds
<1>10. \A s \in Sections : Clean(s)' => Clean(s)
  BY <1>2 DEF Clean
<1>11. faults' = 0 => ReportSettled'
  BY <1>3, <1>6, <1>10, ReportTransfer DEF PInv
<1> QED BY <1>1, <1>2, <1>9, <1>11 DEF PInv, InPlace

(* When a section goes to the report with no error, what it has compared   *)
(* is settled, and what it leads to is planned.                            *)
LEMMA PublishPInv == PInv /\ Publish => PInv'
<1> SUFFICES ASSUME PInv, Publish PROVE PInv'
  OBVIOUS
<1>1. DInv /\ DInv' /\ IInv
  BY PublishDInv DEF PInv, DInv
<1>2. PICK sec \in Sections : section = sec
  BY <1>1 DEF Publish, IInv, TypeOK
<1>3. /\ section # None /\ section' = None /\ jobs = {} /\ job = None
      /\ plan' = plan \cup Follows
      /\ rpt' = IF sec.kind = "views" /\ errors = {} /\ common = {}
                THEN rpt
                ELSE [rpt EXCEPT ![sec] = [there |-> TRUE, errors |-> errors]]
      /\ UNCHANGED <<src, tgt, mode, faults, touched>>
  BY <1>2 DEF Publish
<1>4. \A s, j : Wanted(s, j)' = Wanted(s, j) /\ JobsOf(s)' = JobsOf(s)
  BY <1>3, WantedSteady
<1>5. Steady
  BY <1>3 DEF Steady
<1>6. ASSUME NEW s \in Sections, s # sec PROVE Clean(s)' => Clean(s)
  BY <1>1, <1>2, <1>3, <1>6 DEF Clean, IInv, TypeOK
<1>7. Clean(sec)' => errors = {}
  BY <1>1, <1>3 DEF Clean, IInv, TypeOK
<1>8. \A s \in Follows : ~Clean(s)'
  BY <1>3 DEF Clean
<1>9. HandFinds'
  BY <1>3 DEF HandFinds
<1>10. ASSUME faults = 0 PROVE ReportSettled'
  <2>0. NamesFound /\ EntriesCompared /\ OptionsCompared
    BY <1>3, <1>10 DEF PInv, HandFinds
  <2>1. /\ SectionInScope(sec)
        /\ \A j \in JobsOf(sec) : j \in Jobs /\ JobFits(sec, j) /\ j # None
    BY <1>1, <1>2, <1>3, JobsFit, HandAssumption DEF IInv, HandInScope
  <2>2. ASSUME NEW s \in Sections, SectionInScope(s), ListsSettled(s),
               s.kind \notin {"databases", "collections"}
        PROVE  ListsSettled(s)'
    <3>1. CASE s # sec
      BY <3>1, <2>2, <1>5, <1>6, ListsTransfer
    <3>2. CASE s = sec
      <4>1. ASSUME errors = {}, NEW j \in JobsOf(sec), NEW i \in Wanted(sec, j), i \notin touched
            PROVE  Silent(j.kind, i)
        <5>1. j.kind \notin NameLists
          BY <2>2, <3>2, <2>1 DEF NameLists, JobFits, ServerKinds, EntryKinds, Sections, Section,
                                  DBKinds
        <5> QED BY <5>1, <4>1, <2>0, <2>1, <1>2, <1>3 DEF EntriesCompared
      <4> QED BY <4>1, <3>2, <1>3, <1>4, <1>7, SilentTransfer DEF ListsSettled
    <3> QED BY <3>1, <3>2
  <2>3. ASSUME NEW s \in Sections, s.kind = "collections", SectionInScope(s),
               CollectionsSettled(s)
        PROVE  CollectionsSettled(s)'
    <3>1. CASE s # sec
      <4>1. \A i \in CollectionsListed(s.db) :
                ListsSettled(Section("indexes", s.db, i.name))
                    => ListsSettled(Section("indexes", s.db, i.name))'
        BY <2>2, <2>3, IndexSection DEF Section
      <4> QED BY <4>1, <3>1, <2>3, <1>5, <1>6, CollectionsTransfer
    <3>2. CASE s = sec
      <4> DEFINE k == [kind |-> "collection", name |-> NoName]
      <4>1. k \in JobsOf(sec) /\ k.kind \in NameLists
            /\ Wanted(sec, k) = CollectionsListed(sec.db)
        BY <2>3, <3>2 DEF JobsOf, Unnamed, NameLists, Wanted
      <4>2. ASSUME errors = {}, NEW i \in CollectionsListed(sec.db), Sure(i)
            PROVE  /\ i \notin touched /\ i.kind = "collection" =>
                         OnBoth(src[i], tgt[i]) /\ Silent("options", i)
                   /\ Section("indexes", sec.db, i.name) \in Follows
        <5>1. i \in common
          BY <4>1, <4>2, <2>0, <2>1, <1>2, <1>3 DEF NamesFound
        <5>2. OptionsOf(i) # None
          <6>1. i \in Entries
            BY <5>1, <2>0, <2>3, <3>2, <1>2 DEF OptionsCompared
          <6>2. OptionsOf(i) \in Jobs
            BY <6>1, StructureAssumption DEF OptionsOf, Jobs
          <6> QED BY <6>2, HandAssumption
        <5>3. i.db = sec.db /\ Section("indexes", sec.db, i.name) \in Follows
          BY <5>1, <4>2, <2>3, <3>2, <1>2 DEF CollectionsListed, Follows
        <5> QED BY <5>1, <5>2, <5>3, <4>2, <2>0, <2>3, <3>2, <1>2, <1>3 DEF OptionsCompared
      <4>3. ASSUME NEW i, Section("indexes", sec.db, i.name) \in Follows
            PROVE  ListsSettled(Section("indexes", sec.db, i.name))'
        BY <4>3, <1>8 DEF ListsSettled
      <4>4. \A i : /\ Silent("options", i)' <=> Silent("options", i)
                   /\ OnBoth(src[i], tgt[i])' <=> OnBoth(src[i], tgt[i])
        BY <1>3, SilentTransfer DEF OnBoth
      <4>5. CollectionsListed(sec.db)' = CollectionsListed(sec.db)
        BY <1>3 DEF CollectionsListed, NSWanted
      <4> QED BY <4>2, <4>3, <4>4, <4>5, <3>2, <1>3, <1>5, <1>7, SureDecreases
           DEF CollectionsSettled
    <3> QED BY <3>1, <3>2
  <2>4. \A k \in {"auth", "cluster", "databases"} :
            /\ Section(k, ServerWide, NoName) \in Sections
            /\ SectionInScope(Section(k, ServerWide, NoName))
    BY DEF Sections, Section, SectionInScope, DBKinds
  <2>5. DatabasesSettled(Section("databases", ServerWide, NoName))'
    <3> DEFINE s == Section("databases", ServerWide, NoName)
    <3>1. CASE s # sec
      <4>1. \A db \in DBs : DBWanted(db) =>
                /\ CollectionsSettled(Section("collections", db, NoName))
                       => CollectionsSettled(Section("collections", db, NoName))'
                /\ ListsSettled(Section("views", db, NoName))
                       => ListsSettled(Section("views", db, NoName))'
                /\ ListsSettled(Section("gridfs", db, NoName))
                       => ListsSettled(Section("gridfs", db, NoName))'
        BY <2>2, <2>3, DatabaseSections DEF Section, DBKinds
      <4>2. DatabasesSettled(s)
        BY <1>10 DEF PInv, ReportSettled
      <4> QED BY <4>1, <4>2, <3>1, <2>4, <1>5, <1>6, DatabasesTransfer
    <3>2. CASE s = sec
      <4> DEFINE k == [kind |-> "database", name |-> NoName]
      <4>1. k \in JobsOf(sec) /\ k.kind \in NameLists /\ Wanted(sec, k) = DatabasesListed
        BY <3>2 DEF Section, JobsOf, Unnamed, NameLists, Wanted
      <4>2. ASSUME errors = {}, NEW db \in DBs, DBWanted(db), Sure(Database(db))
            PROVE  \A kind \in DBKinds : Section(kind, db, NoName) \in Follows
        <5>1. Database(db) \in common
          BY <4>1, <4>2, <2>0, <2>1, <1>2, <1>3 DEF NamesFound, DatabasesListed
        <5>2. Database(db).db = db
          BY DEF Database
        <5> QED BY <5>1, <5>2, <3>2, <1>2 DEF Follows, Section
      <4>3. ASSUME NEW t \in Follows
            PROVE  ListsSettled(t)' /\ CollectionsSettled(t)'
        BY <4>3, <1>8 DEF ListsSettled, CollectionsSettled
      <4>4. \A db : DBWanted(db)' <=> DBWanted(db)
        BY <1>3 DEF DBWanted
      <4> QED BY <4>2, <4>3, <4>4, <3>2, <1>5, <1>7, SureDecreases DEF DatabasesSettled, DBKinds
    <3> QED BY <3>1, <3>2
  <2>6. /\ ListsSettled(Section("auth", ServerWide, NoName))'
        /\ ListsSettled(Section("cluster", ServerWide, NoName))'
    BY <2>2, <2>4, <1>10 DEF PInv, ReportSettled, Section
  <2> QED BY <2>5, <2>6 DEF ReportSettled
<1> QED BY <1>1, <1>3, <1>9, <1>10 DEF PInv, InPlace

LEMMA FinishedIsClean ==
    ASSUME Finished, Passed, NEW sec \in Sections
    PROVE  Clean(sec)
BY HandAssumption DEF Finished, Passed, Clean

LEMMA ServerAgrees ==
    ASSUME PInv, Finished, Passed, faults = 0,
           NEW i \in Entries, i \notin touched, InScope(i), i.kind \in ServerKinds
    PROVE  Silent(i.kind, i)
<1> DEFINE j == [kind |-> i.kind, name |-> NoName]
<1>1. i.db = ServerWide
  BY StructureAssumption
<1>2. i \in ServerListed(i.kind)
  BY <1>1 DEF ServerListed
<1>3. ASSUME NEW sec \in Sections, ListsSettled(sec), j \in JobsOf(sec)
      PROVE  Silent(i.kind, i)
  <2>1. Wanted(sec, j) = ServerListed(i.kind)
    BY DEF Wanted, ServerKinds, EntryKinds
  <2> QED BY <1>2, <1>3, <2>1, FinishedIsClean DEF ListsSettled
<1>4. CASE i.kind \in AuthLists
  <2>1. j \in JobsOf(Section("auth", ServerWide, NoName))
    BY <1>4 DEF JobsOf, Section, Unnamed
  <2> QED BY <1>3, <2>1 DEF PInv, ReportSettled, Sections, Section
<1>5. CASE i.kind \notin AuthLists
  <2>1. i.kind \in ClusterLists
    BY <1>5 DEF AuthLists, ClusterLists, ServerKinds, EntryKinds, InScope
  <2>2. j \in JobsOf(Section("cluster", ServerWide, NoName))
    BY <2>1 DEF JobsOf, Section, Unnamed
  <2> QED BY <1>3, <2>2 DEF PInv, ReportSettled, Sections, Section
<1> QED BY <1>4, <1>5

LEMMA DatabaseAgrees ==
    ASSUME PInv, Finished, Passed, faults = 0,
           NEW i \in Entries, i \notin touched, InScope(i), i.kind \notin ServerKinds,
           src[i] # tgt[i]
    PROVE  /\ i.kind = "collection" => OnBoth(src[i], tgt[i]) /\ Silent("options", i)
           /\ i.kind # "collection" => Silent(i.kind, i)
<1>1. i.db \in DBs /\ i.name \in Names /\ i.kind \in {"collection", "index", "view", "file"}
  BY StructureAssumption DEF ServerKinds, EntryKinds
<1>2. i.kind # "file" => NSFilter(mode.scope, i.db, i.name)
  BY <1>1 DEF InScope, ServerKinds
<1>3. DBWanted(i.db)
  BY <1>1, <1>2, NamespaceInDBScope DEF InScope, ServerKinds, DBWanted
<1>4. \A k \in DBKinds : Section(k, i.db, NoName) \in Sections
  BY <1>1, <1>3, DatabaseSections
<1>5. Section("databases", ServerWide, NoName) \in Sections
  BY DEF Sections, Section
<1>6. /\ CollectionsSettled(Section("collections", i.db, NoName))
      /\ ListsSettled(Section("views", i.db, NoName))
      /\ ListsSettled(Section("gridfs", i.db, NoName))
  BY <1>1, <1>3, <1>5, DifferentIsSure, FinishedIsClean DEF PInv, ReportSettled, DatabasesSettled
<1>7. \A c \in CollectionsListed(i.db) : Sure(c) =>
          /\ c \notin touched /\ c.kind = "collection" =>
                 OnBoth(src[c], tgt[c]) /\ Silent("options", c)
          /\ ListsSettled(Section("indexes", i.db, c.name))
  BY <1>4, <1>6, FinishedIsClean DEF CollectionsSettled, Section, DBKinds
<1>8. CASE i.kind = "collection"
  BY <1>2, <1>7, <1>8, DifferentIsSure DEF CollectionsListed, NSWanted
<1>9. CASE i.kind = "index"
  <2> DEFINE c == CollectionOf(i)
             s == Section("indexes", i.db, i.name)
             j == [kind |-> "index", name |-> NoName]
  <2>1. c \in CollectionsListed(i.db) /\ c.name = i.name
    BY <1>2, <1>9, IndexAssumption DEF CollectionsListed, NSWanted, CollectionOf
  <2>2. ListsSettled(s)
    BY <1>7, <1>9, <2>1, DifferentIsSure
  <2>3. j \in JobsOf(s) /\ i \in Wanted(s, j)
    BY <1>9 DEF JobsOf, Unnamed, Section, Wanted, IndexesListed
  <2>4. s \in Sections
    BY <1>1 DEF Sections, Section
  <2> QED BY <1>9, <2>2, <2>3, <2>4, FinishedIsClean DEF ListsSettled
<1>10. CASE i.kind = "view"
  <2> DEFINE s == Section("views", i.db, NoName)
             j == [kind |-> "view", name |-> NoName]
  <2>1. j \in JobsOf(s) /\ i \in Wanted(s, j)
    BY <1>10 DEF JobsOf, Unnamed, Section, Wanted, ViewsListed
  <2> QED BY <1>4, <1>6, <1>10, <2>1, FinishedIsClean DEF ListsSettled, DBKinds
<1>11. CASE i.kind = "file"
  <2> DEFINE s == Section("gridfs", i.db, NoName)
             j == [kind |-> "file", name |-> NoName]
  <2>1. j \in JobsOf(s) /\ i \in Wanted(s, j)
    BY <1>11 DEF JobsOf, Unnamed, Section, Wanted, FilesListed
  <2> QED BY <1>4, <1>6, <1>11, <2>1, FinishedIsClean DEF ListsSettled, DBKinds
<1> QED BY <1>1, <1>8, <1>9, <1>10, <1>11

(* A comparison that reports nothing leaves what the verifiers pass over.  *)
LEMMA SilentAgrees ==
    ASSUME TypeOK, NEW i \in Entries, i.kind # "collection", Silent(i.kind, i)
    PROVE  Agrees(i)
<1>1. src[i] \in Defs \cup {Absent} /\ tgt[i] \in Defs \cup {Absent}
  BY DEF TypeOK, Catalogues
<1>2. i.kind \in EntryKinds
  BY StructureAssumption DEF ServerKinds
<1>3. CASE i.kind \in {"user", "role", "mechanism", "ldap"}
  <2>1. ~AuthReported(i.kind, src[i], tgt[i])
    BY <1>3 DEF Silent, Reported, AuthLists
  <2> QED BY <1>3, <2>1 DEF AuthReported, Agrees
<1>4. CASE i.kind \in {"replset", "parameter", "shardcount", "shardkey"}
  <2>1. ~ClusterReported(i.kind, src[i], tgt[i])
    BY <1>4 DEF Silent, Reported, AuthLists
  <2> QED BY <1>4, <2>1 DEF ClusterReported, OnBoth, Agrees
<1>5. CASE i.kind = "index"
  <2>1. ~IndexReported(src[i], tgt[i])
    BY <1>5 DEF Silent, Reported, AuthLists
  <2> QED BY <1>5, <2>1 DEF IndexReported, OnOneSide, OnBoth, OptionsReported, Agrees
<1>6. CASE i.kind = "view"
  <2>1. ~ViewReported(src[i], tgt[i])
    BY <1>6 DEF Silent, Reported, AuthLists
  <2> QED BY <2>1 DEF ViewReported, Agrees
<1>7. CASE i.kind = "file"
  <2>1. ~FileReported(src[i], tgt[i])
    BY <1>7 DEF Silent, Reported, AuthLists
  <2> QED BY <1>1, <1>7, <2>1 DEF FileReported, OnOneSide, OnBoth, Agrees
<1> QED BY <1>2, <1>3, <1>4, <1>5, <1>6, <1>7 DEF EntryKinds

(* What the lists have made of the clusters holds along every run.         *)
LEMMA FindingsHold == Spec => []PInv
<1>1. PInv /\ [Next]_vars => PInv'
  BY BeginPInv, ReadSourcePInv, ReadTargetPInv, PublishPInv, EnvironmentPInv, StutterPInv
     DEF Next, VerifierStep
<1> QED BY InitPInv, <1>1, PTL DEF Spec

(* A pass is a pass: when every list could be read and no section has an   *)
(* error, the clusters agree on every entry in scope that nobody changed,  *)
(* in all that the verifiers compare; the sections planned from what       *)
(* earlier sections found miss none of them.                               *)
THEOREM PassIsSound == Spec => []PassMeansSameStructure
<1>1. PInv => PassMeansSameStructure
  <2> SUFFICES ASSUME PInv, Finished, Passed, faults = 0,
                      NEW i \in Entries, i \notin touched, InScope(i)
               PROVE  Agrees(i)
    BY DEF PassMeansSameStructure
  <2>0. TypeOK
    BY DEF PInv, DInv, IInv
  <2>1. CASE src[i] = tgt[i]
    BY <2>1 DEF Agrees
  <2>2. CASE i.kind \in ServerKinds
    BY <2>0, <2>2, ServerAgrees, SilentAgrees DEF ServerKinds
  <2>3. CASE src[i] # tgt[i] /\ i.kind \notin ServerKinds /\ i.kind # "collection"
    BY <2>0, <2>3, DatabaseAgrees, SilentAgrees
  <2>4. CASE src[i] # tgt[i] /\ i.kind = "collection"
    <3>1. OnBoth(src[i], tgt[i]) /\ Silent("options", i)
      BY <2>4, DatabaseAgrees DEF ServerKinds
    <3>2. ~OptionsReported(src[i], tgt[i])
      BY <3>1 DEF Silent, Reported, AuthLists
    <3> QED BY <3>1, <3>2, <2>4 DEF OptionsReported, OnBoth, Agrees
  <2> QED BY <2>1, <2>2, <2>3, <2>4
<1> QED BY FindingsHold, <1>1, PTL
=============================================================================
