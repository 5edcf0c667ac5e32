--------------------------- MODULE NamespaceScope ---------------------------
(***************************************************************************)
(* internal/config/config.go: which namespaces a run is about.             *)
(*                                                                         *)
(* A pattern is "db.col", "db.*" or a bare "db"; here the record of its    *)
(* two parts, with name = AnyName for ".*" and NoName for a bare database. *)
(* A scope holds the two lists of patterns, include_ns and exclude_ns.     *)
(***************************************************************************)
CONSTANTS DBs, Names, AnyName, NoName

ASSUME ScopeAssumption == AnyName \notin Names /\ NoName \notin Names /\ AnyName # NoName

Patterns == [db : DBs, name : Names \cup {AnyName, NoName}]
ScopeSet == [include : SUBSET Patterns, exclude : SUBSET Patterns]

matchNS(pattern, db, name) ==
    /\ pattern.db = db
    /\ pattern.name \in {name, AnyName}

NSFilter(scope, db, name) ==
    /\ scope.include = {} \/ \E p \in scope.include : matchNS(p, db, name)
    /\ \A p \in scope.exclude : ~matchNS(p, db, name)

(* Mutant of DBInScope: an excluded collection takes its database with it. *)
DBInScopeExcludingParts(scope, db) ==
    /\ scope.include = {} \/ \E p \in scope.include : p.db = db
    /\ \A p \in scope.exclude : p.db # db

(* Only "db.*" excludes a database; any pattern that begins with it        *)
(* includes it.                                                            *)
DBInScope(scope, db) ==
    /\ scope.include = {} \/ \E p \in scope.include : p.db = db
    /\ [db |-> db, name |-> AnyName] \notin scope.exclude
=============================================================================
