------------------------------- MODULE Hasher -------------------------------
(***************************************************************************)
(* internal/utils/hasher.go: the verdict on a pair of documents.           *)
(*                                                                         *)
(* DocHash encodes the normalised document as JSON and hashes the text;    *)
(* DeepCompare passes documents with equal hashes and has deepDiff explain *)
(* the others from the Go values.  Three views of one value must agree for *)
(* the verdict to mean anything: the JSON that is hashed, the text of %v   *)
(* that deepDiff and the sort compare, and the value itself.               *)
(*                                                                         *)
(* A value is a record of its BSON type (as typeName calls it) and its     *)
(* contents: most types hold words, the pieces of text they are printed    *)
(* as.  A document is a function from names to values: stableSortedMap has *)
(* nothing to do.  SHA-256 is taken as injective: a hash is the JSON it    *)
(* was made from.                                                          *)
(***************************************************************************)
EXTENDS Integers, Sequences, SequencesExt, FiniteSets, TLC

CONSTANTS
    Pairs,          \* the <<source, target>> pairs of documents to compare
    Options,        \* the HashOptions to compare them under
    Names,          \* names of fields
    Depth,          \* bound: how deep documents are nested
    DecimalPlaces,  \* 20 in the code
    FloatDigits     \* a float64 is a multiple of 10^-FloatDigits

VARIABLES
    src, tgt, opts,
    stage,          \* "hash", "diff" or "done"
    passed, diffs   \* what DeepCompare returns

vars == <<src, tgt, opts, stage, passed, diffs>>

HashOptions ==
    [NormalizeDatetime : BOOLEAN, NormalizeFloatPrecision : 0 .. FloatDigits,
     NormalizeDecimal128 : BOOLEAN, SortArrays : BOOLEAN,
     CheckBinarySubtype : BOOLEAN, StrictObjectID : BOOLEAN]

ASSUME HasherAssumption ==
    /\ Options \subseteq HashOptions
    /\ {Depth, DecimalPlaces, FloatDigits} \subseteq Nat

Paths == UNION {[1 .. n -> Names \ {"_id"}] : n \in 1 .. Depth}
DiffDetail ==
    [Path : Paths, IssueType : {"MISSING_FIELD", "EXTRA_FIELD", "OBJECTID_DEGRADED",
                                "TYPE_MISMATCH", "VALUE_DIFF"}]

-----------------------------------------------------------------------------
(* Normalised values: a Go string, what JSON does not quote, a slice, a    *)
(* map.                                                                    *)
Text(words)  == [text |-> words]
Raw(words)   == [raw |-> words]
Slice(items) == [items |-> items]
IsSlice(n) == "items" \in DOMAIN n
IsMap(n)   == "fields" \in DOMAIN n

NaN == [type |-> "float64", words |-> <<"NaN">>]

Abs(n) == IF n < 0 THEN -n ELSE n

(* n units of 10^-digits, printed with places <= digits places; no value   *)
(* lies half way.  Like %.*f it keeps the sign of what is rounded to zero. *)
Fixed(n, digits, places) ==
    LET unit == 10 ^ (digits - places)
    IN  <<IF n < 0 THEN "-" ELSE "", ToString((2 * Abs(n) + unit) \div (2 * unit))>>

Printed(v) == <<ToString(v.coef), "E-", ToString(v.exp)>>

(* coef * 10^-exp to 20 places, without the zeros at the end: one text for *)
(* each number of 20 places.                                               *)
normalizeDecimal128(v) ==
    IF v.exp <= DecimalPlaces THEN Fixed(v.coef * 10 ^ (DecimalPlaces - v.exp), 0, 0)
    ELSE Fixed(v.coef, v.exp, DecimalPlaces)

(* What tells the types apart in the hash.  Those that normalizeValue has  *)
(* no case for (Symbol, JavaScript) are printed as bare as a string.       *)
Tags == [ObjectID |-> "oid:", DateTime |-> "dt:", Decimal128 |-> "dec:", Binary |-> "bin:",
         float64 |-> "f:", int32 |-> "i32:", int64 |-> "i64:", Timestamp |-> "ts:",
         Regex |-> "regex:/"]

(* Mutant of Tagged: an ObjectID is hashed by its hex digits.              *)
TaggedButObjectID(type, o) == type \in DOMAIN Tags \ {"ObjectID"}

Tagged(type, o) == type \in DOMAIN Tags /\ (type = "DateTime" => o.NormalizeDatetime)

Contents(v, o) ==
    CASE v.type = "Decimal128" ->
             IF o.NormalizeDecimal128 THEN normalizeDecimal128(v) ELSE Printed(v)
      [] v.type = "Binary" ->
             (IF o.CheckBinarySubtype THEN <<v.subtype>> ELSE <<>>) \o v.words
      [] v.type = "float64" /\ v # NaN ->
             Fixed(v.num, FloatDigits, IF o.NormalizeFloatPrecision > 0
                                       THEN o.NormalizeFloatPrecision ELSE FloatDigits)
      [] OTHER -> v.words

IsRaw(v, o) ==
    v.type \in {"bool", "null"} \/ (v.type = "float64" /\ o.NormalizeFloatPrecision = 0)

(* What %v prints: slices and maps as their elements between brackets,     *)
(* separated by blanks, and the elements without quotes.                   *)
RECURSIVE Show(_)
Show(n) ==
    LET list(s) == FlattenSeq([i \in DOMAIN s |-> <<" ">> \o s[i]])
        keys == SetToSeq(DOMAIN n.fields)
        field(i) == <<keys[i], ":">> \o Show(n.fields[keys[i]])
    IN  CASE IsSlice(n) -> <<"[">> \o list([i \in DOMAIN n.items |-> Show(n.items[i])]) \o <<"]">>
          [] IsMap(n)   -> <<"map[">> \o list([i \in DOMAIN keys |-> field(i)]) \o <<"]">>
          [] "raw" \in DOMAIN n -> n.raw
          [] OTHER -> n.text

canSort(items) == \A i \in DOMAIN items : ~IsMap(items[i])

(* sort.Slice by the text of %v: what prints alike stays in its order (an  *)
(* insertion sort up to 12 elements).  Which order the texts have does not *)
(* matter, as long as it is one.                                           *)
Sorted(items) ==
    LET texts == SetToSeq({Show(items[i]) : i \in DOMAIN items})
    IN  FlattenSeq([k \in DOMAIN texts |-> SelectSeq(items, LAMBDA n : Show(n) = texts[k])])

normalizeArray(items, o) ==
    IF o.SortArrays /\ items # <<>> /\ canSort(items) THEN Sorted(items) ELSE items

RECURSIVE normalizeValue(_, _)
normalizeValue(v, o) ==
    CASE v.type = "document" ->
             [fields |-> [k \in DOMAIN v.fields |-> normalizeValue(v.fields[k], o)]]
      [] v.type = "array" ->
             Slice(normalizeArray([i \in DOMAIN v.items |-> normalizeValue(v.items[i], o)], o))
      [] IsRaw(v, o) -> Raw(Contents(v, o))
      [] OTHER -> Text((IF Tagged(v.type, o) THEN <<Tags[v.type]>> ELSE <<>>) \o Contents(v, o))

(* The JSON of a normalised value: a slice nothing was appended to is nil, *)
(* which is null in JSON.                                                  *)
RECURSIVE Marshal(_)
Marshal(n) ==
    CASE IsSlice(n) /\ n.items = <<>> -> Raw(<<"<nil>">>)
      [] IsSlice(n) -> Slice([i \in DOMAIN n.items |-> Marshal(n.items[i])])
      [] IsMap(n) -> [fields |-> [k \in DOMAIN n.fields |-> Marshal(n.fields[k])]]
      [] OTHER -> n

Document(fields) == [type |-> "document", fields |-> fields]

RECURSIVE Leaves(_)
Leaves(v) ==
    CASE v.type = "document" -> UNION {Leaves(v.fields[k]) : k \in DOMAIN v.fields}
      [] v.type = "array" -> UNION {Leaves(v.items[i]) : i \in DOMAIN v.items}
      [] OTHER -> {v}

(* json.Marshal fails on a float that is not a number, and the error is    *)
(* dropped: the hash is that of no text at all.                            *)
Encodable(v, o) == o.NormalizeFloatPrecision = 0 => NaN \notin Leaves(v)

(* Mutant of WithoutID: the _id is compared like any other field.          *)
WithID(doc) == doc

WithoutID(doc) == [k \in DOMAIN doc \ {"_id"} |-> doc[k]]

DocHash(doc, o) ==
    LET d == Document(WithoutID(doc))
    IN  IF Encodable(d, o) THEN {Marshal(normalizeValue(d, o))} ELSE {}

-----------------------------------------------------------------------------
(* deepDiff.  Nested documents are compared field by field; everything     *)
(* else by its type and the text of %v.                                    *)
(* Mutant of Issues: the values are compared as they are stored.           *)
IssuesUnnormalized(v, w, o) ==
    IF v.type # w.type THEN {"TYPE_MISMATCH"} ELSE IF v # w THEN {"VALUE_DIFF"} ELSE {}

Issues(v, w, o) ==
    CASE o.StrictObjectID /\ v.type = "ObjectID" /\ w.type = "string" -> {"OBJECTID_DEGRADED"}
      [] v.type # w.type -> {"TYPE_MISMATCH"}
      [] Show(normalizeValue(v, o)) # Show(normalizeValue(w, o)) -> {"VALUE_DIFF"}
      [] OTHER -> {}

RECURSIVE deepDiff(_, _, _, _)
deepDiff(s, t, path, o) ==
    LET detail(k, issue) == [Path |-> Append(path, k), IssueType |-> issue]
        both == (DOMAIN s \cap DOMAIN t) \ {"_id"}
        nested == {k \in both : s[k].type = "document" /\ t[k].type = "document"}
    IN  {detail(k, "MISSING_FIELD") : k \in DOMAIN WithoutID(s) \ DOMAIN t}
          \cup {detail(k, "EXTRA_FIELD") : k \in DOMAIN WithoutID(t) \ DOMAIN s}
          \cup UNION {{detail(k, i) : i \in Issues(s[k], t[k], o)} : k \in both \ nested}
          \cup UNION {deepDiff(s[k].fields, t[k].fields, Append(path, k), o) : k \in nested}

(* DeepCompare: the fast path, and the slow one.                           *)
FastPath ==
    /\ stage = "hash"
    /\ passed' = (DocHash(src, opts) = DocHash(tgt, opts))
    /\ stage' = IF passed' THEN "done" ELSE "diff"
    /\ UNCHANGED <<src, tgt, opts, diffs>>

SlowPath ==
    /\ stage = "diff"
    /\ diffs' = deepDiff(src, tgt, <<>>, opts)
    /\ stage' = "done"
    /\ UNCHANGED <<src, tgt, opts, passed>>

Init ==
    /\ \E pair \in Pairs : src = pair[1] /\ tgt = pair[2]
    /\ opts \in Options
    /\ stage = "hash"
    /\ passed = FALSE
    /\ diffs = {}

Next == FastPath \/ SlowPath

Spec == Init /\ [][Next]_vars

-----------------------------------------------------------------------------
(* What it means for two values to be the same, said of the values alone.  *)
(* Floats are the same if they are nearest to the same multiple of the     *)
(* precision, decimals if they are the same number; the order of a plain   *)
(* array counts for nothing if arrays are sorted.                          *)
SameFloat(v, w, o) ==
    LET unit == 10 ^ (FloatDigits - o.NormalizeFloatPrecision)
        near(n, multiple) == 2 * Abs(n - multiple * unit) < unit
    IN  IF NaN \in {v, w} \/ o.NormalizeFloatPrecision = 0 THEN v = w
        ELSE \E multiple \in -10 .. 10 : near(v.num, multiple) /\ near(w.num, multiple)

Difference(v, w) == Abs(v.coef * 10 ^ w.exp - w.coef * 10 ^ v.exp)

SameLeaf(v, w, o) ==
    IF v.type # w.type THEN FALSE
    ELSE CASE v.type = "float64" -> SameFloat(v, w, o)
           [] v.type = "Decimal128" -> IF o.NormalizeDecimal128 THEN Difference(v, w) = 0 ELSE v = w
           [] v.type = "Binary" -> v.words = w.words /\ (o.CheckBinarySubtype => v = w)
           [] OTHER -> v = w

(* The pairs of values that have one hash though they are not the same: an *)
(* empty array and null, values of types that are printed bare, a string   *)
(* that starts like the text of another type, and decimals that differ     *)
(* beyond the last place.                                                  *)
IsNil(v) == v.type = "null" \/ (v.type = "array" /\ v.items = <<>>)
Bare(v, o) ==
    v.type \in {"string", "Symbol", "JavaScript"} \/ (v.type = "DateTime" /\ ~o.NormalizeDatetime)
LooksTagged(v) == v.type = "string" /\ v.words[1] \in {Tags[t] : t \in DOMAIN Tags}

Conflated(v, w, o) ==
    \/ IsNil(v) /\ IsNil(w)
    \/ v.type # w.type /\ Bare(v, o) /\ Bare(w, o)
    \/ v.type # w.type /\ (LooksTagged(v) \/ LooksTagged(w))
    \/ /\ v.type = "Decimal128" /\ w.type = "Decimal128" /\ o.NormalizeDecimal128
       /\ Difference(v, w) * 10 ^ DecimalPlaces <= 10 ^ (v.exp + w.exp)

Orders(n, anyOrder) == {p \in [1 .. n -> 1 .. n] :
    IF anyOrder THEN \A i, j \in 1 .. n : p[i] = p[j] => i = j ELSE \A i \in 1 .. n : p[i] = i}

(* Same, or with lax also conflated.                                       *)
RECURSIVE Same(_, _, _, _)
Same(v, w, o, lax) ==
    LET plain == \A i \in DOMAIN v.items : v.items[i].type # "document"
    IN  \/ lax /\ Conflated(v, w, o)
        \/ IF v.type = "document" /\ w.type = "document"
           THEN /\ DOMAIN v.fields = DOMAIN w.fields
                /\ \A k \in DOMAIN v.fields : Same(v.fields[k], w.fields[k], o, lax)
           ELSE IF v.type = "array" /\ w.type = "array"
           THEN /\ Len(v.items) = Len(w.items)
                /\ \E p \in Orders(Len(v.items), o.SortArrays /\ plain) :
                       \A i \in DOMAIN p : Same(v.items[i], w.items[p[i]], o, lax)
           ELSE SameLeaf(v, w, o)

SameDoc(lax) == Same(Document(WithoutID(src)), Document(WithoutID(tgt)), opts, lax)

(* No leaf of the two documents prints like something it is not, or loses  *)
(* digits.                                                                 *)
Clear ==
    \A v \in Leaves(Document(src)) \cup Leaves(Document(tgt)) :
        /\ Bare(v, opts) => v.type = "string" /\ Len(v.words) = 1
        /\ v.type = "string" => v.words[1] \notin {"true", "<nil>", "NaN"}
        /\ v.type = "Decimal128" => v.exp <= DecimalPlaces

(* The nearest multiple of the precision is zero from below.               *)
NegativeZero(v) ==
    /\ v.type = "float64" /\ v # NaN
    /\ v.num < 0 /\ SameFloat(v, [v EXCEPT !.num = 0], opts)

Absent == [type |-> "absent"]

RECURSIVE At(_, _)
At(doc, path) ==
    IF Head(path) \notin DOMAIN doc THEN Absent
    ELSE LET v == doc[Head(path)]
         IN  IF Len(path) = 1 THEN v
             ELSE IF v.type = "document" THEN At(v.fields, Tail(path)) ELSE Absent

(* The places where the documents part: both sides are documents above,    *)
(* and what is there is not the same.                                      *)
DifferingPaths ==
    LET documents(path) == At(src, path).type = "document" /\ At(tgt, path).type = "document"
    IN  {path \in Paths :
            /\ \A n \in 1 .. Len(path) - 1 : documents(SubSeq(path, 1, n))
            /\ ~documents(path)
            /\ {At(src, path), At(tgt, path)} # {Absent}
            /\ Absent \in {At(src, path), At(tgt, path)}
                 \/ ~Same(At(src, path), At(tgt, path), opts, FALSE)}

-----------------------------------------------------------------------------
(* Types of the state of a comparison.                                     *)
TypeOK ==
    /\ stage \in {"hash", "diff", "done"}
    /\ passed \in BOOLEAN
    /\ diffs \subseteq DiffDetail

(* Documents that DeepCompare passes are the same up to normalisation,     *)
(* except for the pairs of values listed above and documents with NaN      *)
(* under precision 0: what the JSON leaves out is never all there is to a  *)
(* difference.                                                             *)
PassMeansSame ==
    stage = "done" /\ passed =>
        \/ SameDoc(TRUE)
        \/ ~Encodable(Document(src), opts) /\ ~Encodable(Document(tgt), opts)

(* Documents that are the same pass, whatever order their arrays have and  *)
(* however their numbers are written: except for elements of a sorted      *)
(* array that print alike, and numbers on the two sides of zero.           *)
SamePasses ==
    /\ stage = "done" /\ SameDoc(FALSE) /\ Clear
    /\ ~\E v \in Leaves(Document(src)) \cup Leaves(Document(tgt)) : NegativeZero(v)
    => passed

(* A document that fails is explained: deepDiff names every place where    *)
(* the two documents part, and no other, though it compares the Go values  *)
(* and not what was hashed.  It is blind below a nested "_id".             *)
DifferencesExplained ==
    /\ stage = "done" /\ ~passed /\ Clear
    /\ ~\E v \in Leaves(Document(src)) \cup Leaves(Document(tgt)) : NegativeZero(v)
    => {d.Path : d \in diffs} = DifferingPaths
=============================================================================
