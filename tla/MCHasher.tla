------------------------------ MODULE MCHasher ------------------------------
(***************************************************************************)
(* Values for the constants of Hasher: every pair of values of one field,  *)
(* alone and within a nested document next to another difference, and      *)
(* pairs of arrays of them.                                                *)
(***************************************************************************)
EXTENDS Hasher

Of(type, words) == [type |-> type, words |-> words]
String(word) == Of("string", <<word>>)
Float(n) == [type |-> "float64", num |-> n]
Decimal(coef, exp) == [type |-> "Decimal128", coef |-> coef, exp |-> exp]
Binary(subtype, word) == [type |-> "Binary", subtype |-> subtype, words |-> <<word>>]
Array(items) == [type |-> "array", items |-> items]

NullValue == Of("null", <<"<nil>">>)
True == Of("bool", <<"true">>)

(* Floats are hundredths; the precision is one place, or none is fixed.    *)
Scalars ==
    {NullValue, True, String("a"), String("true"), String("<nil>"), String("NaN"),
     Of("string", <<"a", " ", "b">>), Of("string", <<"oid:", "h">>), String("h"),
     Of("ObjectID", <<"h">>), Of("DateTime", <<"t">>), String("t"),
     Of("Symbol", <<"a">>), Of("JavaScript", <<"a">>),
     Of("int32", <<"1">>), Of("int64", <<"1">>), Of("Timestamp", <<"1">>), Of("Regex", <<"a">>),
     Float(10), Float(12), Float(24), Float(-2), Float(0), NaN,
     Decimal(1, 0), Decimal(100, 2), Decimal(1, 3), Decimal(0, 0), Decimal(101, 2),
     Binary("0", "a"), Binary("4", "a")}

Few == {NullValue, True, String("a"), String("true"), Of("string", <<"a", " ", "b">>),
        String("b"), Float(0), Float(2), Decimal(1, 0), Decimal(100, 2)}

Doc(k, v) == Document(k :> v)
Arrays == {Array(<<>>)} \cup {Array(<<v>>) : v \in Few} \cup {Array(<<v, w>>) : v, w \in Few}
Nested ==
    {Doc("x", v) : v \in Few} \cup {Doc("_id", v) : v \in Few} \cup {Document(<<>>)}
        \cup {Array(<<Doc("x", v), Doc("x", w)>>) : v, w \in {True, String("a"), String("b")}}
        \cup {Array(<<Array(<<v, w>>), NullValue>>) : v, w \in {True, String("a"), String("b")}}

(* One field, with and without a second one that differs, and one level    *)
(* down.                                                                   *)
One(values) == {<<"x" :> v, "x" :> w>> : v, w \in values}
SomePairs ==
    One(Scalars) \cup One(Arrays) \cup One(Nested \cup {NullValue, True, Array(<<>>)})
        \cup {<<("x" :> v) @@ ("_id" :> True), ("x" :> w) @@ ("y" :> Doc("x", True))>> :
                 v, w \in Few \cup {Array(<<>>)}}
        \cup {<<"y" :> Document(("x" :> v) @@ ("_id" :> True)), "y" :> Doc("x", w)>> :
                 v, w \in Scalars}

Default ==
    [NormalizeDatetime |-> TRUE, NormalizeFloatPrecision |-> 1, NormalizeDecimal128 |-> TRUE,
     SortArrays |-> FALSE, CheckBinarySubtype |-> TRUE, StrictObjectID |-> TRUE]
Sorting == [Default EXCEPT !.SortArrays = TRUE]
Opposite ==
    [NormalizeDatetime |-> FALSE, NormalizeFloatPrecision |-> 0, NormalizeDecimal128 |-> FALSE,
     SortArrays |-> TRUE, CheckBinarySubtype |-> FALSE, StrictObjectID |-> FALSE]
SomeOptions == {Default, Sorting, Opposite}
=============================================================================
