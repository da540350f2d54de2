------------------------------ MODULE Document ------------------------------
(***************************************************************************)
(* Decoded JSON and the accessors every mapper reads it through            *)
(* (internal/ha/mapping.go, "permissive field extraction"): a field that   *)
(* is absent or of another type is "not present", never a failure.         *)
(***************************************************************************)
EXTENDS Integers, Sequences, FiniteSets, SequencesExt

CONSTANTS
    Shapes,     \* of each text, the grammars it matches
    Parts,      \* of each text, its parts between commas, trimmed
    DomainOf,   \* of each text, what entityDomain reads in it
    Instant     \* of each timestamp, the instant it names

(* Every value has the same fields, so that any two can be compared.       *)
Json(kind, atom, map, list) == [k |-> kind, atom |-> atom, map |-> map, list |-> list]
Text(s) == Json("text", s, <<>>, <<>>)
Number(s) == Json("number", s, <<>>, <<>>)
Flag(b) == Json("flag", IF b THEN "true" ELSE "false", <<>>, <<>>)
Object(f) == Json("object", "", f, <<>>)
Array(s) == Json("list", "", <<>>, s)
Null == Json("null", "", <<>>, <<>>)
Absent == Json("absent", "", <<>>, <<>>)

Is(text, shape) == shape \in Shapes[text]

Field(raw, key) == IF key \in DOMAIN raw.map THEN raw.map[key] ELSE Absent
Has(raw, key) == key \in DOMAIN raw.map
HasString(raw, key) == Field(raw, key).k = "text"

OptString(raw, key) == IF HasString(raw, key) THEN Field(raw, key).atom ELSE ""
OptBool(raw, key) == Field(raw, key) = Flag(TRUE)
FirstNonEmpty(a, b) == IF a # "" THEN a ELSE b

(* A null is a nil map, which has no fields.                               *)
AsObject(v) == IF v.k = "object" THEN v ELSE Object(<<>>)
IsObject(v) == v.k \in {"object", "null"}

(* optTime: a timestamp in text, or seconds in a number.                   *)
HasTime(raw, key) ==
    \/ HasString(raw, key) /\ Is(OptString(raw, key), "stamp")
    \/ Field(raw, key).k = "number"
OptTime(raw, key) == IF HasTime(raw, key) THEN Instant[Field(raw, key).atom] ELSE -1

OptStrings(raw, key) ==
    LET texts == SelectSeq(Field(raw, key).list, LAMBDA v : v.k = "text")
    IN  [i \in 1..Len(texts) |-> texts[i].atom]

(* Decoding into a slice of maps: one element that is no object fails the  *)
(* whole of it; null is an empty slice.                                    *)
DecodesToMaps(doc) ==
    \/ doc.k = "null"
    \/ doc.k = "list" /\ \A i \in 1..Len(doc.list) : IsObject(doc.list[i])
Maps(doc) == [i \in 1..Len(doc.list) |-> AsObject(doc.list[i])]

(* Decoding into a slice of anything, elements that are no object skipped. *)
DecodesToList(doc) == doc.k \in {"list", "null"}
MapsAmong(doc) == LET objects == SelectSeq(doc.list, IsObject)
                  IN  [i \in 1..Len(objects) |-> AsObject(objects[i])]

Failed == [ok |-> FALSE, value |-> <<>>]
Mapped(value) == [ok |-> TRUE, value |-> value]
=============================================================================
