----------------------------- MODULE Redaction ------------------------------
(***************************************************************************)
(* The response boundary (internal/policy/privacy.go, profile.go,          *)
(* internal/redact/redact.go): what class a value has, what the profile    *)
(* does with that class, and the walk that does it to a payload.           *)
(***************************************************************************)
EXTENDS Document

CONSTANTS
    PrivateDomains, PrivateClasses,     \* of entities and of device classes
    PrivateKeys, SecretKeys,            \* of attributes; the fragments as the keys they match
    Secrets,                            \* the texts that hold the server's own token
    MaxDepth                            \* maxDepth, of the walk

ASSUME WalkDepthAssumption == MaxDepth \in Nat

Normal == 0
Private == 1
Secret == 2
Profiles == {"mask", "allow", "deny"}
Stricter(a, b) == IF a > b THEN a ELSE b

Redacted == Text("[redacted]")
Denied == Text("[denied]")

ClassifyEntity(id) == IF DomainOf[id] \in PrivateDomains THEN Private ELSE Normal
ClassifyEntityWithClass(id, class) == IF class \in PrivateClasses THEN Private ELSE ClassifyEntity(id)
ClassifyAttribute(key) == IF key \in SecretKeys THEN Secret ELSE IF key \in PrivateKeys THEN Private ELSE Normal

Decide(profile, class) ==
    CASE class = Secret -> "redact"
      [] class = Private -> profile
      [] OTHER -> "allow"

(* CheckHistoryScope, of the entities a query names.                       *)
ScopeDenied(profile, ids) == profile = "deny" /\ \E id \in ids : ClassifyEntity(id) = Private

-----------------------------------------------------------------------------
(* Whom a payload is about.                                                *)

Nobody == [id |-> "", class |-> Normal]

With(subject, other) == [
    id |-> IF other.id # "" THEN other.id ELSE subject.id,
    class |-> Stricter(subject.class, other.class)]

SubjectOf(m) ==
    LET id == OptString(m, "entity_id")
        class == FirstNonEmpty(OptString(m, "device_class"), OptString(Field(m, "attributes"), "device_class"))
    IN  IF id = "" THEN Nobody ELSE [id |-> id, class |-> ClassifyEntityWithClass(id, class)]

SubjectFromID(key) == IF ClassifyEntity(key) = Private THEN [id |-> key, class |-> Private] ELSE Nobody

(* One element that names the class names it for the whole series.         *)
SubjectOfAll(subject, list) ==
    FoldLeft(LAMBDA s, e : IF e.k = "object" THEN With(s, SubjectOf(e)) ELSE s, subject, list)

ClassOf(key, class) ==
    IF key \in {"state", "s"} THEN Stricter(class, ClassifyAttribute(key)) ELSE ClassifyAttribute(key)
KindOf(key) == IF key \in {"state", "s"} THEN "state" ELSE "value"

(* valueKey: what a token tells apart.                                     *)
ValueKey(v) == IF v.k \in {"object", "list"} THEN Text("opaque") ELSE v

(* Mutant: a token names the value, whoever's it is.                       *)
Token_NoSubject(kind, id, v) == Json("token", kind, <<>>, <<Text(""), ValueKey(v)>>)

(* The nonce and the number of a token are a function of what it stands    *)
(* for; the token is that.                                                 *)
Token(kind, id, v) == Json("token", kind, <<>>, <<Text(id), ValueKey(v)>>)

ScrubText(v) == IF v.k = "text" /\ v.atom \in Secrets THEN Redacted ELSE v

MaskedText(profile, class, id, s) ==
    CASE Decide(profile, class) = "redact" -> Redacted
      [] Decide(profile, class) = "deny" -> Denied
      [] Decide(profile, class) = "mask" -> Token("text", id, Text(s))
      [] OTHER -> ScrubText(Text(s))

-----------------------------------------------------------------------------
(* Mutant: what the walk does not enter is passed on.                      *)
TooDeep_Passed(v) == v

TooDeep(v) == Redacted

RECURSIVE Payload(_, _, _, _)
FieldPayload(profile, key, val, decided, subject, depth) ==
    CASE decided = "redact" -> Redacted
      [] decided = "deny" -> Denied
      [] decided = "mask" -> Token(KindOf(key), subject.id, val)
      [] OTHER -> Payload(profile, val, With(subject, SubjectFromID(key)), depth + 1)

ObjectPayload(profile, m, subject, depth) ==
    Object([key \in DOMAIN m |->
        FieldPayload(profile, key, m[key], Decide(profile, ClassOf(key, subject.class)), subject, depth)])

ListPayload(profile, list, subject, depth) ==
    Array([i \in DOMAIN list |-> Payload(profile, list[i], subject, depth + 1)])

Payload(profile, v, subject, depth) ==
    CASE depth > MaxDepth -> TooDeep(v)
      [] depth <= MaxDepth /\ v.k = "object" -> ObjectPayload(profile, v.map, With(subject, SubjectOf(v)), depth)
      [] depth <= MaxDepth /\ v.k = "list" -> ListPayload(profile, v.list, SubjectOfAll(subject, v.list), depth)
      [] OTHER -> ScrubText(v)

(* Every place a text occurs in a document.                                *)
RECURSIVE Texts(_)
Texts(v) ==
    CASE v.k = "object" -> UNION {Texts(v.map[key]) : key \in DOMAIN v.map}
      [] v.k = "list" -> UNION {Texts(v.list[i]) : i \in DOMAIN v.list}
      [] v.k = "text" -> {v.atom}
      [] OTHER -> {}
=============================================================================
