----------------------------- MODULE McpSchema -----------------------------
(* The check of a tool's arguments against the schema that its server       *)
(* published (mcp_schema.rs).  A schema is a record of the keywords it has; *)
(* `never` is the schema FALSE, except that `items: false` is `noItems`,    *)
(* for the code asks whether `items` is an object or a list.  A value is a  *)
(* record of its kind and content.  One counter of nesting is threaded      *)
(* through the whole of the recursion, early returns included.              *)
EXTENDS Integers, Sequences, FiniteSets, SequencesExt

CONSTANTS
    Schemas,   \* the schemas of the tools
    Values,    \* the arguments
    MaxDepth   \* MAX_TOOL_SCHEMA_DEPTH

VARIABLES
    schema, instance,
    verdict    \* what validate made of them: "none" before

vars == <<schema, instance, verdict>>

Has(s, keyword) == keyword \in DOMAIN s

(* resolve_ref: `#` is the document, a pointer one of its definitions;      *)
(* another document is not fetched.                                         *)
Resolves(root, ref) == ref = "#" \/ (Has(root, "defs") /\ ref \in DOMAIN root.defs)
resolve_ref(root, ref) == IF ref = "#" THEN root ELSE root.defs[ref]

matches_type(t, v) ==
    CASE t = "integer" -> v.is = "number" /\ v.n % 2 = 0
      [] t \in {"object", "array", "string", "boolean", "null", "number"} -> v.is = t
      [] OTHER -> TRUE

(* What is checked of any value, and of a value of each kind by itself.     *)
(* Numbers are halves: an even one is integral.                             *)
ValueFails(s, v) ==
    \/ Has(s, "const") /\ v # s.const
    \/ Has(s, "enum") /\ v \notin s.enum
    \/ Has(s, "type") /\ \A t \in s.type : ~matches_type(t, v)
ObjectFails(s, v) ==
    \/ Has(s, "required") /\ ~(s.required \subseteq DOMAIN v.map)
    \/ Has(s, "maxProperties") /\ Cardinality(DOMAIN v.map) > s.maxProperties
ArrayFails(s, v) ==
    \/ Has(s, "maxItems") /\ Len(v.items) > s.maxItems
    \/ Has(s, "uniqueItems") /\ ~IsInjective(v.items)
ScalarFails(s, v) ==
    \/ v.is = "number" /\ Has(s, "minimum") /\ v.n < s.minimum
    \/ v.is = "number" /\ Has(s, "exclusiveMaximum") /\ v.n >= s.exclusiveMaximum
    \/ v.is = "string" /\ Has(s, "minLength") /\ v.len < s.minLength
    \/ v.is = "string" /\ Has(s, "maxLength") /\ v.len > s.maxLength
FailsAlone(s, v) ==
    \/ ValueFails(s, v)
    \/ v.is = "object" /\ ObjectFails(s, v)
    \/ v.is = "array" /\ ArrayFails(s, v)
    \/ ScalarFails(s, v)

(* Neither a name nor a pattern of the schema is about this property; a     *)
(* pattern is the set of the names it matches.                              *)
Additional(s, key) == /\ ~(Has(s, "properties") /\ key \in DOMAIN s.properties)
                      /\ ~(Has(s, "patternProperties") /\ key \in s.patternProperties.matches)

(* FALSE for additional properties is looked at where they are; anywhere    *)
(* else it is a schema like others, without keywords.                       *)
IsFalse(s) == Has(s, "never")
BarredName(s, v) ==
    /\ v.is = "object" /\ Has(s, "additionalProperties") /\ IsFalse(s.additionalProperties)
    /\ \E key \in DOMAIN v.map : Additional(s, key)

PropertyChecks(s, v, key) ==
    LET named == IF Has(s, "properties") /\ key \in DOMAIN s.properties
                 THEN <<s.properties[key]>> ELSE <<>>
        matched == IF Has(s, "patternProperties") /\ key \in s.patternProperties.matches
                   THEN <<s.patternProperties.schema>> ELSE <<>>
        other == IF Additional(s, key) /\ Has(s, "additionalProperties") /\ ~IsFalse(s.additionalProperties)
                 THEN <<s.additionalProperties>> ELSE <<>>
    IN  [i \in 1 .. Len(named \o matched \o other) |-> <<(named \o matched \o other)[i], v.map[key]>>]

(* Items: a single schema, also when it is the only one of a list, is for   *)
(* every item that no prefix covers; FALSE is looked at after a prefix.     *)
ItemSchema(s, i) ==
    CASE Has(s, "prefixItems") /\ i <= Len(s.prefixItems) /\ (Has(s, "items") => Len(s.items) = 1)
             -> <<s.prefixItems[i]>>
      [] Has(s, "items") /\ Len(s.items) = 1 -> <<s.items[1]>>
      [] Has(s, "items") /\ i <= Len(s.items) -> <<s.items[i]>>
      [] Has(s, "prefixItems") /\ Has(s, "noItems") -> <<[never |-> TRUE]>>
      [] OTHER -> <<>>

(* The schemas that the parts of a value are checked against, in order.     *)
Children(s, v) ==
    IF v.is = "object"
    THEN FlattenSeq([i \in 1 .. Cardinality(DOMAIN v.map) |->
                        PropertyChecks(s, v, SetToSeq(DOMAIN v.map)[i])])
    ELSE IF v.is = "array"
    THEN FlattenSeq([i \in 1 .. Len(v.items) |->
                        [j \in 1 .. Len(ItemSchema(s, i)) |-> <<ItemSchema(s, i)[1], v.items[i]>>]])
    ELSE <<>>

RECURSIVE Check(_, _, _, _)

(* One list of checks after another on one counter: how many pass, and the  *)
(* counter at the end.                                                      *)
Each(checks, depth, root) ==
    FoldLeft(LAMBDA a, c : LET r == Check(c[1], c[2], a.depth, root)
                           IN  [passed |-> a.passed + (IF r.ok THEN 1 ELSE 0), depth |-> r.depth],
             [passed |-> 0, depth |-> depth], checks)

(* The same with a counter of its own for each.                             *)
Passing(checks, depth, root) ==
    {i \in 1 .. Len(checks) : Check(checks[i][1], checks[i][2], depth, root).ok}

Branches(s, v, keyword) ==
    IF Has(s, keyword) THEN [i \in 1 .. Len(s[keyword]) |-> <<s[keyword][i], v>>] ELSE <<>>

(* The composite keywords: allOf is on the counter of the whole.            *)
Composite(s, v, depth, root) ==
    LET all == Each(Branches(s, v, "allOf"), depth, root)
        passing(k) == Passing(Branches(s, v, k), all.depth, root)
    IN  [ok |-> /\ all.passed = Len(Branches(s, v, "allOf"))
                /\ Has(s, "anyOf") => passing("anyOf") # {}
                /\ Has(s, "oneOf") => Cardinality(passing("oneOf")) = 1
                /\ Has(s, "not") => passing("not") = {},
         depth |-> all.depth]

StayDeep(depth) == depth
Leave(depth) == depth - 1
Refused(depth) == [ok |-> FALSE, depth |-> Leave(depth + 1)]

Check(s, v, depth, root) ==
    IF depth + 1 > MaxDepth THEN Refused(depth)
    ELSE IF Has(s, "ref")
    THEN IF ~Resolves(root, s.ref) THEN Refused(depth)
         ELSE LET r == Check(resolve_ref(root, s.ref), v, depth + 1, root)
              IN  [r EXCEPT !.depth = Leave(@)]
    ELSE LET parts == Each(Children(s, v), depth + 1, root)
             rest == Composite(s, v, parts.depth, root)
         IN  [ok |-> /\ ~FailsAlone(s, v) /\ ~BarredName(s, v)
                     /\ parts.passed = Len(Children(s, v))
                     /\ rest.ok,
              depth |-> Leave(rest.depth)]

validate(s, v) == Check(s, v, 0, s)

Unchecked == [ok |-> "none", depth |-> 0]
Init == schema \in Schemas /\ instance \in Values /\ verdict = Unchecked

Validate ==
    /\ verdict = Unchecked
    /\ verdict' = [ok |-> IF validate(schema, instance).ok THEN "valid" ELSE "invalid",
                   depth |-> validate(schema, instance).depth]
    /\ UNCHANGED <<schema, instance>>

Next == Validate
Spec == Init /\ [][Next]_vars

-----------------------------------------------------------------------------
(* What a schema means, by the standard (JSON Schema 2020-12): each keyword *)
(* it has is a condition, stated here for itself, and no value is FALSE's.  *)
(* Nesting alone, of a schema in a schema, is bounded: `n` is what is left. *)
OfType(v, t) == IF t = "integer" THEN v.is = "number" /\ \E k \in -v.n .. v.n : v.n = 2 * k ELSE v.is = t

AsItIs(s, v) ==
    /\ Has(s, "const") => v = s.const
    /\ Has(s, "enum") => v \in s.enum
    /\ Has(s, "type") => \E t \in s.type : OfType(v, t)
    /\ v.is = "object" => /\ Has(s, "required") => \A name \in s.required : name \in DOMAIN v.map
                          /\ Has(s, "maxProperties") => Cardinality(DOMAIN v.map) <= s.maxProperties
    /\ v.is = "array" => /\ Has(s, "maxItems") => Len(v.items) <= s.maxItems
                         /\ Has(s, "uniqueItems") => \A i, j \in DOMAIN v.items :
                                                        i # j => v.items[i] # v.items[j]
    /\ v.is = "number" => /\ Has(s, "minimum") => v.n >= s.minimum
                          /\ Has(s, "exclusiveMaximum") => v.n < s.exclusiveMaximum
    /\ v.is = "string" => /\ Has(s, "minLength") => v.len >= s.minLength
                          /\ Has(s, "maxLength") => v.len <= s.maxLength

RECURSIVE Means(_, _, _, _)
Means(s, v, root, n) ==
    LET sub(t, w) == Means(t, w, root, n - 1)
        branches(k) == {i \in 1 .. Len(s[k]) : sub(s[k][i], v)}
        prefix == IF Has(s, "prefixItems") THEN Len(s.prefixItems) ELSE 0
    IN  /\ n > 0 /\ ~IsFalse(s)
        /\ IF Has(s, "ref")
           THEN Resolves(root, s.ref) /\ sub(resolve_ref(root, s.ref), v)
           ELSE /\ AsItIs(s, v)
                /\ v.is = "object" =>
                     \A k \in DOMAIN v.map :
                        LET p == Has(s, "properties") /\ k \in DOMAIN s.properties
                            q == Has(s, "patternProperties") /\ k \in s.patternProperties.matches
                        IN  /\ p => sub(s.properties[k], v.map[k])
                            /\ q => sub(s.patternProperties.schema, v.map[k])
                            /\ ~p /\ ~q /\ Has(s, "additionalProperties")
                                 => sub(s.additionalProperties, v.map[k])
                /\ v.is = "array" =>
                     \A i \in 1 .. Len(v.items) :
                        /\ i <= prefix => sub(s.prefixItems[i], v.items[i])
                        /\ i > prefix /\ Has(s, "items") => sub(s.items[1], v.items[i])
                        /\ i > prefix => ~Has(s, "noItems")
                /\ Has(s, "allOf") => branches("allOf") = 1 .. Len(s.allOf)
                /\ Has(s, "anyOf") => branches("anyOf") # {}
                /\ Has(s, "oneOf") => Cardinality(branches("oneOf")) = 1
                /\ Has(s, "not") => branches("not") = {}

(* The schemas that stand in a schema, but for FALSE of additional ones.    *)
Listed(s, keyword) == IF Has(s, keyword) THEN ToSet(s[keyword]) ELSE {}
Named(s, keyword) == IF Has(s, keyword) THEN {s[keyword][name] : name \in DOMAIN s[keyword]} ELSE {}
Parts(s) ==
    UNION {Listed(s, k) : k \in {"items", "prefixItems", "allOf", "anyOf", "oneOf", "not"}}
    \cup Named(s, "properties") \cup Named(s, "defs")
    \cup (IF Has(s, "patternProperties") THEN {s.patternProperties.schema} ELSE {})
    \cup (IF Has(s, "additionalProperties") /\ ~IsFalse(s.additionalProperties)
          THEN {s.additionalProperties} ELSE {})
RECURSIVE FalseOnlyBarsNames(_)
FalseOnlyBarsNames(s) ==
    ~IsFalse(s) /\ ~Has(s, "noItems") /\ \A t \in Parts(s) : FalseOnlyBarsNames(t)

(* Arguments are let through exactly if the schema, as the standard reads   *)
(* it, allows them: a wide schema is not taken for a deep one, and one that *)
(* refers to itself without end comes to an end as invalid.  This is of     *)
(* schemas in which FALSE stands only for additional properties.            *)
VerdictIsTheStandards ==
    verdict.ok # "none" /\ FalseOnlyBarsNames(schema) =>
        (verdict.ok = "valid" <=> Means(schema, instance, schema, MaxDepth))

(* What the code does not do: FALSE allows nothing, wherever it stands.     *)
FalseAllowsNothing ==
    verdict.ok = "valid" => Means(schema, instance, schema, MaxDepth)
=============================================================================
