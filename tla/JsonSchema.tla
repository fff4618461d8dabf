------------------------------ MODULE JsonSchema ------------------------------
(***************************************************************************)
(* The validator of scripts/validate-example-schemas.mjs: resolveRef,      *)
(* typeMatches, stripAnnotations and validateSchema.                       *)
(*                                                                         *)
(* A JSON value is a record of its kind, n (a boolean as 0 or 1, a number  *)
(* in halves, a string of one-letter text as its length), the items of an  *)
(* array or the values of an object, and an object's keys in their order.  *)
(* A schema is a record of the keywords it has; true and false are         *)
(* [boolean |-> ...].  type, enum, required and pattern (the strings that  *)
(* match) are sets, $ref is written ref, $defs defs.                       *)
(***************************************************************************)
EXTENDS SchemaNames, Integers, SequencesExt

Scalar(kind, n) == [kind |-> kind, n |-> n, items |-> <<>>, keys |-> <<>>]
Array(items) == [kind |-> "array", n |-> 0, items |-> items, keys |-> <<>>]
Object(keys, items) == [kind |-> "object", n |-> 0, items |-> items, keys |-> keys]

True == [boolean |-> TRUE]
False == [boolean |-> FALSE]

\* schema.k is there and not undefined.
Has(schema, k) == k \in DOMAIN schema

\* "if (schema.k)": the schema false is falsy like an absent one.
Truthy(schema, k) == Has(schema, k) /\ schema[k] # False

\* isDeepStrictEqual: the order of keys does not matter.
RECURSIVE DeepEqual(_, _)
DeepEqual(v, w) ==
  /\ v.kind = w.kind /\ v.n = w.n /\ Len(v.items) = Len(w.items)
  /\ ToSet(v.keys) = ToSet(w.keys)
  /\ \A i, j \in DOMAIN v.items :
       (IF v.kind = "object" THEN v.keys[i] = w.keys[j] ELSE i = j)
         => DeepEqual(v.items[i], w.items[j])

\* Drop $comment from every object.
RECURSIVE stripAnnotations(_)
stripAnnotations(v) ==
  LET object == v.kind = "object"
      kept == SetToSortSeq({i \in DOMAIN v.items : object => v.keys[i] # "$comment"}, <)
  IN  [v EXCEPT !.items = [i \in DOMAIN kept |-> stripAnnotations(v.items[kept[i]])],
                !.keys = IF object THEN [i \in DOMAIN kept |-> v.keys[kept[i]]] ELSE <<>>]

-----------------------------------------------------------------------------
\* The schemas directly below a schema.
Below(schema) ==
  {schema[k] : k \in DOMAIN schema \cap {"not", "if", "then", "else", "items", "additionalProperties"}}
  \cup UNION {ToSet(schema[k]) : k \in DOMAIN schema \cap {"oneOf", "anyOf", "allOf"}}
  \cup UNION {{schema[k][p] : p \in DOMAIN schema[k]} : k \in DOMAIN schema \cap {"properties", "defs"}}

RECURSIVE Subschemas(_)
Subschemas(schema) == {schema} \cup UNION {Subschemas(s) : s \in Below(schema)}

\* The refs in a schema that name a file: referencedSchemaNames walks them all.
referencedSchemas(schema) ==
  {r \in {s.ref : s \in {t \in Subschemas(schema) : Has(t, "ref")}} : r.base # ""}

\* current[segment] for each segment of a pointer; {} for undefined.
Walk(root, segments) ==
  FoldLeft(LAMBDA found, seg : {c[seg] : c \in {d \in found : Has(d, seg)}}, {root}, segments)

-----------------------------------------------------------------------------
typeMatches(v, typeName) ==
  IF typeName = "integer" THEN v.kind = "number" /\ v.n % 2 = 0 ELSE v.kind = typeName

\* An item whose JSON.stringify is that of an earlier one: equal with the keys
\* in the same order.
Duplicates(v) == \E i, j \in DOMAIN v.items : i < j /\ v.items[i] = v.items[j]

Within(n, schema, least, most) ==
  (Has(schema, least) => n >= schema[least]) /\ (Has(schema, most) => n <= schema[most])

\* What a schema asserts of a value without looking below it.
AssertsHold(v, schema) ==
  /\ Has(schema, "const") => DeepEqual(v, schema.const)
  /\ Has(schema, "enum") => \E c \in schema.enum : DeepEqual(c, v)
  /\ v.kind = "string" =>
       /\ Within(v.n, schema, "minLength", "maxLength")
       /\ Has(schema, "pattern") => v.n \in schema.pattern
  /\ v.kind = "number" => Within(v.n, schema, "minimum", "maximum")
  /\ v.kind = "array" =>
       /\ Within(Len(v.items), schema, "minItems", "maxItems")
       /\ Has(schema, "uniqueItems") /\ schema.uniqueItems => ~Duplicates(v)
  /\ v.kind = "object" =>
       /\ Has(schema, "required") => schema.required \subseteq ToSet(v.keys)
       /\ Within(Len(v.keys), schema, "minProperties", "maxProperties")

Properties(schema) == IF Has(schema, "properties") THEN DOMAIN schema.properties ELSE {}

\* Mutant of Children: a property the schema names is additional too.
ChildrenAllAdditional(v, schema) ==
  IF v.kind = "array" THEN {<<x, schema.items>> : x \in IF Truthy(schema, "items") THEN ToSet(v.items) ELSE {}}
  ELSE {<<v.items[i], schema.properties[v.keys[i]]>> :
          i \in {j \in DOMAIN v.keys : v.keys[j] \in Properties(schema)}}
       \cup {<<v.items[i], schema.additionalProperties>> :
          i \in {j \in DOMAIN v.keys : Has(schema, "additionalProperties")}}

\* The values below v with the schema each has to satisfy; an additional
\* property where none is allowed is one under the schema false.
Children(v, schema) ==
  IF v.kind = "array" THEN {<<x, schema.items>> : x \in IF Truthy(schema, "items") THEN ToSet(v.items) ELSE {}}
  ELSE {<<v.items[i], schema.properties[v.keys[i]]>> :
          i \in {j \in DOMAIN v.keys : v.keys[j] \in Properties(schema)}}
       \cup {<<v.items[i], schema.additionalProperties>> :
          i \in {j \in DOMAIN v.keys :
                   Has(schema, "additionalProperties") /\ v.keys[j] \notin Properties(schema)}}

Given(schema, k) == IF Has(schema, k) THEN ToSet(schema[k]) ELSE {}
One(schema, k) == IF Truthy(schema, k) THEN {schema[k]} ELSE {}

\* The subschemas tried on the value itself, whatever comes of the others.
InPlace(schema) ==
  Given(schema, "oneOf") \cup Given(schema, "anyOf") \cup Given(schema, "allOf")
  \cup One(schema, "not") \cup One(schema, "if")

\* What follows from the outcomes of those: tried holds pairs <<s, outcome>>.
CombineAsAsked(schema, tried) ==
  LET Ok(s) == <<s, "ok">> \in tried IN
  /\ Has(schema, "oneOf") => Cardinality({i \in DOMAIN schema.oneOf : Ok(schema.oneOf[i])}) = 1
  /\ Has(schema, "anyOf") => \E s \in Given(schema, "anyOf") : Ok(s)
  /\ \A s \in Given(schema, "allOf") : Ok(s)
  /\ \A s \in One(schema, "not") : ~Ok(s)

\* The branch that the outcome of a schema's if calls for.
Branch(schema, matches) ==
  IF ~Truthy(schema, "if") THEN {}
  ELSE IF matches THEN One(schema, "then") ELSE One(schema, "else")

Worst(outcomes) ==
  IF "throws" \in outcomes THEN "throws" ELSE IF "errors" \in outcomes THEN "errors" ELSE "ok"
ErrorsUnless(b) == IF b THEN {} ELSE {"errors"}

\* validateSchema: "ok" for no errors, "errors", or "throws" (a TypeError for a
\* pointer that ends nowhere, pointerSegments' Error, the RangeError of a
\* reference that leads back to itself: followed holds those on the way here).
RECURSIVE validateSchema(_, _, _, _, _)
validateSchema(value, schema, schemaByName, name, followed) ==
  LET Check(s) == validateSchema(value, s, schemaByName, name, followed)
      inPlace ==
        UNION {{t[2] : t \in {u \in tried : u[2] = "throws"}} \cup ErrorsUnless(CombineAsAsked(schema, tried)) :
                 tried \in {{<<s, Check(s)>> : s \in InPlace(schema)}}}
      branch == {Check(s) : s \in Branch(schema, Truthy(schema, "if") /\ Check(schema.if) = "ok")}
      typed == Has(schema, "type") => \E t \in schema.type : typeMatches(value, t)
      below == {validateSchema(c[1], c[2], schemaByName, name, {}) : c \in Children(value, schema)}
      segments == schema.ref.pointer
      targets == Lookup(DOMAIN schemaByName, name, schema.ref)
      linked == UNION {{<<n, s>> : s \in Walk(schemaByName[n], segments)} : n \in targets}
      leads == \E n \in targets : Walk(schemaByName[n], Front(segments)) # {}
  IN
  IF Has(schema, "boolean") THEN IF schema.boolean THEN "ok" ELSE "errors"
  ELSE IF ~Has(schema, "ref") THEN
    Worst(inPlace \cup branch \cup
          (IF typed THEN below \cup ErrorsUnless(AssertsHold(value, schema)) ELSE {"errors"}))
  ELSE Worst(
    IF targets = {} THEN {"errors"}
    ELSE IF schema.ref.anchor THEN {"throws"}
    ELSE IF linked = {} THEN {IF leads THEN "throws" ELSE "errors"}
    ELSE {IF <<l[1], segments>> \in followed THEN "throws"
          ELSE validateSchema(value, l[2], schemaByName, l[1], followed \cup {<<l[1], segments>>}) :
            l \in linked})
=============================================================================
