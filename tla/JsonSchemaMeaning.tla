-------------------------- MODULE JsonSchemaMeaning --------------------------
(***************************************************************************)
(* What the keywords of JsonSchema mean in JSON Schema draft 2020-12, the  *)
(* dialect every schema of the repository declares, and the part of it the *)
(* validator claims: "the JSON Schema feature subset used by the checked   *)
(* example/schema set in this repository".                                 *)
(***************************************************************************)
EXTENDS JsonSchema

Whole(v) == v.kind = "number" /\ v.n = 2 * (v.n \div 2)

\* The kind of value a limit is about, and what it limits.
Limited == [minLength |-> "string", maxLength |-> "string", minimum |-> "number", maximum |-> "number",
            minItems |-> "array", maxItems |-> "array",
            minProperties |-> "object", maxProperties |-> "object"]
Size(v) == IF v.kind \in {"array", "object"} THEN Len(v.items) ELSE v.n

\* Every keyword constrains the value, $ref beside the others; a reference that
\* leads nowhere, or to itself, is satisfied by nothing.
RECURSIVE Satisfies(_, _, _, _, _)
Satisfies(v, schema, schemas, name, followed) ==
  LET Sat(s) == Satisfies(v, s, schemas, name, followed)
      Items(w, s) == Satisfies(w, s, schemas, name, {})
      OfProperty(i) == v.keys[i] \in Properties(schema)
  IN
  /\ Has(schema, "boolean") => schema.boolean
  /\ Has(schema, "ref") =>
       \E n \in {IF schema.ref.base = "" THEN name ELSE Join(name, schema.ref)} :
         /\ n \in DOMAIN schemas /\ ~schema.ref.anchor /\ <<n, schema.ref.pointer>> \notin followed
         /\ \E s \in Walk(schemas[n], schema.ref.pointer) :
              Satisfies(v, s, schemas, n, followed \cup {<<n, schema.ref.pointer>>})
  /\ Has(schema, "type") => v.kind \in schema.type \/ ("integer" \in schema.type /\ Whole(v))
  /\ Has(schema, "const") => DeepEqual(v, schema.const)
  /\ Has(schema, "enum") => \E c \in schema.enum : DeepEqual(v, c)
  /\ \A k \in DOMAIN schema \cap {"minLength", "minimum", "minItems", "minProperties"} :
       v.kind = Limited[k] => schema[k] <= Size(v)
  /\ \A k \in DOMAIN schema \cap {"maxLength", "maximum", "maxItems", "maxProperties"} :
       v.kind = Limited[k] => schema[k] >= Size(v)
  /\ Has(schema, "pattern") /\ v.kind = "string" => v.n \in schema.pattern
  /\ Has(schema, "required") /\ v.kind = "object" =>
       \A p \in schema.required : \E i \in DOMAIN v.keys : v.keys[i] = p
  /\ Has(schema, "uniqueItems") /\ schema.uniqueItems /\ v.kind = "array" =>
       \A i, j \in DOMAIN v.items : i # j => ~DeepEqual(v.items[i], v.items[j])
  /\ Has(schema, "oneOf") => \E i \in DOMAIN schema.oneOf :
       \A j \in DOMAIN schema.oneOf : Sat(schema.oneOf[j]) <=> i = j
  /\ Has(schema, "anyOf") => \E i \in DOMAIN schema.anyOf : Sat(schema.anyOf[i])
  /\ Has(schema, "allOf") => \A i \in DOMAIN schema.allOf : Sat(schema.allOf[i])
  /\ Has(schema, "not") => ~Sat(schema.not)
  /\ Has(schema, "if") =>
       IF Sat(schema.if) THEN Has(schema, "then") => Sat(schema.then)
                            ELSE Has(schema, "else") => Sat(schema.else)
  /\ Has(schema, "items") /\ v.kind = "array" =>
       \A i \in DOMAIN v.items : Items(v.items[i], schema.items)
  /\ v.kind = "object" =>
       \A i \in DOMAIN v.keys :
         /\ OfProperty(i) => Items(v.items[i], schema.properties[v.keys[i]])
         /\ Has(schema, "additionalProperties") /\ ~OfProperty(i) =>
              Items(v.items[i], schema.additionalProperties)

-----------------------------------------------------------------------------
\* The forms outside the subset, each of which the code treats in its own way: a
\* keyword beside $ref is not looked at;
KeywordBesideRef(s) == Has(s, "ref") /\ DOMAIN s # {"ref"}
\* the schema false under these is taken for an absent one;
FalseBranch(s) == \E k \in {"if", "then", "else", "items"} : Has(s, k) /\ ~Truthy(s, k)
\* a ref without "#" is looked up as it is written, from the root.
BareRef(s, name) == Has(s, "ref") /\ ~s.ref.hash /\ name[1] # ""

InSubset(schemas) ==
  \A n \in DOMAIN schemas : \A s \in Subschemas(schemas[n]) :
    ~KeywordBesideRef(s) /\ ~FalseBranch(s) /\ ~BareRef(s, n)

\* Equal objects whose keys come in another order, next to each other in an array.
RECURSIVE Reordered(_)
Reordered(v) ==
  \/ \E i, j \in DOMAIN v.items : v.items[i] # v.items[j] /\ DeepEqual(v.items[i], v.items[j])
  \/ \E i \in DOMAIN v.items : Reordered(v.items[i])

\* A reference that ends nowhere, is no pointer, or leads to a reference.
BadRefs(schemas) ==
  \E n \in DOMAIN schemas : \E s \in Subschemas(schemas[n]) :
    /\ Has(s, "ref")
    /\ \/ s.ref.anchor
       \/ \A m \in Lookup(DOMAIN schemas, n, s.ref) :
            \A t \in Walk(schemas[m], s.ref.pointer) : Has(t, "ref")
=============================================================================
