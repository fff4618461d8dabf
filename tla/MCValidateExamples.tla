------------------------- MODULE MCValidateExamples -------------------------
(* Instances of ValidateExamples for TLC, whose files hold the schemas and  *)
(* values of JsonSchema.  The files have what the repository has, a profile *)
(* that refers to its neighbour and one that refers one directory up,       *)
(* discovery that refers to sensor, and what it does not have yet: a circle *)
(* of references, a schema reached two ways and only through others, and    *)
(* two schemas of the same base name.  No example maps to conn.             *)
EXTENDS ValidateExamples, JsonSchemaMeaning

ac == <<"profiles", "ac">>
profile == <<"profiles", "metered">>
metered == <<"", "metered">>
discovery == <<"", "discovery">>
sensor == <<"", "sensor">>
conn == <<"", "conn-status">>
e1 == <<"examples", "ac-1">>
e2 == <<"examples", "discovery-1">>
e3 == <<"examples", "notes">>

MCSchemas == {ac, profile, metered, discovery, sensor, conn}
MCExamples == {e1, e2, e3}
\* e3 is not in the index yet.
MCTracked == <<e1, e2, conn, discovery, metered, sensor, ac, profile>>
MCTable == [e \in MCExamples |-> IF e = e1 THEN ac ELSE IF e = e2 THEN discovery ELSE NoSchema]
MCMapped == <<discovery, ac>>

MCRefs(t) == referencedSchemas(t)
MCJudge(t, n, docs) ==
  CHOOSE o \in {validateSchema(v, docs[n], docs, n, {}) : v \in {stripAnnotations(t)}} : TRUE

-----------------------------------------------------------------------------
Ref(dir, base, pointer) ==
  [ref |-> [dir |-> dir, base |-> base, hash |-> TRUE, anchor |-> FALSE, pointer |-> pointer]]
Bare(dir, base) == [ref |-> [Ref(dir, base, <<>>).ref EXCEPT !.hash = FALSE]]
Anchor(dir, base) == [ref |-> [Ref(dir, base, <<>>).ref EXCEPT !.anchor = TRUE]]
Type(t) == [type |-> {t}]

Sensor ==
  [defs |-> [d |-> [anyOf |-> <<Type("integer"), [type |-> {"array"}, items |-> Ref("", "discovery", <<>>)]>>],
             i |-> Type("integer"),
             twice |-> Ref("", "", <<"defs", "i">>),
             loop |-> Ref("", "", <<"defs", "loop">>),
             m |-> Ref("", "metered", <<>>)]]
Metered == [type |-> {"object"}, properties |-> [a |-> Type("integer")], additionalProperties |-> False]
SchemaTexts ==
  ac :> Ref("", "metered", <<>>) @@ profile :> Ref("..", "metered", <<>>) @@ metered :> Metered
  @@ discovery :> Ref("", "sensor", <<"defs", "d">>) @@ sensor :> Sensor @@ conn :> Type("null")

N(n) == Scalar("number", n)
Text(n) == Scalar("string", n)
Null == Scalar("null", 0)
A1 == Object(<<"a">>, <<N(2)>>)
AB == Object(<<"a", "b">>, <<N(2), Text(1)>>)
BA == Object(<<"b", "a">>, <<Text(1), N(2)>>)
Nested == Array(<<N(2), Array(<<N(0)>>)>>)

Right == SchemaTexts @@ e1 :> A1 @@ e2 :> Nested @@ e3 :> Null
Wrong == e1 :> BA @@ e2 :> Array(<<Text(1)>>) @@ e3 :> A1

-----------------------------------------------------------------------------
(* What e2 and its schema may be. *)
Values ==
  {Null, Scalar("boolean", 0), Scalar("boolean", 1), N(0), N(1), N(2), Text(0), Text(1), Text(2),
   Array(<<>>), Array(<<N(2)>>), Array(<<Text(1), N(2)>>), Array(<<N(2), N(2)>>), Array(<<AB, BA>>), Nested,
   Object(<<>>, <<>>), A1, AB, BA, Object(<<"b">>, <<N(1)>>),
   Object(<<"$comment", "a">>, <<Text(1), N(2)>>)}

Keywords ==
  {[const |-> N(2)], [const |-> AB], [enum |-> {N(2), Text(1), BA}],
   [minLength |-> 1], [maxLength |-> 1], [pattern |-> {0, 2}], [minimum |-> 1], [maximum |-> 1],
   [minItems |-> 1], [maxItems |-> 1], [uniqueItems |-> TRUE], [uniqueItems |-> FALSE],
   [required |-> {"a", "b"}], [minProperties |-> 1], [maxProperties |-> 1],
   [type |-> {"string", "null"}], [type |-> {"object"}, minimum |-> 4, required |-> {"b"}]}
  \cup {Type(t) : t \in {"object", "array", "string", "integer", "number", "boolean", "null"}}

Parts == {True, False, Type("integer"), [minimum |-> 2], [required |-> {"a"}]}
Combined ==
  UNION {{[oneOf |-> <<x, y>>], [anyOf |-> <<x, y>>], [allOf |-> <<x, y>>],
          [if |-> x, then |-> y], [if |-> x, else |-> y],
          [properties |-> [a |-> x], additionalProperties |-> y]} : x, y \in Parts}
  \cup {[items |-> x] : x \in Parts} \cup {[not |-> x] : x \in Parts}

References ==
  {Ref("", "sensor", <<"defs", k>>) : k \in {"i", "twice", "loop", "none"}}
  \cup {Ref("", "sensor", <<"none", "i">>), Anchor("", "sensor"), Bare("", "metered"), Ref("", "ac", <<>>),
        [anyOf |-> <<Type("integer"), [items |-> Ref("", "", <<>>), type |-> {"array"}]>>],
        [not |-> Ref("", "sensor", <<"defs", "i">>)],
        [ref |-> Ref("", "sensor", <<"defs", "i">>).ref, minimum |-> 2],
        [type |-> {"string"}, items |-> Ref("", "sensor", <<"defs", "none">>)]}

\* Any text of e2 under any schema, e1 under a ref without "#" from a directory;
\* or all files right, or one of them not, and one saved meanwhile.
MCInitially ==
  {[script |-> "lint:schema", saves |-> 0, text |-> [Right EXCEPT ![discovery] = s, ![e2] = v]] :
     s \in {True, False} \cup Keywords \cup Combined \cup References, v \in Values}
  \cup
  {[script |-> "lint:schema", saves |-> 0,
    text |-> [Right EXCEPT ![ac] = Bare("", "metered"), ![profile] = s, ![e1] = v]] :
     s \in {Type("integer"), True}, v \in {A1, N(2)}}
  \cup
  {[script |-> "lint", saves |-> 1, text |-> t] :
     t \in {Right} \cup {[Right EXCEPT ![f] = Wrong[f]] : f \in MCExamples}
           \cup {[Right EXCEPT ![f] = x] : f \in {sensor, e1, e2}, x \in {Broken, Absent}}}

MCTexts == {i.text[f] : i \in MCInitially, f \in {discovery, ac, profile, metered, conn}}
           \cup {Sensor, Ref("", "conn-status", <<>>)}
MCSaves == [f \in DOMAIN Right |->
  IF f \in DOMAIN Wrong THEN {Wrong[f], Right[f], Broken, Absent}
  ELSE {Right[f], True, Ref("", "conn-status", <<>>), Broken}]

\* What the lint said of an example under schemas within its subset is what JSON
\* Schema means: accepted if and only if it satisfies its schema, and thrown only
\* where a reference leads nowhere.  Items equal but for the order of their keys
\* are the one thing it does not see.
VerdictIsMeaning ==
  phase = "end" => \A e \in Examples :
    judged[e] # <<>> /\ InSubset(schemaByName) =>
      \A v \in {stripAnnotations(judged[e][1])}, n \in {SCHEMA_BY_PREFIX[e]} :
        ~Reordered(v) =>
        LET satisfied == Satisfies(v, schemaByName[n], schemaByName, n, {})
        IN  CASE judged[e][2] = "ok" -> satisfied
              [] judged[e][2] = "errors" -> ~satisfied
              [] judged[e][2] = "throws" -> BadRefs(schemaByName)
=============================================================================
