-------------------------- MODULE ValidateExamples --------------------------
(***************************************************************************)
(* "npm run lint": markdown lint, then scripts/validate-json.mjs, then     *)
(* scripts/validate-example-schemas.mjs, each only if the one before       *)
(* succeeded.  The last loads the schemas its table names and, by a work   *)
(* list, the schemas those refer to; then it checks each example against   *)
(* its schema.  Files are read one at a time, with an await before each,   *)
(* so an editor may save a file between two reads.                         *)
(*                                                                         *)
(* A file name is <<directory, base>>.  What a text that parses says is    *)
(* taken from the two constants Refs and Judge (see JsonSchema).           *)
(***************************************************************************)
EXTENDS SchemaNames, Integers, FiniteSets

CONSTANTS
  Schemas, Examples,  \* the JSON files in the repository
  Tracked,            \* those "git ls-files" lists, in its order
  SCHEMA_BY_PREFIX,   \* the schema each example's prefix maps to, or NoSchema
  NoSchema,
  Mapped,             \* the schemas the table names, sorted
  Texts,              \* the texts a schema may have that parse
  Broken, Absent,     \* a text that does not, and no file
  Refs(_),            \* the $refs of a schema's text that name a file
  Judge(_, _, _),     \* "ok", "errors" or "throws", for an example's text, the
                      \* name of its schema, and the schemas loaded
  Initially,          \* what to start from: the script that is run, the text of
                      \* every file, and how often one is saved meanwhile
  Saves,              \* Saves[f]: what f may be saved as
  Faults              \* subset of {"markdown"}: the other phase may fail

Files == Schemas \cup Examples
MappedSet == {Mapped[i] : i \in 1..Len(Mapped)}

ASSUME NamesAssumption ==
  Mapped \in Seq(Schemas) /\ Tracked \in Seq(Files) /\ NoSchema \notin Schemas
ASSUME TableAssumption ==
  SCHEMA_BY_PREFIX \in [Examples -> MappedSet \cup {NoSchema}]
ASSUME TextsAssumption ==
  /\ \A i \in Initially : DOMAIN i.text = Files
  /\ {i.text[n] : i \in Initially, n \in Schemas} \subseteq Texts \cup {Broken, Absent}
  /\ UNION {Saves[n] : n \in Schemas} \subseteq Texts \cup {Broken, Absent}
  /\ {i.script : i \in Initially} \subseteq {"lint", "lint:schema"}
  /\ {i.saves : i \in Initially} \subseteq Nat

VARIABLES
  script,        \* the npm script that was run
  text,          \* text[f]: what file f holds
  saves,         \* how often a file may still be saved
  phase,         \* "markdown", "json", "load", "examples" or "end"
  todo,          \* the files the phase has yet to look at
  hasError,
  pending,       \* pendingSchemaNames
  schemaByName,  \* the text each loaded schema had
  exit,
  reads,         \* history: reads[n], how often schema n was read
  parsed,        \* history: the files validate-json saw parse
  listed,        \* history: the examples walkJsonFiles found
  judged         \* history: judged[e], <<text, what Judge said of it>> or <<>>

lintVars == <<script, phase, todo, hasError, pending, schemaByName, exit,
              reads, parsed, listed, judged>>
vars == <<script, text, saves, phase, todo, hasError, pending, schemaByName, exit,
          reads, parsed, listed, judged>>

loaded == DOMAIN schemaByName

\* "npm run lint", or "npm run lint:schema", its last phase alone.
Init ==
  /\ \E i \in Initially : script = i.script /\ text = i.text /\ saves = i.saves
  /\ IF script = "lint" THEN phase = "markdown" /\ pending = <<>>
                        ELSE phase = "load" /\ pending = Mapped
  /\ todo = {} /\ hasError = FALSE
  /\ schemaByName = <<>>
  /\ exit = "running"
  /\ reads = [n \in Schemas |-> 0]
  /\ parsed = {} /\ listed = {}
  /\ judged = [e \in Examples |-> <<>>]

\* The orders in which a Set of names may be walked.
Orders(S) == {s \in [1..Cardinality(S) -> S] : {s[i] : i \in 1..Cardinality(S)} = S}

Parses(f) == text[f] \notin {Broken, Absent}

Exit(st) == phase' = "end" /\ exit' = st

-----------------------------------------------------------------------------
MarkdownLint ==
  /\ phase = "markdown"
  /\ \/ phase' = "json" /\ todo' = {Tracked[i] : i \in DOMAIN Tracked} /\ UNCHANGED exit
     \/ "markdown" \in Faults /\ Exit("failure") /\ UNCHANGED todo
  /\ UNCHANGED <<script, text, saves, hasError, pending, schemaByName, reads, parsed, listed, judged>>

\* validate-json.mjs: parse each tracked file in turn, go on after an error.
ParseFile ==
  /\ phase = "json"
  /\ \E i \in DOMAIN Tracked :
       LET f == Tracked[i] IN
       /\ f \in todo /\ \A j \in 1..(i - 1) : Tracked[j] \notin todo
       /\ todo' = todo \ {f}
       /\ hasError' = (hasError \/ ~Parses(f))
       /\ parsed' = parsed \cup (IF Parses(f) THEN {f} ELSE {})
  /\ UNCHANGED <<script, text, saves, phase, pending, schemaByName, exit, reads, listed, judged>>

\* Mutant of AllParsed: every schema in the repository is queued.
AllParsedQueuesAll ==
  /\ phase = "json" /\ todo = {}
  /\ \/ hasError /\ Exit("failure") /\ UNCHANGED pending
     \/ ~hasError /\ phase' = "load" /\ pending' \in Orders(Schemas) /\ UNCHANGED exit
  /\ UNCHANGED <<script, text, saves, todo, hasError, schemaByName, reads, parsed, listed, judged>>

\* Its exit status; on success the next program starts with the table's schemas.
AllParsed ==
  /\ phase = "json" /\ todo = {}
  /\ \/ hasError /\ Exit("failure") /\ UNCHANGED pending
     \/ ~hasError /\ phase' = "load" /\ pending' = Mapped /\ UNCHANGED exit
  /\ UNCHANGED <<script, text, saves, todo, hasError, schemaByName, reads, parsed, listed, judged>>

-----------------------------------------------------------------------------
\* referencedSchemaNames: the files named by the refs in text t of schema n.
Targets(n, t) == {Join(n, r) : r \in Refs(t)}

ASSUME RefsAssumption ==
  \A n \in Schemas, t \in Texts :
    IsFiniteSet(Targets(n, t)) /\ \A r \in Refs(t) : r.base # ""

\* Mutant of SkipLoaded: the name stays at the head of the queue.
SkipLoadedPeeks ==
  /\ phase = "load" /\ pending # <<>> /\ Head(pending) \in loaded
  /\ UNCHANGED vars

\* A name queued twice: its schema is loaded already.
SkipLoaded ==
  /\ phase = "load" /\ pending # <<>> /\ Head(pending) \in loaded
  /\ pending' = Tail(pending)
  /\ UNCHANGED <<script, text, saves, phase, todo, hasError, schemaByName, exit,
                 reads, parsed, listed, judged>>

\* schemaByName.set(n, ...)
Load(n) ==
  /\ schemaByName' = [m \in loaded \cup {n} |-> IF m = n THEN text[n] ELSE schemaByName[m]]
  /\ reads' = [reads EXCEPT ![n] = @ + 1]
  /\ UNCHANGED <<script, text, saves, phase, todo, hasError, exit, parsed, listed, judged>>

\* Mutant of LoadSchema: schemaByName is not asked again when a schema's turn
\* comes, so one queued twice is read twice.
LoadSchemaAgain ==
  /\ phase = "load" /\ pending # <<>>
  /\ LET n == Head(pending) IN
     /\ n \in Schemas /\ Parses(n)
     /\ Load(n)
     /\ \E s \in Orders(Targets(n, text[n]) \ (loaded \cup {n})) : pending' = Tail(pending) \o s

\* Mutant of LoadSchema: only the table's own schemas have their refs followed.
LoadSchemaShallow ==
  /\ phase = "load" /\ pending # <<>>
  /\ LET n == Head(pending) IN
     /\ n \in Schemas \ loaded /\ Parses(n)
     /\ Load(n)
     /\ \E s \in Orders(IF n \in MappedSet THEN Targets(n, text[n]) \ (loaded \cup {n}) ELSE {}) :
          pending' = Tail(pending) \o s

\* Read the schema and queue the schemas it refers to that are not loaded yet.
LoadSchema ==
  /\ phase = "load" /\ pending # <<>>
  /\ LET n == Head(pending) IN
     /\ n \in Schemas \ loaded /\ Parses(n)
     /\ Load(n)
     /\ \E s \in Orders(Targets(n, text[n]) \ (loaded \cup {n})) : pending' = Tail(pending) \o s

\* loadJson rejects: main's catch exits with 1.
LoadFails ==
  /\ phase = "load" /\ pending # <<>>
  /\ LET n == Head(pending) IN n \notin loaded /\ ~(n \in Schemas /\ Parses(n))
  /\ Exit("failure")
  /\ UNCHANGED <<script, text, saves, todo, hasError, pending, schemaByName, reads, parsed, listed, judged>>

\* The walk over examples/ finds the files that are there.
AllLoaded ==
  /\ phase = "load" /\ pending = <<>>
  /\ phase' = "examples"
  /\ listed' = {e \in Examples : text[e] # Absent} /\ todo' = listed'
  /\ UNCHANGED <<script, text, saves, hasError, pending, schemaByName, exit, reads, parsed, judged>>

-----------------------------------------------------------------------------
\* Mutant of SkipExample: an example no schema is known for is an error.
SkipExampleComplains ==
  /\ phase = "examples"
  /\ \E e \in todo : SCHEMA_BY_PREFIX[e] = NoSchema /\ todo' = todo \ {e}
  /\ hasError' = TRUE
  /\ UNCHANGED <<script, text, saves, phase, pending, schemaByName, exit, reads, parsed, listed, judged>>

\* schemaForExample knows no schema: the example is passed over.
SkipExample ==
  /\ phase = "examples"
  /\ \E e \in todo : SCHEMA_BY_PREFIX[e] = NoSchema /\ todo' = todo \ {e}
  /\ UNCHANGED <<script, text, saves, phase, hasError, pending, schemaByName, exit,
                 reads, parsed, listed, judged>>

Verdict(e) == Judge(text[e], SCHEMA_BY_PREFIX[e], schemaByName)

\* Mutant of ValidateExample: the last example decides.
ValidateExampleForgets ==
  /\ phase = "examples"
  /\ \E e \in todo :
       /\ SCHEMA_BY_PREFIX[e] # NoSchema /\ Parses(e)
       /\ \E v \in {Verdict(e)} \ {"throws"} :
            /\ hasError' = (v # "ok")
            /\ judged' = [judged EXCEPT ![e] = <<text[e], v>>]
       /\ todo' = todo \ {e}
  /\ UNCHANGED <<script, text, saves, phase, pending, schemaByName, exit, reads, parsed, listed>>

\* Check an example against its schema, go on after an error.
ValidateExample ==
  /\ phase = "examples"
  /\ \E e \in todo :
       /\ SCHEMA_BY_PREFIX[e] # NoSchema /\ Parses(e)
       /\ \E v \in {Verdict(e)} \ {"throws"} :
            /\ hasError' = (hasError \/ v # "ok")
            /\ judged' = [judged EXCEPT ![e] = <<text[e], v>>]
       /\ todo' = todo \ {e}
  /\ UNCHANGED <<script, text, saves, phase, pending, schemaByName, exit, reads, parsed, listed>>

\* loadJson or validateSchema throws, and the examples after this one are not
\* looked at.
ExampleThrows ==
  /\ phase = "examples"
  /\ \E e \in todo :
       /\ SCHEMA_BY_PREFIX[e] # NoSchema
       /\ \/ ~Parses(e) /\ UNCHANGED judged
          \/ /\ Parses(e) /\ Verdict(e) = "throws"
             /\ judged' = [judged EXCEPT ![e] = <<text[e], "throws">>]
  /\ Exit("failure")
  /\ UNCHANGED <<script, text, saves, todo, hasError, pending, schemaByName, reads, parsed, listed>>

AllValidated ==
  /\ phase = "examples" /\ todo = {}
  /\ Exit(IF hasError THEN "failure" ELSE "success")
  /\ UNCHANGED <<script, text, saves, todo, hasError, pending, schemaByName, reads, parsed, listed, judged>>

-----------------------------------------------------------------------------
\* Someone saves or removes a file.
Edit ==
  /\ phase # "end" /\ saves > 0
  /\ saves' = saves - 1
  /\ \E f \in Files : \E t \in Saves[f] : t # text[f] /\ text' = [text EXCEPT ![f] = t]
  /\ UNCHANGED lintVars

Lint ==
  \/ MarkdownLint \/ ParseFile \/ AllParsed
  \/ SkipLoaded \/ LoadSchema \/ LoadFails \/ AllLoaded
  \/ SkipExample \/ ValidateExample \/ ExampleThrows \/ AllValidated

Ended == phase = "end" /\ UNCHANGED vars
Next == Lint \/ Edit \/ Ended

\* The programs run to their end; nobody is obliged to edit.
Spec == Init /\ [][Next]_vars /\ WF_vars(Lint)
-----------------------------------------------------------------------------
\* While examples are checked, every $ref of a loaded schema resolves to the very
\* file it names, which is loaded: preloading and resolving agree on names, and
\* the fallback never picks another file that happens to have the same name.  Not
\* so a ref without "#" in a subdirectory, which the two take for different files.
RefsResolve ==
  phase = "examples" =>
    /\ MappedSet \subseteq loaded
    /\ \A n \in loaded : \A r \in Refs(schemaByName[n]) :
         r.hash \/ n[1] = "" => Lookup(loaded, n, r) = {Join(n, r)}

\* Only schemas the table names, and those they refer to directly or through
\* others, are ever read: the loaded set is in every set closed under refs.
LoadsNothingElse ==
  LET Edges == {<<n, Targets(n, schemaByName[n]) \cap Schemas>> : n \in loaded} IN
  \A C \in SUBSET Schemas :
    MappedSet \subseteq C /\ (\A e \in Edges : e[1] \in C => e[2] \subseteq C) => loaded \subseteq C

\* However often a schema is queued, it is read once, so that all examples are
\* checked against one version of it even while someone edits it.
ReadOnce == \A n \in Schemas : reads[n] <= 1

\* Success means that validate-json saw every tracked file parse and that every
\* example the walk found was judged, without errors, against the loaded schemas:
\* an error in one file is not lost to a later one.
SuccessMeansChecked ==
  exit = "success" =>
    /\ script = "lint" => \A i \in DOMAIN Tracked : Tracked[i] \in parsed
    /\ \A e \in listed : SCHEMA_BY_PREFIX[e] # NoSchema =>
         judged[e] # <<>> /\ judged[e][2] = "ok"
         /\ Judge(judged[e][1], SCHEMA_BY_PREFIX[e], schemaByName) = "ok"

\* What a phase may fail for: a file validate-json saw and could not parse; a
\* schema that cannot be read, which the table or a loaded schema asks for; an
\* example with a schema that cannot be read, or was judged not to be ok.
Wanted == MappedSet \cup UNION {Targets(n, schemaByName[n]) : n \in loaded}
JudgedBad(e) ==
  judged[e] # <<>> /\ Judge(judged[e][1], SCHEMA_BY_PREFIX[e], schemaByName) # "ok"
Complaint ==
  CASE phase = "markdown" -> "markdown" \in Faults
    [] phase = "json"     -> \E i \in DOMAIN Tracked : Tracked[i] \notin todo \cup parsed
    [] phase = "load"     -> \E n \in Wanted \ loaded : ~(n \in Schemas /\ Parses(n))
    [] phase = "examples" -> \E e \in Examples : SCHEMA_BY_PREFIX[e] # NoSchema
                               /\ (JudgedBad(e)' \/ (e \in todo /\ ~Parses(e)))
    [] OTHER              -> FALSE

\* No false alarm: lint fails only over a file that gave it a reason, whatever is
\* saved meanwhile.  The error flag outlives the file that raised it, and a schema
\* that cannot be read is one an example may need, not any file in the repository.
FailureIsEarned == [][exit = "running" /\ exit' = "failure" => Complaint]_vars

\* lint ends: references in a circle do not keep the work list busy for ever.
Ends == <>(exit # "running")

\* "The lint baseline checks repository markdown and validates JSON files for
\* parseable JSON syntax.  It does not perform JSON Schema semantic validation":
\* with parseable files and clean markdown it does not fail.
OnlySyntaxMatters ==
  exit = "failure" /\ "markdown" \notin Faults => \E f \in Files : ~Parses(f)
=============================================================================
