----------------------- MODULE ValidateExamplesProofs -----------------------
(***************************************************************************)
(* Proofs about ValidateExamples for any schemas, references and verdicts, *)
(* circles included.  The work-list invariant LInv says that nothing is    *)
(* forgotten (a reference of a loaded schema is loaded or queued), that    *)
(* nothing is made up (what is loaded or queued is in every set closed     *)
(* under refs) and that reads counts exactly the loaded schemas.  The      *)
(* invariant SInv says that nothing is skipped: what a phase is through    *)
(* with was judged, and an error among it is remembered.                   *)
(***************************************************************************)
EXTENDS ValidateExamples, FiniteSetTheorems, SequenceTheorems, TLAPS

Names == Schemas \cup UNION {Targets(n, t) : n \in Schemas, t \in Texts}
Elements(q) == {q[i] : i \in 1..Len(q)}
Queued == Elements(pending)
ClosedUnderRefs(C) ==
  MappedSet \subseteq C /\ \A n \in C \cap loaded : Targets(n, schemaByName[n]) \cap Schemas \subseteq C

Types ==
  /\ DOMAIN text = Files /\ \A n \in Schemas : text[n] \in Texts \cup {Broken, Absent}
  /\ pending \in Seq(Names)
  /\ loaded \in SUBSET Schemas /\ \A n \in loaded : schemaByName[n] \in Texts
  /\ phase \in {"markdown", "json", "load", "examples", "end"}

NothingForgotten ==
  /\ phase \in {"markdown", "json"} => loaded = {}
  /\ phase \in {"load", "examples"} =>
       /\ MappedSet \subseteq loaded \cup Queued
       /\ \A n \in loaded : Targets(n, schemaByName[n]) \subseteq loaded \cup Queued
  /\ phase = "examples" => pending = <<>>

NothingMadeUp ==
  \A C \in SUBSET Schemas :
    ClosedUnderRefs(C) => loaded \subseteq C /\ Queued \cap Schemas \subseteq C

ReadsCounted == reads = [n \in Schemas |-> IF n \in loaded THEN 1 ELSE 0]

LInv == Types /\ NothingForgotten /\ NothingMadeUp /\ ReadsCounted

-----------------------------------------------------------------------------
\* Dequeuing takes away only the name at the head.
LEMMA DequeuedNames ==
  ASSUME NEW S, NEW s \in Seq(S), s # <<>>
  PROVE  /\ Head(s) \in S
         /\ Tail(s) \in Seq(S)
         /\ Elements(s) = {Head(s)} \cup Elements(Tail(s))
<1>1. /\ Head(s) \in S /\ Tail(s) \in Seq(S) /\ Len(Tail(s)) = Len(s) - 1
      /\ \A i \in 1..Len(Tail(s)) : Tail(s)[i] = s[i + 1]
  BY HeadTailProperties
<1>2. Len(s) \in Nat /\ Len(s) >= 1 /\ Head(s) = s[1]
  BY EmptySeq
<1>3. ASSUME NEW i \in 1..Len(s)
      PROVE  s[i] \in {Head(s)} \cup {Tail(s)[j] : j \in 1..Len(Tail(s))}
  <2>1. CASE i = 1
    BY <2>1, <1>2
  <2>2. CASE i # 1
    <3>1. i - 1 \in 1..Len(Tail(s)) /\ (i - 1) + 1 = i
      BY <2>2, <1>1, <1>2
    <3>2. Tail(s)[i - 1] = s[(i - 1) + 1]
      BY <3>1, <1>1
    <3>. QED
      BY <3>1, <3>2
  <2>. QED
    BY <2>1, <2>2
<1>4. ASSUME NEW i \in 1..Len(Tail(s))
      PROVE  Tail(s)[i] \in {s[j] : j \in 1..Len(s)}
  <2>1. i + 1 \in 1..Len(s) /\ Tail(s)[i] = s[i + 1]
    BY <1>1, <1>2
  <2>. QED
    BY <2>1
<1>5. Head(s) \in {s[j] : j \in 1..Len(s)}
  BY <1>2
<1>. QED
  BY <1>1, <1>3, <1>4, <1>5 DEF Elements

\* Queuing adds exactly the names of the second sequence.
LEMMA EnqueuedNames ==
  ASSUME NEW S, NEW s \in Seq(S), NEW t \in Seq(S)
  PROVE  /\ s \o t \in Seq(S)
         /\ Elements(s \o t) = Elements(s) \cup Elements(t)
<1>1. /\ s \o t \in Seq(S) /\ Len(s \o t) = Len(s) + Len(t)
      /\ \A i \in 1..(Len(s) + Len(t)) : (s \o t)[i] = IF i <= Len(s) THEN s[i] ELSE t[i - Len(s)]
  BY ConcatProperties
<1>2. Len(s) \in Nat /\ Len(t) \in Nat
  OBVIOUS
<1>3. ASSUME NEW i \in 1..Len(s \o t)
      PROVE  (s \o t)[i] \in {s[j] : j \in 1..Len(s)} \cup {t[j] : j \in 1..Len(t)}
  <2>1. CASE i <= Len(s)
    BY <2>1, <1>1, <1>2
  <2>2. CASE ~(i <= Len(s))
    <3>1. i - Len(s) \in 1..Len(t)
      BY <2>2, <1>1, <1>2
    <3>2. (s \o t)[i] = t[i - Len(s)]
      BY <2>2, <1>1, <1>2
    <3>. QED
      BY <3>1, <3>2
  <2>. QED
    BY <2>1, <2>2
<1>4. ASSUME NEW i \in 1..Len(s)
      PROVE  s[i] \in {(s \o t)[j] : j \in 1..Len(s \o t)}
  <2>1. i \in 1..Len(s \o t) /\ (s \o t)[i] = s[i]
    BY <1>1, <1>2
  <2>. QED
    BY <2>1
<1>5. ASSUME NEW i \in 1..Len(t)
      PROVE  t[i] \in {(s \o t)[j] : j \in 1..Len(s \o t)}
  <2>1. i + Len(s) \in 1..Len(s \o t) /\ ~(i + Len(s) <= Len(s)) /\ (i + Len(s)) - Len(s) = i
    BY <1>1, <1>2
  <2>2. (s \o t)[i + Len(s)] = t[i]
    BY <2>1, <1>1
  <2>. QED
    BY <2>1, <2>2
<1>. QED
  BY <1>1, <1>3, <1>4, <1>5 DEF Elements

\* An order of a finite set lists its names and no others.
LEMMA OrderLists ==
  ASSUME NEW T, IsFiniteSet(T), NEW s \in Orders(T)
  PROVE  s \in Seq(T) /\ Elements(s) = T
<1>1. Cardinality(T) \in Nat
  BY FS_CardinalityType
<1>2. s \in [1..Cardinality(T) -> T] /\ {s[i] : i \in 1..Cardinality(T)} = T
  BY DEF Orders
<1>3. s \in Seq(T) /\ Len(s) = Cardinality(T)
  BY <1>1, <1>2
<1>. QED
  BY <1>2, <1>3 DEF Elements

-----------------------------------------------------------------------------
LEMMA LInvInit == Init => LInv
<1>. SUFFICES ASSUME Init PROVE LInv
  OBVIOUS
<1>1. /\ loaded = {} /\ reads = [n \in Schemas |-> 0]
      /\ \/ phase = "markdown" /\ pending = <<>>
         \/ phase = "load" /\ pending = Mapped
  BY DEF Init, loaded
<1>2. PICK i \in Initially : text = i.text
  BY DEF Init
<1>3. DOMAIN text = Files /\ \A n \in Schemas : text[n] \in Texts \cup {Broken, Absent}
  BY <1>2, TextsAssumption
<1>4. Mapped \in Seq(Names) /\ <<>> \in Seq(Names)
  BY NamesAssumption DEF Names
<1>5. Queued = {} \/ (phase = "load" /\ Queued = MappedSet)
  BY <1>1 DEF Queued, Elements, MappedSet
<1>6. phase = "load" => Queued = MappedSet
  BY <1>1 DEF Queued, Elements, MappedSet
<1>. QED
  BY <1>1, <1>3, <1>4, <1>5, <1>6
  DEF LInv, Types, NothingForgotten, NothingMadeUp, ReadsCounted, ClosedUnderRefs

\* The steps that neither load a schema nor touch the queue, and do not begin
\* the examples, keep LInv.
LEMMA LInvElsewhere ==
  ASSUME LInv, pending' = pending, schemaByName' = schemaByName, reads' = reads, text' = text,
         phase' \in {"markdown", "json", "load", "examples", "end"},
         phase' \in {"load", "examples"} => phase' = phase \/ (phase = "load" /\ pending = <<>>),
         phase' \in {"markdown", "json"} => phase \in {"markdown", "json"}
  PROVE  LInv'
<1>1. Queued' = Queued /\ loaded' = loaded
  BY DEF Queued, loaded
<1>2. Types'
  BY <1>1 DEF LInv, Types
<1>3. NothingForgotten'
  BY <1>1 DEF LInv, NothingForgotten
<1>4. NothingMadeUp'
  BY <1>1 DEF LInv, NothingMadeUp, ClosedUnderRefs
<1>5. ReadsCounted'
  BY <1>1 DEF LInv, ReadsCounted
<1>. QED
  BY <1>2, <1>3, <1>4, <1>5 DEF LInv

\* After validate-json the table's schemas are queued and nothing is loaded yet.
LEMMA LInvQueueTable ==
  ASSUME LInv, loaded = {}, schemaByName' = schemaByName, reads' = reads, text' = text,
         pending' = Mapped, phase' = "load"
  PROVE  LInv'
<1>1. Mapped \in Seq(Names)
  BY NamesAssumption DEF Names
<1>2. Queued' = MappedSet /\ loaded' = {}
  BY DEF Queued, Elements, MappedSet, loaded
<1>. QED
  BY <1>1, <1>2 DEF LInv, Types, NothingForgotten, NothingMadeUp, ReadsCounted, ClosedUnderRefs

LEMMA LInvSkip == LInv /\ SkipLoaded => LInv'
<1>. SUFFICES ASSUME LInv, SkipLoaded PROVE LInv'
  OBVIOUS
<1>1. /\ phase = "load" /\ pending # <<>> /\ Head(pending) \in loaded /\ pending' = Tail(pending)
      /\ phase' = phase /\ schemaByName' = schemaByName /\ reads' = reads /\ text' = text
  BY DEF SkipLoaded
<1>2. loaded' = loaded
  BY <1>1 DEF loaded
<1>3. pending \in Seq(Names)
  BY DEF LInv, Types
<1>4. Tail(pending) \in Seq(Names) /\ Queued = {Head(pending)} \cup Queued'
  BY <1>1, <1>3, DequeuedNames DEF Queued
<1>5. Types'
  BY <1>1, <1>2, <1>4 DEF LInv, Types
<1>6. NothingForgotten'
  BY <1>1, <1>2, <1>4 DEF LInv, NothingForgotten
<1>7. NothingMadeUp'
  BY <1>1, <1>2, <1>4 DEF LInv, NothingMadeUp, ClosedUnderRefs
<1>8. ReadsCounted'
  BY <1>1, <1>2 DEF LInv, ReadsCounted
<1>. QED
  BY <1>5, <1>6, <1>7, <1>8 DEF LInv

LEMMA LInvLoad == LInv /\ LoadSchema => LInv'
<1>. SUFFICES ASSUME LInv, LoadSchema PROVE LInv'
  OBVIOUS
<1>. DEFINE n == Head(pending)
            new == Targets(n, text[n]) \ (loaded \cup {n})
<1>1. /\ phase = "load" /\ phase' = phase /\ pending # <<>> /\ text' = text
      /\ n \in Schemas \ loaded /\ Parses(n)
      /\ schemaByName' = [m \in loaded \cup {n} |-> IF m = n THEN text[n] ELSE schemaByName[m]]
      /\ reads' = [reads EXCEPT ![n] = @ + 1]
  BY DEF LoadSchema, Load
<1>2. PICK s \in Orders(new) : pending' = Tail(pending) \o s
  BY DEF LoadSchema
<1>3. /\ loaded' = loaded \cup {n} /\ schemaByName'[n] = text[n]
      /\ \A m \in loaded : schemaByName'[m] = schemaByName[m]
  BY <1>1 DEF loaded
<1>4. text[n] \in Texts
  BY <1>1 DEF LInv, Types, Parses
<1>5. IsFiniteSet(new)
  BY <1>1, <1>4, RefsAssumption, FS_Difference
<1>6. s \in Seq(new) /\ Elements(s) = new
  BY <1>5, OrderLists
<1>7. new \subseteq Names
  BY <1>1, <1>4 DEF Names
<1>8. s \in Seq(Names)
  BY <1>6, <1>7
<1>9. pending \in Seq(Names)
  BY DEF LInv, Types
<1>10. /\ Tail(pending) \in Seq(Names)
       /\ Queued = {n} \cup Elements(Tail(pending))
  BY <1>1, <1>9, DequeuedNames DEF Queued
<1>11. pending' \in Seq(Names) /\ Queued' = Elements(Tail(pending)) \cup new
  <2>1. /\ Tail(pending) \o s \in Seq(Names)
        /\ Elements(Tail(pending) \o s) = Elements(Tail(pending)) \cup Elements(s)
    BY <1>8, <1>10, EnqueuedNames
  <2>2. Queued' = Elements(Tail(pending) \o s)
    BY <1>2 DEF Queued
  <2>. QED
    BY <1>2, <1>6, <2>1, <2>2
<1>12. Types'
  BY <1>1, <1>3, <1>4, <1>11 DEF LInv, Types
<1>13. NothingForgotten'
  <2>1. loaded \cup Queued \subseteq loaded' \cup Queued'
    BY <1>3, <1>10, <1>11
  <2>2. Targets(n, text[n]) \subseteq loaded' \cup Queued'
    BY <1>3, <1>11
  <2>3. /\ MappedSet \subseteq loaded \cup Queued
        /\ \A m \in loaded : Targets(m, schemaByName[m]) \subseteq loaded \cup Queued
    BY <1>1 DEF LInv, NothingForgotten
  <2>4. \A m \in loaded' : Targets(m, schemaByName'[m]) \subseteq loaded' \cup Queued'
    <3>. SUFFICES ASSUME NEW m \in loaded'
                  PROVE  Targets(m, schemaByName'[m]) \subseteq loaded' \cup Queued'
      OBVIOUS
    <3>1. CASE m = n
      BY <3>1, <2>2, <1>3
    <3>2. CASE m \in loaded
      <4>1. schemaByName'[m] = schemaByName[m]
        BY <3>2, <1>3
      <4>. QED
        BY <3>2, <4>1, <2>1, <2>3
    <3>. QED
      BY <3>1, <3>2, <1>3
  <2>. QED
    BY <1>1, <2>1, <2>3, <2>4 DEF NothingForgotten
<1>14. NothingMadeUp'
  <2>. SUFFICES ASSUME NEW C \in SUBSET Schemas, ClosedUnderRefs(C)'
                PROVE  loaded' \subseteq C /\ Queued' \cap Schemas \subseteq C
    BY DEF NothingMadeUp
  <2>1. /\ MappedSet \subseteq C
        /\ \A m \in C \cap loaded' : Targets(m, schemaByName'[m]) \cap Schemas \subseteq C
    BY DEF ClosedUnderRefs
  <2>2. \A m \in C \cap loaded : Targets(m, schemaByName[m]) \cap Schemas \subseteq C
    <3>. SUFFICES ASSUME NEW m \in C \cap loaded
                  PROVE  Targets(m, schemaByName[m]) \cap Schemas \subseteq C
      OBVIOUS
    <3>1. m \in C \cap loaded' /\ schemaByName'[m] = schemaByName[m]
      BY <1>3
    <3>. QED
      BY <3>1, <2>1
  <2>3. loaded \subseteq C /\ Queued \cap Schemas \subseteq C
    BY <2>1, <2>2 DEF LInv, NothingMadeUp, ClosedUnderRefs
  <2>4. n \in C
    BY <2>3, <1>1, <1>10
  <2>5. Targets(n, text[n]) \cap Schemas \subseteq C
    <3>1. n \in C \cap loaded' /\ schemaByName'[n] = text[n]
      BY <2>4, <1>3
    <3>. QED
      BY <3>1, <2>1
  <2>. QED
    BY <1>3, <1>10, <1>11, <2>3, <2>4, <2>5
<1>15. ReadsCounted'
  <2>1. reads = [m \in Schemas |-> IF m \in loaded THEN 1 ELSE 0]
    BY DEF LInv, ReadsCounted
  <2>. QED
    BY <2>1, <1>1, <1>3 DEF ReadsCounted
<1>. QED
  BY <1>12, <1>13, <1>14, <1>15 DEF LInv

LEMMA LInvEdit == LInv /\ Edit => LInv'
<1>. SUFFICES ASSUME LInv, Edit PROVE LInv'
  OBVIOUS
<1>1. /\ pending' = pending /\ schemaByName' = schemaByName /\ reads' = reads /\ phase' = phase
      /\ Queued' = Queued /\ loaded' = loaded
  BY DEF Edit, lintVars, Queued, loaded
<1>2. PICK f \in Files : \E t \in Saves[f] : text' = [text EXCEPT ![f] = t]
  BY DEF Edit
<1>3. PICK t \in Saves[f] : text' = [text EXCEPT ![f] = t]
  BY <1>2
<1>4. DOMAIN text' = Files
  BY <1>3 DEF LInv, Types
<1>5. \A n \in Schemas : text'[n] \in Texts \cup {Broken, Absent}
  <2>. SUFFICES ASSUME NEW n \in Schemas PROVE text'[n] \in Texts \cup {Broken, Absent}
    OBVIOUS
  <2>1. CASE n = f
    <3>1. text'[n] = t
      BY <1>3, <2>1 DEF LInv, Types
    <3>2. Saves[n] \subseteq Texts \cup {Broken, Absent}
      BY TextsAssumption
    <3>. QED
      BY <2>1, <3>1, <3>2
  <2>2. CASE n # f
    <3>1. text'[n] = text[n]
      BY <1>3, <2>2 DEF LInv, Types, Files
    <3>. QED
      BY <3>1 DEF LInv, Types
  <2>. QED
    BY <2>1, <2>2
<1>6. Types'
  BY <1>1, <1>4, <1>5 DEF LInv, Types
<1>7. NothingForgotten'
  BY <1>1 DEF LInv, NothingForgotten
<1>8. NothingMadeUp'
  BY <1>1 DEF LInv, NothingMadeUp, ClosedUnderRefs
<1>9. ReadsCounted'
  BY <1>1 DEF LInv, ReadsCounted
<1>. QED
  BY <1>6, <1>7, <1>8, <1>9 DEF LInv

LEMMA LInvStep == LInv /\ [Next]_vars => LInv'
<1>. SUFFICES ASSUME LInv, [Next]_vars PROVE LInv'
  OBVIOUS
<1>1. phase \in {"markdown", "json", "load", "examples", "end"}
  BY DEF LInv, Types
<1>2. CASE SkipLoaded
  BY <1>2, LInvSkip
<1>3. CASE LoadSchema
  BY <1>3, LInvLoad
<1>4. CASE AllParsed
  <2>1. loaded = {} /\ schemaByName' = schemaByName /\ reads' = reads /\ text' = text
    BY <1>4 DEF AllParsed, LInv, NothingForgotten
  <2>2. CASE hasError
    <3>1. pending' = pending /\ phase' = "end"
      BY <1>4, <2>2 DEF AllParsed, Exit
    <3>. QED
      BY <2>1, <3>1, LInvElsewhere
  <2>3. CASE ~hasError
    BY <1>4, <2>1, <2>3, LInvQueueTable DEF AllParsed
  <2>. QED
    BY <2>2, <2>3
<1>5. CASE MarkdownLint \/ ParseFile
  <2>1. /\ pending' = pending /\ schemaByName' = schemaByName /\ reads' = reads /\ text' = text
        /\ phase \in {"markdown", "json"} /\ phase' \in {"json", "end"}
    BY <1>5 DEF MarkdownLint, ParseFile, Exit
  <2>. QED
    BY <2>1, LInvElsewhere
<1>6. CASE LoadFails \/ AllLoaded \/ SkipExample \/ ValidateExample \/ ExampleThrows
           \/ AllValidated
  <2>1. /\ pending' = pending /\ schemaByName' = schemaByName /\ reads' = reads /\ text' = text
        /\ \/ phase' = "end"
           \/ phase = "examples" /\ phase' = phase
           \/ phase = "load" /\ pending = <<>> /\ phase' = "examples"
    BY <1>6 DEF LoadFails, AllLoaded, SkipExample, ValidateExample, ExampleThrows,
                AllValidated, Exit
  <2>. QED
    BY <2>1, LInvElsewhere
<1>7. CASE Edit
  BY <1>7, LInvEdit
<1>8. CASE Ended \/ UNCHANGED vars
  <2>1. pending' = pending /\ schemaByName' = schemaByName /\ reads' = reads /\ text' = text
        /\ phase' = phase
    BY <1>8 DEF Ended, vars
  <2>. QED
    BY <1>1, <2>1, LInvElsewhere
<1>. QED
  BY <1>2, <1>3, <1>4, <1>5, <1>6, <1>7, <1>8 DEF Next, Lint

THEOREM LoaderInvariant == Spec => []LInv
<1>1. Init => LInv
  BY LInvInit
<1>2. LInv /\ [Next]_vars => LInv'
  BY LInvStep
<1>. QED
  BY <1>1, <1>2, PTL DEF Spec

\* RefsResolve: when the examples are checked, every reference of a loaded schema
\* resolves to the loaded file it names, whatever schemas refer to each other.
THEOREM EveryRefResolves == Spec => []RefsResolve
<1>1. LInv => RefsResolve
  <2>. SUFFICES ASSUME LInv, phase = "examples"
                PROVE  /\ MappedSet \subseteq loaded
                       /\ \A n \in loaded : \A r \in Refs(schemaByName[n]) :
                            r.hash \/ n[1] = "" => Lookup(loaded, n, r) = {Join(n, r)}
    BY DEF RefsResolve
  <2>1. Queued = {}
    BY DEF LInv, NothingForgotten, Queued, Elements
  <2>2. MappedSet \subseteq loaded /\ \A n \in loaded : Targets(n, schemaByName[n]) \subseteq loaded
    BY <2>1 DEF LInv, NothingForgotten
  <2>3. ASSUME NEW n \in loaded, NEW r \in Refs(schemaByName[n]), r.hash \/ n[1] = ""
        PROVE  Lookup(loaded, n, r) = {Join(n, r)}
    <3>1. Join(n, r) \in loaded
      BY <2>2 DEF Targets
    <3>2. CASE r.hash
      <4>1. r.base # ""
        BY RefsAssumption DEF LInv, Types
      <4>. QED
        BY <3>1, <3>2, <4>1 DEF Lookup
    <3>3. CASE ~r.hash
      BY <2>3, <3>1, <3>3 DEF Lookup, Join, AsWritten
    <3>. QED
      BY <3>2, <3>3
  <2>. QED
    BY <2>2, <2>3
<1>. QED
  BY <1>1, LoaderInvariant, PTL

\* LoadsNothingElse: only schemas reachable from the table are ever read.
THEOREM OnlyReachableLoaded == Spec => []LoadsNothingElse
<1>1. LInv => LoadsNothingElse
  <2>. DEFINE Edges == {<<n, Targets(n, schemaByName[n]) \cap Schemas>> : n \in loaded}
  <2>. SUFFICES ASSUME LInv, NEW C \in SUBSET Schemas, MappedSet \subseteq C,
                       \A e \in Edges : e[1] \in C => e[2] \subseteq C
                PROVE  loaded \subseteq C
    BY DEF LoadsNothingElse
  <2>1. ASSUME NEW n \in C \cap loaded
        PROVE  Targets(n, schemaByName[n]) \cap Schemas \subseteq C
    <3>1. <<n, Targets(n, schemaByName[n]) \cap Schemas>> \in Edges
      OBVIOUS
    <3>. HIDE DEF Edges
    <3>2. <<n, Targets(n, schemaByName[n]) \cap Schemas>>[1] \in C
      OBVIOUS
    <3>. QED
      BY <3>1, <3>2
  <2>. QED
    BY <2>1 DEF LInv, NothingMadeUp, ClosedUnderRefs
<1>. QED
  BY <1>1, LoaderInvariant, PTL

\* ReadOnce: no schema is read a second time.
THEOREM EachSchemaReadOnce == Spec => []ReadOnce
<1>1. LInv => ReadOnce
  BY DEF LInv, ReadsCounted, ReadOnce
<1>. QED
  BY <1>1, LoaderInvariant, PTL

-----------------------------------------------------------------------------
AllTrackedParsed == \A i \in DOMAIN Tracked : Tracked[i] \in parsed
JudgedOk(e) ==
  judged[e] # <<>> /\ judged[e][2] = "ok"
  /\ Judge(judged[e][1], SCHEMA_BY_PREFIX[e], schemaByName) = "ok"

SInv ==
  /\ DOMAIN judged = Examples /\ listed \subseteq Examples
  /\ phase # "end" => exit = "running"
  /\ phase = "json" => \A i \in DOMAIN Tracked : hasError \/ Tracked[i] \in todo \cup parsed
  /\ script = "lint" /\ phase # "markdown" /\ phase # "json" /\ exit # "failure" => AllTrackedParsed
  /\ phase = "examples" => \A e \in listed :
       SCHEMA_BY_PREFIX[e] = NoSchema \/ hasError \/ e \in todo \/ JudgedOk(e)
  /\ exit = "success" => \A e \in listed : SCHEMA_BY_PREFIX[e] = NoSchema \/ JudgedOk(e)

LEMMA SInvInit == Init => SInv
<1>. SUFFICES ASSUME Init PROVE SInv
  OBVIOUS
<1>1. /\ DOMAIN judged = Examples /\ listed = {} /\ exit = "running"
      /\ IF script = "lint" THEN phase = "markdown" ELSE phase = "load"
  BY DEF Init
<1>. QED
  BY <1>1 DEF SInv

\* validate-json goes on after an error and remembers it.
LEMMA SInvParse == SInv /\ ParseFile => SInv'
<1>. SUFFICES ASSUME SInv, ParseFile PROVE SInv'
  OBVIOUS
<1>1. /\ phase = "json" /\ phase' = phase /\ exit' = exit /\ script' = script
      /\ judged' = judged /\ listed' = listed
  BY DEF ParseFile
<1>2. PICK f : /\ todo' = todo \ {f} /\ hasError' = (hasError \/ ~Parses(f))
               /\ parsed' = parsed \cup (IF Parses(f) THEN {f} ELSE {})
  BY DEF ParseFile
<1>3. \A i \in DOMAIN Tracked : hasError' \/ Tracked[i] \in todo' \cup parsed'
  BY <1>1, <1>2 DEF SInv
<1>4. exit = "running"
  BY <1>1 DEF SInv
<1>. QED
  BY <1>1, <1>3, <1>4 DEF SInv

\* An example is judged against the schemas loaded, which no later step changes.
LEMMA SInvValidate == SInv /\ ValidateExample => SInv'
<1>. SUFFICES ASSUME SInv, ValidateExample PROVE SInv'
  OBVIOUS
<1>1. /\ phase = "examples" /\ phase' = phase /\ exit' = exit /\ script' = script
      /\ parsed' = parsed /\ listed' = listed /\ schemaByName' = schemaByName
  BY DEF ValidateExample
<1>2. PICK e \in todo :
        /\ \E v \in {Verdict(e)} \ {"throws"} :
             hasError' = (hasError \/ v # "ok") /\ judged' = [judged EXCEPT ![e] = <<text[e], v>>]
        /\ todo' = todo \ {e}
  BY DEF ValidateExample
<1>3. /\ hasError' = (hasError \/ Verdict(e) # "ok")
      /\ judged' = [judged EXCEPT ![e] = <<text[e], Verdict(e)>>]
  BY <1>2
<1>4. DOMAIN judged' = Examples /\ exit = "running"
  BY <1>1, <1>3 DEF SInv
<1>5. ASSUME NEW d \in listed, SCHEMA_BY_PREFIX[d] # NoSchema, ~hasError', d \notin todo'
      PROVE  JudgedOk(d)'
  <2>1. CASE d = e
    <3>1. Verdict(e) = "ok"
      BY <1>5, <1>3
    <3>2. judged'[d] = <<text[d], "ok">>
      BY <2>1, <3>1, <1>3 DEF SInv
    <3>. QED
      BY <3>1, <3>2, <2>1, <1>1 DEF JudgedOk, Verdict
  <2>2. CASE d # e
    <3>1. JudgedOk(d)
      BY <2>2, <1>5, <1>1, <1>2, <1>3 DEF SInv
    <3>2. judged'[d] = judged[d]
      BY <2>2, <1>3
    <3>. QED
      BY <3>1, <3>2, <1>1 DEF JudgedOk
  <2>. QED
    BY <2>1, <2>2
<1>. QED
  BY <1>1, <1>4, <1>5 DEF SInv, AllTrackedParsed

LEMMA SInvStep == SInv /\ [Next]_vars => SInv'
<1>. SUFFICES ASSUME SInv, [Next]_vars PROVE SInv'
  OBVIOUS
<1>. USE DEF SInv, AllTrackedParsed, JudgedOk
<1>1. CASE ParseFile
  BY <1>1, SInvParse
<1>2. CASE ValidateExample
  BY <1>2, SInvValidate
<1>3. CASE MarkdownLint
  BY <1>3 DEF MarkdownLint, Exit
<1>4. CASE AllParsed
  BY <1>4 DEF AllParsed, Exit
<1>5. CASE SkipLoaded \/ LoadSchema
  BY <1>5 DEF SkipLoaded, LoadSchema, Load
<1>6. CASE AllLoaded
  BY <1>6 DEF AllLoaded
<1>7. CASE SkipExample
  BY <1>7 DEF SkipExample
<1>8. CASE LoadFails \/ ExampleThrows
  BY <1>8 DEF LoadFails, ExampleThrows, Exit
<1>9. CASE AllValidated
  BY <1>9 DEF AllValidated, Exit
<1>10. CASE Edit
  BY <1>10 DEF Edit, lintVars
<1>11. CASE Ended \/ UNCHANGED vars
  BY <1>11 DEF Ended, vars
<1>. QED
  BY <1>1, <1>2, <1>3, <1>4, <1>5, <1>6, <1>7, <1>8, <1>9, <1>10, <1>11 DEF Next, Lint

\* SuccessMeansChecked: a lint that succeeds has parsed every tracked file and
\* judged every example it found, none of them with errors.
THEOREM SuccessIsEarned == Spec => []SuccessMeansChecked
<1>1. Init => SInv
  BY SInvInit
<1>2. SInv /\ [Next]_vars => SInv'
  BY SInvStep
<1>3. SInv => SuccessMeansChecked
  <2>. SUFFICES ASSUME SInv, exit = "success" PROVE SuccessMeansChecked
    BY DEF SuccessMeansChecked
  <2>1. phase = "end"
    BY DEF SInv
  <2>. QED
    BY <2>1 DEF SInv, SuccessMeansChecked, AllTrackedParsed, JudgedOk
<1>. QED
  BY <1>1, <1>2, <1>3, PTL DEF Spec

-----------------------------------------------------------------------------
(* The error flag, and each name in the queue, has its reason.             *)
FInv ==
  /\ phase = "markdown" => parsed = {}
  /\ phase = "json" =>
       /\ parsed \cap todo = {}
       /\ hasError => \E i \in DOMAIN Tracked : Tracked[i] \notin todo \cup parsed
  /\ phase \in {"markdown", "load"} => ~hasError
  /\ phase = "load" => Queued \subseteq Wanted
  /\ phase = "examples" =>
       /\ todo \subseteq Examples
       /\ hasError => \E e \in Examples \ todo : SCHEMA_BY_PREFIX[e] # NoSchema /\ JudgedBad(e)

LEMMA FInvInit == Init => FInv
<1>. SUFFICES ASSUME Init PROVE FInv
  OBVIOUS
<1>1. parsed = {} /\ ~hasError /\ phase \in {"markdown", "load"} /\ (phase = "load" => pending = Mapped)
  BY DEF Init
<1>2. phase = "load" => Queued = MappedSet
  BY <1>1 DEF Queued, Elements, MappedSet
<1>. QED
  BY <1>1, <1>2 DEF FInv, Wanted

\* A file that does not parse leaves todo without entering parsed.
LEMMA FInvParse == FInv /\ ParseFile => FInv'
<1>. SUFFICES ASSUME FInv, ParseFile PROVE FInv'
  OBVIOUS
<1>1. phase = "json" /\ phase' = "json"
  BY DEF ParseFile
<1>2. PICK i \in DOMAIN Tracked :
        /\ Tracked[i] \in todo /\ todo' = todo \ {Tracked[i]}
        /\ hasError' = (hasError \/ ~Parses(Tracked[i]))
        /\ parsed' = parsed \cup (IF Parses(Tracked[i]) THEN {Tracked[i]} ELSE {})
  BY DEF ParseFile
<1>3. parsed' \cap todo' = {}
  BY <1>1, <1>2 DEF FInv
<1>4. ASSUME hasError' PROVE \E j \in DOMAIN Tracked : Tracked[j] \notin todo' \cup parsed'
  <2>1. CASE hasError
    <3>1. PICK j \in DOMAIN Tracked : Tracked[j] \notin todo \cup parsed
      BY <1>1, <2>1 DEF FInv
    <3>2. Tracked[j] \notin todo' \cup parsed'
      BY <1>2, <3>1
    <3>. QED
      BY <3>2
  <2>2. CASE ~hasError
    <3>1. ~Parses(Tracked[i])
      BY <1>2, <1>4, <2>2
    <3>2. Tracked[i] \notin todo' \cup parsed'
      BY <1>1, <1>2, <3>1 DEF FInv
    <3>. QED
      BY <3>2
  <2>. QED
    BY <2>1, <2>2
<1>. QED
  BY <1>1, <1>3, <1>4 DEF FInv

\* Loading a schema only adds to what is wanted, and queues its own targets.
LEMMA FInvLoad == LInv /\ FInv /\ LoadSchema => FInv'
<1>. SUFFICES ASSUME LInv, FInv, LoadSchema PROVE FInv'
  OBVIOUS
<1>. DEFINE n == Head(pending)
            new == Targets(n, text[n]) \ (loaded \cup {n})
<1>1. /\ phase = "load" /\ phase' = "load" /\ pending # <<>> /\ hasError' = hasError
      /\ n \in Schemas \ loaded /\ Parses(n)
      /\ schemaByName' = [m \in loaded \cup {n} |-> IF m = n THEN text[n] ELSE schemaByName[m]]
  BY DEF LoadSchema, Load
<1>2. PICK s \in Orders(new) : pending' = Tail(pending) \o s
  BY DEF LoadSchema
<1>3. text[n] \in Texts
  BY <1>1 DEF LInv, Types, Parses
<1>4. s \in Seq(new) /\ Elements(s) = new
  <2>1. IsFiniteSet(new)
    BY <1>1, <1>3, RefsAssumption, FS_Difference
  <2>. QED
    BY <2>1, OrderLists
<1>5. s \in Seq(Names)
  <2>1. new \subseteq Names
    BY <1>1, <1>3 DEF Names
  <2>. QED
    BY <1>4, <2>1
<1>6. Tail(pending) \in Seq(Names) /\ Queued = {n} \cup Elements(Tail(pending))
  BY <1>1, DequeuedNames DEF LInv, Types, Queued
<1>7. Queued' = Elements(Tail(pending)) \cup new
  <2>1. Elements(Tail(pending) \o s) = Elements(Tail(pending)) \cup Elements(s)
    BY <1>5, <1>6, EnqueuedNames
  <2>. QED
    BY <1>2, <1>4, <2>1 DEF Queued
<1>8. /\ loaded' = loaded \cup {n} /\ schemaByName'[n] = text[n]
      /\ \A m \in loaded : schemaByName'[m] = schemaByName[m]
  BY <1>1 DEF loaded
<1>9. Wanted \subseteq Wanted' /\ Targets(n, text[n]) \subseteq Wanted'
  BY <1>8 DEF Wanted
<1>10. Queued \subseteq Wanted
  BY <1>1 DEF FInv
<1>11. Queued' \subseteq Wanted'
  BY <1>6, <1>7, <1>9, <1>10
<1>. QED
  BY <1>1, <1>11 DEF FInv

\* An example judged bad stays so: it is off the list, and the schemas loaded do
\* not change any more.
LEMMA FInvValidate == SInv /\ FInv /\ ValidateExample => FInv'
<1>. SUFFICES ASSUME SInv, FInv, ValidateExample PROVE FInv'
  OBVIOUS
<1>1. phase = "examples" /\ phase' = "examples" /\ schemaByName' = schemaByName
  BY DEF ValidateExample
<1>2. PICK e \in todo :
        /\ SCHEMA_BY_PREFIX[e] # NoSchema
        /\ hasError' = (hasError \/ Verdict(e) # "ok")
        /\ judged' = [judged EXCEPT ![e] = <<text[e], Verdict(e)>>]
        /\ todo' = todo \ {e}
  BY DEF ValidateExample
<1>3. todo \subseteq Examples /\ DOMAIN judged = Examples
  BY <1>1 DEF FInv, SInv
<1>4. ASSUME hasError'
      PROVE  \E d \in Examples \ todo' : SCHEMA_BY_PREFIX[d] # NoSchema /\ JudgedBad(d)'
  <2>1. CASE hasError
    <3>1. PICK d \in Examples \ todo : SCHEMA_BY_PREFIX[d] # NoSchema /\ JudgedBad(d)
      BY <1>1, <2>1 DEF FInv
    <3>2. judged'[d] = judged[d] /\ d \notin todo'
      BY <1>2, <1>3
    <3>. QED
      BY <3>1, <3>2, <1>1 DEF JudgedBad
  <2>2. CASE ~hasError
    <3>1. judged'[e] = <<text[e], Verdict(e)>> /\ e \in Examples \ todo'
      BY <1>2, <1>3
    <3>2. Verdict(e) # "ok"
      BY <1>2, <1>4, <2>2
    <3>3. JudgedBad(e)'
      BY <1>1, <3>1, <3>2 DEF JudgedBad, Verdict
    <3>. QED
      BY <1>2, <3>1, <3>3
  <2>. QED
    BY <2>1, <2>2
<1>5. todo' \subseteq Examples
  BY <1>2, <1>3
<1>. QED
  BY <1>1, <1>4, <1>5 DEF FInv

\* What leaves phase, flag, lists and judgements alone leaves the reasons alone.
LEMMA FInvElsewhere ==
  ASSUME FInv, phase' = phase, hasError' = hasError, todo' = todo, parsed' = parsed,
         pending' = pending, schemaByName' = schemaByName, judged' = judged
  PROVE  FInv'
<1>1. Queued' = Queued /\ Wanted' = Wanted /\ loaded' = loaded
  BY DEF Queued, Wanted, loaded
<1>2. \A e \in Examples : JudgedBad(e)' <=> JudgedBad(e)
  BY DEF JudgedBad
<1>. QED
  BY <1>1, <1>2 DEF FInv

LEMMA FInvStep == LInv /\ SInv /\ FInv /\ [Next]_vars => FInv'
<1>. SUFFICES ASSUME LInv, SInv, FInv, [Next]_vars PROVE FInv'
  OBVIOUS
<1>1. CASE ParseFile
  BY <1>1, FInvParse
<1>2. CASE LoadSchema
  BY <1>2, FInvLoad
<1>3. CASE ValidateExample
  BY <1>3, FInvValidate
<1>4. CASE MarkdownLint
  BY <1>4 DEF MarkdownLint, Exit, FInv
<1>5. CASE AllParsed
  <2>1. CASE hasError
    BY <1>5, <2>1 DEF AllParsed, Exit, FInv
  <2>2. CASE ~hasError
    <3>1. phase' = "load" /\ pending' = Mapped /\ ~hasError'
      BY <1>5, <2>2 DEF AllParsed
    <3>2. Queued' \subseteq Wanted'
      BY <3>1 DEF Queued, Elements, Wanted, MappedSet
    <3>. QED
      BY <3>1, <3>2 DEF FInv
  <2>. QED
    BY <2>1, <2>2
<1>6. CASE SkipLoaded
  <2>1. /\ phase = "load" /\ phase' = "load" /\ hasError' = hasError /\ pending # <<>>
        /\ pending' = Tail(pending) /\ schemaByName' = schemaByName
    BY <1>6 DEF SkipLoaded
  <2>2. Queued = {Head(pending)} \cup Queued'
    BY <2>1, DequeuedNames DEF LInv, Types, Queued
  <2>3. Wanted' = Wanted
    BY <2>1 DEF Wanted, loaded
  <2>. QED
    BY <2>1, <2>2, <2>3 DEF FInv
<1>7. CASE AllLoaded
  <2>1. phase = "load" /\ phase' = "examples" /\ hasError' = hasError /\ todo' \subseteq Examples
    BY <1>7 DEF AllLoaded
  <2>. QED
    BY <2>1 DEF FInv
<1>8. CASE SkipExample
  <2>1. /\ phase = "examples" /\ phase' = "examples" /\ hasError' = hasError /\ todo' \subseteq todo
        /\ schemaByName' = schemaByName /\ judged' = judged
    BY <1>8 DEF SkipExample
  <2>2. \A e \in Examples : JudgedBad(e)' <=> JudgedBad(e)
    BY <2>1 DEF JudgedBad
  <2>. QED
    BY <2>1, <2>2 DEF FInv
<1>9. CASE LoadFails \/ ExampleThrows \/ AllValidated
  <2>1. phase' = "end"
    BY <1>9 DEF LoadFails, ExampleThrows, AllValidated, Exit
  <2>. QED
    BY <2>1 DEF FInv
<1>10. CASE Edit \/ Ended \/ UNCHANGED vars
  BY <1>10, FInvElsewhere DEF Edit, lintVars, Ended, vars
<1>. QED
  BY <1>1, <1>2, <1>3, <1>4, <1>5, <1>6, <1>7, <1>8, <1>9, <1>10 DEF Next, Lint

\* A step that fails has its reason in the state it is taken in.
LEMMA FailureHasReason ==
  ASSUME LInv, SInv, FInv, [Next]_vars, exit = "running", exit' = "failure"
  PROVE  Complaint
<1>1. CASE MarkdownLint
  BY <1>1 DEF MarkdownLint, Exit, Complaint
<1>2. CASE AllParsed
  <2>1. phase = "json" /\ hasError
    BY <1>2 DEF AllParsed
  <2>. QED
    BY <2>1 DEF FInv, Complaint
<1>3. CASE LoadFails
  <2>1. /\ phase = "load" /\ pending # <<>> /\ Head(pending) \notin loaded
        /\ ~(Head(pending) \in Schemas /\ Parses(Head(pending)))
    BY <1>3 DEF LoadFails
  <2>2. Head(pending) \in Queued
    BY <2>1, DequeuedNames DEF LInv, Types, Queued
  <2>3. Head(pending) \in Wanted
    BY <2>1, <2>2 DEF FInv
  <2>. QED
    BY <2>1, <2>3 DEF Complaint
<1>4. CASE ExampleThrows
  <2>1. phase = "examples" /\ schemaByName' = schemaByName /\ todo \subseteq Examples
        /\ DOMAIN judged = Examples
    BY <1>4 DEF ExampleThrows, FInv, SInv
  <2>2. PICK e \in todo :
          /\ SCHEMA_BY_PREFIX[e] # NoSchema
          /\ \/ ~Parses(e)
             \/ Verdict(e) = "throws" /\ judged' = [judged EXCEPT ![e] = <<text[e], "throws">>]
    BY <1>4 DEF ExampleThrows
  <2>3. CASE ~Parses(e)
    BY <2>1, <2>2, <2>3 DEF Complaint
  <2>4. CASE Verdict(e) = "throws" /\ judged' = [judged EXCEPT ![e] = <<text[e], "throws">>]
    <3>1. judged'[e] = <<text[e], "throws">>
      BY <2>1, <2>4
    <3>2. JudgedBad(e)'
      BY <2>1, <2>4, <3>1 DEF JudgedBad, Verdict
    <3>. QED
      BY <2>1, <2>2, <3>2 DEF Complaint
  <2>. QED
    BY <2>2, <2>3, <2>4
<1>5. CASE AllValidated
  <2>1. phase = "examples" /\ hasError /\ judged' = judged /\ schemaByName' = schemaByName
    BY <1>5 DEF AllValidated, Exit
  <2>2. PICK e \in Examples : SCHEMA_BY_PREFIX[e] # NoSchema /\ JudgedBad(e)
    BY <2>1 DEF FInv
  <2>3. JudgedBad(e)'
    BY <2>1, <2>2 DEF JudgedBad
  <2>. QED
    BY <2>1, <2>2, <2>3 DEF Complaint
<1>6. CASE ParseFile \/ SkipLoaded \/ LoadSchema \/ AllLoaded \/ SkipExample \/ ValidateExample
  BY <1>6 DEF ParseFile, SkipLoaded, LoadSchema, Load, AllLoaded, SkipExample, ValidateExample
<1>7. CASE Edit \/ Ended \/ UNCHANGED vars
  BY <1>7 DEF Edit, lintVars, Ended, vars
<1>. QED
  BY <1>1, <1>2, <1>3, <1>4, <1>5, <1>6, <1>7 DEF Next, Lint

\* FailureIsEarned: no false alarm, for any files, references, verdicts and saves.
THEOREM FailuresAreEarned == Spec => FailureIsEarned
<1>1. Init => LInv /\ SInv /\ FInv
  BY LInvInit, SInvInit, FInvInit
<1>2. LInv /\ SInv /\ FInv /\ [Next]_vars => LInv' /\ SInv' /\ FInv'
  BY LInvStep, SInvStep, FInvStep
<1>3. LInv /\ SInv /\ FInv /\ [Next]_vars => [exit = "running" /\ exit' = "failure" => Complaint]_vars
  BY FailureHasReason
<1>. QED
  BY <1>1, <1>2, <1>3, PTL DEF Spec, FailureIsEarned

\* What lint does brings it nearer to its end, though a schema adds to the list it
\* is taken from: a later phase, a file less to look at, one more schema loaded,
\* or the same ones and a shorter list.
Later == [markdown |-> {"json", "load", "examples", "end"}, json |-> {"load", "end"},
          load |-> {"examples", "end"}, examples |-> {"end"}, end |-> {}]
LessToDo ==
  \/ phase' \in Later[phase]
  \/ /\ phase' = phase /\ todo' \subseteq todo /\ loaded \subseteq loaded'
     /\ todo' # todo \/ loaded' # loaded \/ Len(pending') < Len(pending)
WorkRunsOut == [][UNCHANGED lintVars \/ LessToDo]_vars

\* Every step of lint is one of the ways in which the work gets less.
LEMMA StepsCount ==
  ASSUME LInv, [Next]_vars
  PROVE  UNCHANGED lintVars \/ LessToDo
<1>. USE DEF LessToDo
<1>1. CASE MarkdownLint \/ AllParsed \/ LoadFails \/ AllLoaded \/ ExampleThrows \/ AllValidated
  BY <1>1 DEF MarkdownLint, AllParsed, LoadFails, AllLoaded, ExampleThrows, AllValidated, Exit, Later
<1>2. CASE ParseFile \/ SkipExample \/ ValidateExample
  <2>1. phase' = phase /\ loaded' = loaded /\ todo' \subseteq todo /\ todo' # todo
    BY <1>2 DEF ParseFile, SkipExample, ValidateExample, loaded
  <2>. QED
    BY <2>1
<1>3. CASE LoadSchema
  <2>1. phase' = phase /\ todo' = todo /\ Head(pending) \notin loaded
        /\ loaded' = loaded \cup {Head(pending)}
    BY <1>3 DEF LoadSchema, Load, loaded
  <2>. QED
    BY <2>1
<1>4. CASE SkipLoaded
  <2>1. phase' = phase /\ todo' = todo /\ schemaByName' = schemaByName /\ pending # <<>>
        /\ pending' = Tail(pending)
    BY <1>4 DEF SkipLoaded
  <2>2. pending \in Seq(Names)
    BY DEF LInv, Types
  <2>3. Len(pending) \in Nat /\ Len(pending') = Len(pending) - 1
    BY <2>1, <2>2, HeadTailProperties
  <2>. QED
    BY <2>1, <2>3 DEF loaded
<1>5. CASE Edit \/ Ended \/ UNCHANGED vars
  BY <1>5 DEF Edit, Ended, vars, lintVars
<1>. QED
  BY <1>1, <1>2, <1>3, <1>4, <1>5 DEF Next, Lint

\* WorkRunsOut: the part of Ends that is not fairness.  Of finitely many files, no
\* circle of references lets lint take steps for ever.
THEOREM LintStepsAreCounted == Spec => WorkRunsOut
<1>1. Init => LInv
  BY LInvInit
<1>2. LInv /\ [Next]_vars => LInv'
  BY LInvStep
<1>3. LInv /\ [Next]_vars => [UNCHANGED lintVars \/ LessToDo]_vars
  BY StepsCount
<1>. QED
  BY <1>1, <1>2, <1>3, PTL DEF Spec, WorkRunsOut
=============================================================================
