------------------------- MODULE ExampleBuildProofs -------------------------
(***************************************************************************)
(* Proofs about the build of the examples: what a stamp stands for, that   *)
(* parallel recipes do not meet, that nothing is made twice, and that a    *)
(* make that succeeds leaves what it was asked for up to date.             *)
(***************************************************************************)
EXTENDS ExampleBuild, TLAPS

\* What the rules are: facts about the makefiles, not about any run of make.
EmbeddedPrograms == UNION {EMBEDDED[f] : f \in DOMAIN EMBEDDED}

LEMMA CppIsNotEmbedded == Cpp \notin EmbeddedPrograms
  BY DEF Cpp, EmbeddedPrograms, EMBEDDED

LEMMA TargetCases ==
  ASSUME NEW t \in Targets
  PROVE  \/ \E m \in NANOPB_MODULES : t \in {<<"stamp", m>>, <<"cpp", m>>, <<"pbc", m>>}
         \/ t = <<"bin", Cpp>>
         \/ \E e \in EmbeddedPrograms : t = <<"bin", e>> /\ e # Cpp
  BY CppIsNotEmbedded DEF Targets, Protos, EmbeddedPrograms

LEMMA FamilyModules ==
  ASSUME NEW e \in EmbeddedPrograms
  PROVE  FAMILY_MODULES[FamilyOf(e)] \subseteq NANOPB_MODULES
<1>1. \E f \in DOMAIN EMBEDDED : e \in EMBEDDED[f]
  BY DEF EmbeddedPrograms
<1>2. FamilyOf(e) \in DOMAIN EMBEDDED
  BY <1>1 DEF FamilyOf
<1>3. FamilyOf(e) \in {"actuator", "app_message", "conn_status", "sensor", "discovery", "metered"}
  BY <1>2 DEF EMBEDDED
<1> QED BY <1>3 DEF FAMILY_MODULES, NANOPB_MODULES

LEMMA Imported ==
  ASSUME NEW m \in NANOPB_MODULES
  PROVE  /\ IMPORTS[m] = NANOPB_DEPS[m]
         /\ NANOPB_DEPS[m] \subseteq NANOPB_MODULES
  BY DEF IMPORTS, NANOPB_DEPS, NANOPB_MODULES

LEMMA StampRule ==
  ASSUME NEW m \in NANOPB_MODULES, NEW t, t = <<"stamp", m>>
  PROVE  /\ t \in Targets /\ Output(t) = <<"pb", m>> /\ Unnamed(t) = {}
         /\ Prereqs[t] = {<<"proto", m>>} \cup NANOPB_OPTIONS(m)
                         \cup {<<"stamp", d>> : d \in NANOPB_DEPS[m]}
         /\ Reads[t] = UNION {{<<"proto", d>>} \cup NANOPB_OPTIONS(d) : d \in {m} \cup NANOPB_DEPS[m]}
<1>1. t \in Targets /\ t[1] = "stamp" /\ t[2] = m
  BY DEF Targets
<1>2. t # <<"bin", Cpp>>
  BY <1>1
<1> QED BY <1>1, <1>2, Imported DEF Prereqs, Reads, Output, Unnamed

LEMMA ProtoRule ==
  ASSUME NEW m \in NANOPB_MODULES, NEW k \in {"cpp", "pbc"}, NEW t, t = <<k, m>>
  PROVE  /\ t \in Targets /\ Output(t) = t
         /\ Prereqs[t] = {<<"proto", m>>}
         /\ Unnamed(t) = {<<"proto", d>> : d \in NANOPB_DEPS[m]}
         /\ Reads[t] = {<<"proto", d>> : d \in {m} \cup NANOPB_DEPS[m]}
<1>1. t \in Targets /\ t[1] = k /\ t[2] = m
  BY DEF Targets, Protos
<1>2. t # <<"bin", Cpp>> /\ t[1] # "stamp" /\ t[1] # "bin"
  BY <1>1
<1> QED BY <1>1, <1>2, Imported DEF Prereqs, Reads, Output, Unnamed

LEMMA CppRule ==
  ASSUME NEW t, t = <<"bin", Cpp>>
  PROVE  /\ t \in Targets /\ Output(t) = t
         /\ Unnamed(t) = {<<"helper", "example_utils">>}
         /\ Prereqs[t] = {<<"src", Cpp>>} \cup {<<"cpp", p>> : p \in CPP_PROTO_DEPS}
         /\ Reads[t] = Prereqs[t] \cup Unnamed(t)
<1>1. t \in Targets /\ t[1] = "bin" /\ t[2] = Cpp
  BY DEF Targets
<1> QED BY <1>1 DEF Prereqs, Reads, Output, Unnamed

LEMMA EmbeddedRule ==
  ASSUME NEW e \in EmbeddedPrograms, e # Cpp, NEW t, t = <<"bin", e>>
  PROVE  LET own == {<<"src", e>>, <<"helper", FamilyOf(e)>>, <<"helper", "nanopb">>}
             mods == FAMILY_MODULES[FamilyOf(e)] IN
         /\ t \in Targets /\ Output(t) = t /\ Unnamed(t) = {}
         /\ Prereqs[t] = own \cup {<<"stamp", m>> : m \in mods}
         /\ Reads[t] = own \cup {<<"pb", m>> : m \in mods}
<1>1. t \in Targets /\ t[1] = "bin" /\ t[2] = e
  BY DEF Targets, EmbeddedPrograms
<1>2. t # <<"bin", Cpp>>
  BY <1>1
<1> QED BY <1>1, <1>2 DEF Prereqs, Reads, Output, Unnamed

LEMMA TargetIsPair ==
  ASSUME NEW t \in Targets
  PROVE  /\ t = <<t[1], t[2]>> /\ t[1] \in {"stamp", "bin", "cpp", "pbc"}
         /\ t[1] = "stamp" => t[2] \in NANOPB_MODULES
  BY TargetCases

LEMMA OutputOwn ==
  ASSUME NEW t \in Targets, NEW u \in Targets
  PROVE  /\ Output(t) = Output(u) => t = u
         /\ Output(u) = t => u = t /\ t[1] # "stamp"
         /\ t[1] # "stamp" => Output(t) = t
         /\ t[1] = "stamp" => Output(t) = <<"pb", t[2]>> /\ Output(t) \notin Targets
<1>1. /\ t = <<t[1], t[2]>> /\ t[1] \in {"stamp", "bin", "cpp", "pbc"}
      /\ u = <<u[1], u[2]>> /\ u[1] \in {"stamp", "bin", "cpp", "pbc"}
  BY TargetIsPair
<1>2. \A x \in Targets : x[1] # "pb"
  BY TargetIsPair
<1>3. \A m : <<"pb", m>>[1] = "pb" /\ <<"pb", m>>[2] = m
  OBVIOUS
<1> QED BY <1>1, <1>2, <1>3 DEF Output

\* What a recipe reads of another recipe's output, its rule waits for.
LEMMA ReadsPrereqs ==
  ASSUME NEW t \in Targets, NEW u \in Targets, Output(u) \in Reads[t]
  PROVE  u \in Prereqs[t]
<1>0. u = <<u[1], u[2]>> /\ u[1] \in {"stamp", "bin", "cpp", "pbc"}
  BY TargetIsPair
<1>1. \/ u[1] = "stamp" /\ Output(u) = <<"pb", u[2]>>
      \/ u[1] # "stamp" /\ Output(u) = u
  BY DEF Output
<1>2. Output(u)[1] \in {"pb", "bin", "cpp", "pbc"}
  BY <1>0, <1>1
<1>3. ASSUME NEW m \in NANOPB_MODULES, NEW k \in {"stamp", "cpp", "pbc"}, t = <<k, m>> PROVE FALSE
  <2>1. \A f \in Reads[t] : f[1] \in {"proto", "options"}
    BY <1>3, StampRule, ProtoRule DEF NANOPB_OPTIONS
  <2> QED BY <1>2, <2>1
<1>4. CASE t = <<"bin", Cpp>>
  BY <1>0, <1>1, <1>2, <1>4, CppRule
<1>5. ASSUME NEW e \in EmbeddedPrograms, t = <<"bin", e>>, e # Cpp PROVE u \in Prereqs[t]
  <2> DEFINE mods == FAMILY_MODULES[FamilyOf(e)]
  <2>1. Output(u) \in {<<"pb", m>> : m \in mods}
    BY <1>2, <1>5, EmbeddedRule
  <2>2. PICK m \in mods : Output(u) = <<"pb", m>>
    BY <2>1
  <2>3. u = <<"stamp", m>>
    BY <1>0, <1>1, <2>2
  <2> QED BY <1>5, <2>3, EmbeddedRule
<1> QED BY <1>3, <1>4, <1>5, TargetCases

\* Rules are at most four deep, and so Reach is closed.
Rank(t) ==
  IF t[1] = "bin" THEN 3
  ELSE IF t[1] # "stamp" THEN 0
  ELSE IF t[2] = "discovery" THEN 2
  ELSE IF t[2] \in {"actuator", "sensor", "waveform"} THEN 1 ELSE 0

LEMMA RankFalls ==
  ASSUME NEW t \in Targets, NEW x \in Prereqs[t] \cap Targets
  PROVE  Rank(x) \in 0..3 /\ Rank(t) \in 0..3 /\ Rank(x) < Rank(t)
<1>1. x[1] \in {"stamp", "bin", "cpp", "pbc"}
  BY TargetIsPair
<1>2. CASE \E m \in NANOPB_MODULES : t = <<"stamp", m>>
  <2>1. PICK m \in NANOPB_MODULES : t = <<"stamp", m>>
    BY <1>2
  <2>2. PICK d \in NANOPB_DEPS[m] : x = <<"stamp", d>>
    BY <1>1, <2>1, StampRule DEF NANOPB_OPTIONS
  <2>3. t[1] = "stamp" /\ t[2] = m /\ x[1] = "stamp" /\ x[2] = d
    BY <2>1, <2>2
  <2>4. CASE m = "discovery"
    <3>1. d \in {"status", "sensor", "waveform"}
      BY <2>2, <2>4 DEF NANOPB_DEPS, NANOPB_MODULES
    <3> QED BY <2>3, <2>4, <3>1 DEF Rank
  <2>5. CASE m # "discovery"
    <3>1. m \in {"actuator", "sensor", "waveform"} /\ d = "status"
      BY <2>2, <2>5 DEF NANOPB_DEPS, NANOPB_MODULES
    <3> QED BY <2>3, <3>1 DEF Rank
  <2> QED BY <2>4, <2>5
<1>3. CASE \E m \in NANOPB_MODULES : t \in {<<"cpp", m>>, <<"pbc", m>>}
  <2>1. PICK m \in NANOPB_MODULES : t \in {<<"cpp", m>>, <<"pbc", m>>}
    BY <1>3
  <2>2. x = <<"proto", m>>
    BY <2>1, ProtoRule
  <2> QED BY <1>1, <2>2
<1>4. CASE t[1] = "bin"
  <2>1. x[1] \in {"stamp", "cpp"}
    <3>1. CASE t = <<"bin", Cpp>>
      BY <1>1, <3>1, CppRule
    <3>2. ASSUME NEW e \in EmbeddedPrograms, e # Cpp, t = <<"bin", e>> PROVE x[1] \in {"stamp", "cpp"}
      BY <1>1, <3>2, EmbeddedRule
    <3> QED BY <1>4, <3>1, <3>2, TargetCases
  <2> QED BY <1>4, <2>1 DEF Rank
<1> QED BY <1>2, <1>3, <1>4, TargetCases

Deeper(S) == S \cup UNION {Prereqs[x] : x \in S \cap Targets}

LEMMA ReachIsDeeper == \A T : Reach(T) = Deeper(Deeper(Deeper(Deeper(T))))
  BY DEF Reach, Deeper

LEMMA NewInDeeper ==
  ASSUME NEW S, NEW x \in Deeper(S), x \notin S
  PROVE  \E y \in S \cap Targets : x \in Prereqs[y]
  BY DEF Deeper

LEMMA ReachClosed ==
  ASSUME NEW T, NEW x \in Reach(T) \cap Targets
  PROVE  Prereqs[x] \subseteq Reach(T)
<1> DEFINE D1 == Deeper(T)
           D2 == Deeper(D1)
           D3 == Deeper(D2)
<1>0. Reach(T) = Deeper(D3)
  BY ReachIsDeeper
<1>1. CASE x \in D3
  BY <1>0, <1>1 DEF Deeper
<1>2. CASE x \notin D3
  <2>1. PICK y3 \in D3 \cap Targets : x \in Prereqs[y3]
    BY <1>0, <1>2, NewInDeeper
  <2>2. y3 \notin D2
    BY <1>2, <2>1 DEF Deeper
  <2>3. PICK y2 \in D2 \cap Targets : y3 \in Prereqs[y2]
    BY <2>1, <2>2, NewInDeeper
  <2>4. y2 \notin D1
    BY <2>2, <2>3 DEF Deeper
  <2>5. PICK y1 \in D1 \cap Targets : y2 \in Prereqs[y1]
    BY <2>3, <2>4, NewInDeeper
  <2>6. y1 \notin T
    BY <2>4, <2>5 DEF Deeper
  <2>7. PICK y0 \in T \cap Targets : y1 \in Prereqs[y0]
    BY <2>5, <2>6, NewInDeeper
  <2>8. Rank(x) < Rank(y3) /\ Rank(x) \in 0..3 /\ Rank(y3) \in 0..3
    BY <2>1, RankFalls
  <2>9. Rank(y3) < Rank(y2) /\ Rank(y2) \in 0..3
    BY <2>1, <2>3, RankFalls
  <2>10. Rank(y2) < Rank(y1) /\ Rank(y1) \in 0..3
    BY <2>3, <2>5, RankFalls
  <2>11. Rank(y1) < Rank(y0) /\ Rank(y0) \in 0..3
    BY <2>5, <2>7, RankFalls
  <2> QED BY <2>8, <2>9, <2>10, <2>11
<1> QED BY <1>1, <1>2

LEMMA ReachHas == \A T : T \subseteq Reach(T)
  BY ReachIsDeeper DEF Deeper

\* What a prerequisite depends on, the target depends on.
LEMMA ReachOfPrereq ==
  ASSUME NEW t \in Targets, NEW p \in Prereqs[t] \cap Targets
  PROVE  Reach(Prereqs[p]) \subseteq Reach(Prereqs[t])
<1> DEFINE C == Reach(Prereqs[t])
<1>1. \A S : S \subseteq C => Deeper(S) \subseteq C
  <2> SUFFICES ASSUME NEW S, S \subseteq C, NEW x \in Deeper(S), x \notin S PROVE x \in C
    OBVIOUS
  <2>1. PICK y \in S \cap Targets : x \in Prereqs[y]
    BY NewInDeeper
  <2> QED BY <2>1, ReachClosed
<1>2. Prereqs[p] \subseteq C
  BY ReachHas, ReachClosed
<1> QED BY <1>1, <1>2, ReachIsDeeper

LEMMA BuiltTargets ==
  /\ Built \subseteq Targets
  /\ \A g \in DOMAIN Goals : Wanted[g] \subseteq Built
  /\ \A g \in DOMAIN Goals : \A t \in Wanted[g] : Prereqs[t] \cap Targets \subseteq Wanted[g]
  /\ \A t \in Built : Prereqs[t] \cap Targets \subseteq Built
<1>1. \A g \in DOMAIN Goals : Wanted[g] = Reach(Goals[g]) \cap Targets
  BY DEF Wanted
<1>2. \A g \in DOMAIN Goals : \A t \in Wanted[g] : Prereqs[t] \cap Targets \subseteq Wanted[g]
  BY <1>1, ReachClosed
<1> QED BY <1>1, <1>2 DEF Built

LEMMA SourcesApart == \A f \in Sources : f \notin Built /\ \A t \in Built : f # Output(t)
<1>1. \A t \in Built : Output(t) \in Outputs
  BY DEF Outputs
<1>2. \A f \in Sources : f \notin Built /\ f \notin Outputs
  BY Zenon DEF Sources
<1> QED BY <1>1, <1>2

LEMMA SourceKinds ==
  ASSUME NEW t \in Built, NEW f \in Reads[t] \cup Prereqs[t],
         f[1] \in {"proto", "options", "src", "helper"}
  PROVE  f \in Sources
<1>1. f \notin Built
  BY BuiltTargets, TargetIsPair
<1>2. f \notin Outputs
  <2> SUFFICES ASSUME NEW u \in Built PROVE f # Output(u)
    BY DEF Outputs
  <2>1. u[1] \in {"stamp", "bin", "cpp", "pbc"}
    BY BuiltTargets, TargetIsPair
  <2>2. Output(u)[1] \in {"pb", "bin", "cpp", "pbc"}
    BY <2>1 DEF Output
  <2> QED BY <2>2
<1>3. f \in UNION {Reads[u] \cup Prereqs[u] : u \in Built}
  OBVIOUS
<1> QED BY <1>1, <1>2, <1>3, Zenon DEF Sources

\* A file a recipe reads and some rule names is a prerequisite, or belongs to a stamp
\* that is one.
LEMMA NamedReads ==
  ASSUME NEW t \in Built, NEW f \in Reads[t] \ Unnamed(t)
  PROVE  \/ f \in Prereqs[t] /\ f \in Sources
         \/ f \in Prereqs[t] /\ f \in Built /\ f[1] # "stamp"
         \/ \E p \in Prereqs[t] \cap Built :
              p[1] = "stamp" /\ ((f \in Prereqs[p] /\ f \in Sources) \/ f = Output(p))
<1>0. t \in Targets /\ Prereqs[t] \cap Targets \subseteq Built
  BY BuiltTargets
<1>1. ASSUME NEW m \in NANOPB_MODULES, t = <<"stamp", m>>
      PROVE  \/ f \in Prereqs[t] /\ f \in Sources
             \/ \E p \in Prereqs[t] \cap Built :
                  p[1] = "stamp" /\ f \in Prereqs[p] /\ f \in Sources
  <2>1. PICK d \in {m} \cup NANOPB_DEPS[m] : f \in {<<"proto", d>>} \cup NANOPB_OPTIONS(d)
    BY <1>1, StampRule
  <2>2. f \in Sources
    BY <2>1, SourceKinds DEF NANOPB_OPTIONS
  <2>3. CASE d = m
    BY <1>1, <2>1, <2>2, <2>3, StampRule
  <2>4. CASE d \in NANOPB_DEPS[m]
    <3>1. PICK p : p = <<"stamp", d>>
      OBVIOUS
    <3>2. d \in NANOPB_MODULES
      BY <2>4, Imported
    <3>3. p \in Targets /\ f \in Prereqs[p] /\ p[1] = "stamp"
      BY <2>1, <3>1, <3>2, StampRule
    <3>4. p \in Prereqs[t]
      BY <1>1, <2>4, <3>1, StampRule
    <3> QED BY <1>0, <2>2, <3>3, <3>4
  <2> QED BY <2>1, <2>3, <2>4
<1>2. ASSUME NEW m \in NANOPB_MODULES, NEW k \in {"cpp", "pbc"}, t = <<k, m>>
      PROVE  f \in Prereqs[t] /\ f \in Sources
  <2>1. f = <<"proto", m>>
    BY <1>2, ProtoRule
  <2> QED BY <1>2, <2>1, ProtoRule, SourceKinds
<1>3. CASE t = <<"bin", Cpp>>
  <2>1. f \in Prereqs[t] /\ (f = <<"src", Cpp>> \/ \E p \in CPP_PROTO_DEPS : f = <<"cpp", p>>)
    BY <1>3, CppRule
  <2>2. CASE f = <<"src", Cpp>>
    BY <2>1, <2>2, SourceKinds
  <2>3. ASSUME NEW p \in CPP_PROTO_DEPS, f = <<"cpp", p>>
        PROVE  f \in Built /\ f[1] # "stamp"
    <3>1. p \in NANOPB_MODULES
      BY DEF CPP_PROTO_DEPS, NANOPB_MODULES
    <3> QED BY <1>0, <2>1, <2>3, <3>1, ProtoRule
  <2> QED BY <2>1, <2>2, <2>3
<1>4. ASSUME NEW e \in EmbeddedPrograms, t = <<"bin", e>>, e # Cpp
      PROVE  \/ f \in Prereqs[t] /\ f \in Sources
             \/ \E p \in Prereqs[t] \cap Built : p[1] = "stamp" /\ f = Output(p)
  <2> DEFINE own == {<<"src", e>>, <<"helper", FamilyOf(e)>>, <<"helper", "nanopb">>}
             mods == FAMILY_MODULES[FamilyOf(e)]
  <2>1. f \in own \/ \E m \in mods : f = <<"pb", m>>
    BY <1>4, EmbeddedRule
  <2>2. CASE f \in own
    <3>1. f \in Prereqs[t] /\ f[1] \in {"src", "helper"}
      BY <1>4, <2>2, EmbeddedRule
    <3> QED BY <3>1, SourceKinds
  <2>3. ASSUME NEW m \in mods, f = <<"pb", m>>
        PROVE  \E p \in Prereqs[t] \cap Built : p[1] = "stamp" /\ f = Output(p)
    <3>1. PICK p : p = <<"stamp", m>>
      OBVIOUS
    <3>2. m \in NANOPB_MODULES
      BY FamilyModules
    <3>3. p \in Targets /\ f = Output(p) /\ p[1] = "stamp"
      BY <2>3, <3>1, <3>2, StampRule
    <3>4. p \in Prereqs[t]
      BY <1>4, <3>1, EmbeddedRule
    <3> QED BY <1>0, <3>3, <3>4
  <2> QED BY <2>1, <2>2, <2>3
<1> QED BY <1>0, <1>1, <1>2, <1>3, <1>4, TargetCases

\* What a file holds: a source its edits, an output what its recipe read.
LEMMA ContentIs ==
  /\ \A f \in Sources : Content(f) = ver[f]
  /\ \A p \in Built : Content(Output(p)) = used[p]
<1> SUFFICES ASSUME NEW p \in Built PROVE Content(Output(p)) = used[p]
  BY DEF Content
<1>1. Output(p) \notin Sources
  BY SourcesApart
<1>2. p = <<p[1], p[2]>> /\ p[1] \in {"stamp", "bin", "cpp", "pbc"}
  BY BuiltTargets, TargetIsPair
<1>3. CASE p[1] = "stamp"
  <2>1. Output(p)[1] = "pb" /\ Output(p)[2] = p[2]
    BY <1>3 DEF Output
  <2>2. p = <<"stamp", Output(p)[2]>>
    BY <1>2, <1>3, <2>1
  <2> QED BY <1>1, <2>1, <2>2 DEF Content
<1>4. CASE p[1] # "stamp"
  BY <1>1, <1>2, <1>4 DEF Content, Output
<1> QED BY <1>3, <1>4

-----------------------------------------------------------------------------
\* The types of what TypeOK leaves out, that nothing was edited more often than there were
\* edits, and that make has a goal, or else no recipe.
TInv ==
  /\ TypeOK
  /\ newer \in [Built -> SUBSET UNION {Prereqs[t] : t \in Built}]
  /\ used = [t \in Built |-> used[t]] /\ snap = [t \in Built |-> snap[t]]
  /\ edits \in 0..MaxEdits /\ \A f \in Sources : ver[f] <= edits
  /\ quiet \in BOOLEAN
  /\ IF make = "idle" THEN \A t \in Built : st[t] = "todo" ELSE goal \in DOMAIN Goals

LEMMA InitTInv == Init => TInv
  BY SetupAssumption DEF Init, TInv, TypeOK, Active

LEMMA MadeIs ==
  /\ Built \subseteq Made /\ \A t \in Built : Output(t) \in Made
  BY DEF Made, Outputs

\* newer, once f is written.
LEMMA WrittenIs ==
  ASSUME TInv, NEW f
  PROVE  /\ Written(f) \in [Built -> SUBSET UNION {Prereqs[t] : t \in Built}]
         /\ \A t \in Built : Written(f)[t] \subseteq Prereqs[t]
         /\ \A t \in Built :
              IF t = f THEN Written(f)[t] = {}
              ELSE IF f \in Prereqs[t] /\ there[t] # "absent" THEN Written(f)[t] = newer[t] \cup {f}
              ELSE Written(f)[t] = newer[t]
<1>1. \A t \in Built : Written(f)[t] \subseteq Prereqs[t]
  BY DEF Written, TInv, TypeOK
<1> QED BY <1>1 DEF Written, TInv

LEMMA RecipeTInv ==
  ASSUME TInv, NEW t \in Built,
         AlreadyMade(t) \/ StartRecipe(t) \/ WriteWrapper(t) \/ ReadInputs(t) \/ EmptyWrapper(t)
  PROVE  TInv'
<1> USE DEF TInv, TypeOK, Active, Step, fileVars, histVars
<1>1. CASE AlreadyMade(t)
  BY <1>1 DEF AlreadyMade, Ready
<1>2. CASE StartRecipe(t)
  BY <1>2 DEF StartRecipe, FirstStep, Ready
<1>3. CASE WriteWrapper(t)
  BY <1>3 DEF WriteWrapper
<1>4. CASE ReadInputs(t)
  BY <1>4 DEF ReadInputs
<1>5. CASE EmptyWrapper(t)
  BY <1>5 DEF EmptyWrapper
<1> QED BY <1>1, <1>2, <1>3, <1>4, <1>5

LEMMA OutputTInv ==
  ASSUME TInv, NEW t \in Built, PutOutput(t) \/ TouchStamp(t) \/ RecipeFails(t)
  PROVE  TInv'
<1> USE DEF TInv, TypeOK, Active, Step, fileVars, histVars
<1>0. /\ t \in Made /\ Output(t) \in Made
      /\ Written(t) \in [Built -> SUBSET UNION {Prereqs[u] : u \in Built}]
      /\ \A u \in Built : Written(t)[u] \subseteq Prereqs[u]
  BY MadeIs, WrittenIs
<1>1. CASE PutOutput(t)
  BY <1>0, <1>1 DEF PutOutput, Putting
<1>2. CASE TouchStamp(t)
  BY <1>0, <1>2 DEF TouchStamp
<1>3. CASE RecipeFails(t)
  <2>1. /\ st' \in [Built -> Active \cup {"todo", "done", "failed"}]
        /\ make # "idle" /\ make' \in {make, "stopping"} /\ goal \in DOMAIN Goals
    BY <1>3 DEF RecipeFails, GiveUp, Putting
  <2>2. /\ there' \in [Made -> {"absent", "damaged", "whole"}] /\ cut' \subseteq Built
    BY <1>0, <1>3 DEF RecipeFails
  <2>3. /\ newer' \in [Built -> SUBSET UNION {Prereqs[u] : u \in Built}]
        /\ \A u \in Built : newer'[u] \subseteq Prereqs[u]
    <3>1. t[1] \in {"stamp", "bin", "cpp", "pbc"}
      BY BuiltTargets, TargetIsPair
    <3>2. newer' \in {newer, [newer EXCEPT ![t] = {}], Written(t)}
      BY <1>3, <3>1 DEF RecipeFails
    <3> QED BY <1>0, <3>2
  <2> QED BY <1>3, <2>1, <2>2, <2>3 DEF RecipeFails
<1> QED BY <1>1, <1>2, <1>3

LEMMA StopTInv ==
  ASSUME TInv, NEW d \in {"absent", "damaged"}, Stop(d)
  PROVE  TInv'
<1>1. PICK hit \in SUBSET {t \in Running : st[t] \in Putting} :
        LET after(t) == IF t[1] = "stamp" THEN "damaged" ELSE d
            own == {t \in hit : t[1] # "stamp"} IN
        /\ there' = [f \in Made |->
              IF \E t \in hit : f = Output(t) THEN after(CHOOSE t \in hit : f = Output(t)) ELSE there[f]]
        /\ newer' = [t \in Built |->
              IF t \in own THEN {}
              ELSE IF there[t] = "absent" \/ d = "absent" THEN newer[t]
              ELSE newer[t] \cup (own \cap Prereqs[t])]
        /\ cut' = IF d = "damaged" THEN cut \cup own ELSE cut \ own
  BY DEF Stop
<1>2. hit \subseteq Built
  BY DEF Running
<1>3. there' \in [Made -> {"absent", "damaged", "whole"}]
  BY <1>1 DEF TInv, TypeOK
<1>4. /\ \A u \in Built : newer'[u] \subseteq Prereqs[u]
      /\ newer' = [u \in Built |-> newer'[u]]
  BY <1>1 DEF TInv, TypeOK
<1>5. newer' \in [Built -> SUBSET UNION {Prereqs[u] : u \in Built}]
  BY <1>4
<1>6. cut' \subseteq Built
  BY <1>1, <1>2 DEF TInv, TypeOK
<1> QED BY <1>3, <1>4, <1>5, <1>6 DEF Stop, Idle, TInv, TypeOK, Active

LEMMA EditTInv ==
  ASSUME TInv, NEW s \in Editable, Edit(s)
  PROVE  TInv'
<1>0. s \in Sources /\ edits + 1 \in 0..MaxEdits
  BY EditableAssumption, SetupAssumption DEF Edit, TInv
<1>1. \A f \in Sources : ver'[f] \in Nat /\ ver'[f] <= edits + 1
  BY <1>0, SetupAssumption DEF Edit, TInv, TypeOK
<1>2. ver' \in [Sources -> 0..MaxEdits]
  BY <1>0, <1>1, SetupAssumption DEF Edit, TInv, TypeOK
<1>3. /\ newer' \in [Built -> SUBSET UNION {Prereqs[u] : u \in Built}]
      /\ \A u \in Built : newer'[u] \subseteq Prereqs[u]
  BY WrittenIs DEF Edit
<1>4. raced' \subseteq Built /\ fresh' \subseteq Built /\ quiet' \in BOOLEAN /\ edits' = edits + 1
  BY DEF Edit, Running, TInv, TypeOK
<1> QED BY <1>0, <1>1, <1>2, <1>3, <1>4 DEF Edit, TInv, TypeOK

LEMMA StepTInv == TInv /\ [Next]_vars => TInv'
<1> SUFFICES ASSUME TInv, [Next]_vars PROVE TInv'
  OBVIOUS
<1>1. CASE StartMake
  BY <1>1 DEF StartMake, fileVars, TInv, TypeOK
<1>2. CASE EndMake
  <2>1. Wanted[goal] \subseteq Built
    BY <1>2, BuiltTargets DEF EndMake, TInv
  <2>2. fresh' \subseteq Built
    BY <1>2, <2>1 DEF EndMake, TInv, TypeOK
  <2> QED BY <1>2, <2>2 DEF EndMake, Idle, fileVars, TInv, TypeOK
<1>3. CASE Clean
  BY <1>3 DEF Clean, TInv, TypeOK
<1>4. CASE UNCHANGED vars
  BY <1>4 DEF vars, TInv, TypeOK, Active
<1> QED BY <1>1, <1>2, <1>3, <1>4, RecipeTInv, OutputTInv, StopTInv, EditTInv
        DEF Next, MakeStep, Environment, Interrupt, Kill, Ended

\* Whatever fails or is edited, the build's records stay well formed: in particular what is
\* newer than a target are prerequisites of it (mk/nanopb.mk, mk/examples.mk).
THEOREM BuildTypeCorrect == Spec => []TypeOK
<1>1. TInv => TypeOK
  BY DEF TInv
<1> QED BY <1>1, InitTInv, StepTInv, PTL DEF Spec
-----------------------------------------------------------------------------
\* What make has turned to has all its prerequisites behind it.
PrereqsDone ==
  \A t \in Built : st[t] # "todo" => \A p \in Prereqs[t] \cap Built : st[p] = "done"

RecipeStep(t) ==
  \/ AlreadyMade(t) \/ StartRecipe(t) \/ WriteWrapper(t) \/ ReadInputs(t)
  \/ EmptyWrapper(t) \/ PutOutput(t) \/ TouchStamp(t) \/ RecipeFails(t)

\* A recipe step moves its own target on, and none that is done.
LEMMA OneMoves ==
  ASSUME TInv, NEW t \in Built, RecipeStep(t)
  PROVE  /\ st[t] # "done" /\ (Ready(t) \/ st[t] # "todo")
         /\ st' = [st EXCEPT ![t] = st'[t]] /\ st'[t] # "todo"
         /\ UNCHANGED <<ver, goal, setup, edits, makes, quiet, fresh, result>>
<1>0. st \in [Built -> Active \cup {"todo", "done", "failed"}] /\ "todo" \notin Active
  BY DEF TInv, TypeOK, Active
<1> USE <1>0 DEF Step, fileVars, histVars
<1>1. CASE AlreadyMade(t)
  BY <1>1 DEF AlreadyMade, Ready
<1>2. CASE StartRecipe(t)
  BY <1>2 DEF StartRecipe, Ready, FirstStep
<1>3. CASE WriteWrapper(t)
  BY <1>3 DEF WriteWrapper
<1>4. CASE ReadInputs(t)
  BY <1>4 DEF ReadInputs
<1>5. CASE EmptyWrapper(t)
  BY <1>5 DEF EmptyWrapper
<1>6. CASE PutOutput(t)
  BY <1>6 DEF PutOutput, Putting
<1>7. CASE TouchStamp(t)
  BY <1>7 DEF TouchStamp
<1>8. CASE RecipeFails(t)
  BY <1>8 DEF RecipeFails, GiveUp, Putting
<1> QED BY <1>1, <1>2, <1>3, <1>4, <1>5, <1>6, <1>7, <1>8 DEF RecipeStep

LEMMA RecipeStepTInv == ASSUME TInv, NEW t \in Built, RecipeStep(t) PROVE TInv'
  BY RecipeTInv, OutputTInv DEF RecipeStep

\* Next, in the terms of these proofs.
LEMMA NextCases ==
  ASSUME [Next]_vars
  PROVE  \/ \E t \in Built : RecipeStep(t)
         \/ \E s \in Editable : Edit(s)
         \/ StartMake \/ EndMake \/ Clean
         \/ \E d \in {"absent", "damaged"} : Stop(d)
         \/ UNCHANGED vars
  BY DEF Next, MakeStep, RecipeStep, Environment, Interrupt, Kill, Ended

\* When make goes idle, and while nothing but files changes, no recipe moves.
LEMMA NoneMoves ==
  ASSUME TInv
  PROVE  /\ EndMake \/ (\E d \in {"absent", "damaged"} : Stop(d)) => st' = [t \in Built |-> "todo"]
         /\ (\E s \in Editable : Edit(s)) \/ StartMake \/ Clean \/ UNCHANGED vars => st' = st
  BY DEF EndMake, Stop, Idle, Edit, StartMake, Clean, vars

LEMMA InitPrereqsDone == Init => PrereqsDone
  BY DEF Init, PrereqsDone

LEMMA StepPrereqsDone == TInv /\ PrereqsDone /\ [Next]_vars => PrereqsDone'
<1> SUFFICES ASSUME TInv, PrereqsDone, [Next]_vars,
                    NEW u \in Built, st'[u] # "todo", NEW p \in Prereqs[u] \cap Built
             PROVE  st'[p] = "done"
  BY DEF PrereqsDone
<1>1. ASSUME NEW t \in Built, RecipeStep(t) PROVE st'[p] = "done"
  <2>1. st[p] = "done"
    <3>1. CASE u = t
      BY <1>1, <3>1, OneMoves DEF PrereqsDone, Ready
    <3>2. CASE u # t
      BY <1>1, <3>2, OneMoves DEF PrereqsDone, TInv, TypeOK
    <3> QED BY <3>1, <3>2
  <2>2. p # t
    BY <1>1, <2>1, OneMoves
  <2> QED BY <1>1, <2>1, <2>2, OneMoves DEF TInv, TypeOK
<1>2. CASE st' = [t \in Built |-> "todo"]
  BY <1>2
<1>3. CASE st' = st
  BY <1>3 DEF PrereqsDone
<1> QED BY <1>1, <1>2, <1>3, NextCases, NoneMoves

\* With several jobs no recipe runs while another writes a file it reads.
NoUnfinishedInput ==
  \A t \in Running : \A u \in Running \ {t} : Output(u) \notin Reads[t]

LEMMA DoneNoUnfinished == TInv /\ PrereqsDone => NoUnfinishedInput
<1> SUFFICES ASSUME TInv, PrereqsDone, NEW t \in Running, NEW u \in Running \ {t},
                    Output(u) \in Reads[t]
             PROVE  FALSE
  BY DEF NoUnfinishedInput
<1>1. t \in Built /\ u \in Built /\ st[t] # "todo" /\ st[u] # "done"
  BY DEF Running, Active
<1>2. u \in Prereqs[t]
  BY <1>1, ReadsPrereqs, BuiltTargets
<1> QED BY <1>1, <1>2 DEF PrereqsDone

-----------------------------------------------------------------------------
\* What a recipe step does to its own target and its records.
OwnEffect(t) ==
  \/ /\ there'[t] = there[t] /\ newer'[t] = newer[t] /\ cut' = cut
     /\ st'[t] = "done" => ~OutOfDate(t)
     /\ st'[t] \in Active => st[t] \in Active \/ OutOfDate(t)
     /\ st[t] \in Active /\ t[1] # "stamp" => st'[t] # "done"
  \/ /\ there'[t] = "whole" /\ newer'[t] = {} /\ st'[t] = "done" /\ st[t] \in Putting \cup {"touch"}
  \/ /\ t[1] # "stamp" /\ st'[t] = "failed" /\ st[t] \in Active
     /\ there'[t] = "absent" \/ (there'[t] = "damaged" /\ t \in cut')

\* And to another target u.
OtherEffect(t, u) ==
  /\ there'[u] = there[u] /\ there'[Output(u)] = there[Output(u)]
  /\ u \in cut' <=> u \in cut
  /\ u \in skipped' <=> u \in skipped
  /\ u \in raced' <=> u \in raced
  /\ used'[u] = used[u] /\ snap'[u] = snap[u]
  /\ \/ newer'[u] = newer[u] /\ (st'[t] = "done" => ~OutOfDate(t) \/ t \notin Prereqs[u] \/ there[u] = "absent")
     \/ /\ newer'[u] = newer[u] \cup {t} /\ t \in Prereqs[u]
        /\ st[t] \in Active

LEMMA OwnEffects ==
  ASSUME TInv, NEW t \in Built, RecipeStep(t)
  PROVE  OwnEffect(t)
<1>0. /\ st \in [Built -> Active \cup {"todo", "done", "failed"}]
      /\ there \in [Made -> {"absent", "damaged", "whole"}]
      /\ newer \in [Built -> SUBSET UNION {Prereqs[u] : u \in Built}]
      /\ t \in Made /\ Output(t) \in Made /\ Written(t)[t] = {}
      /\ "todo" \notin Active /\ "done" \notin Active /\ "failed" \notin Active
  BY MadeIs, WrittenIs DEF TInv, TypeOK, Active
<1>00. /\ t[1] = "stamp" => t # Output(t)
       /\ t[1] # "stamp" => t = Output(t)
       /\ t[1] \in {"stamp", "bin", "cpp", "pbc"}
  BY OutputOwn, BuiltTargets, TargetIsPair
<1> USE <1>0, <1>00 DEF OwnEffect, Step, fileVars, histVars
<1>1. CASE AlreadyMade(t)
  BY <1>1 DEF AlreadyMade, Ready
<1>2. CASE StartRecipe(t)
  BY <1>2 DEF StartRecipe, FirstStep
<1>3. CASE WriteWrapper(t)
  BY <1>3 DEF WriteWrapper, Active
<1>4. CASE ReadInputs(t)
  BY <1>4 DEF ReadInputs, Active
<1>5. CASE EmptyWrapper(t)
  BY <1>5 DEF EmptyWrapper, Active
<1>6. CASE PutOutput(t)
  BY <1>6 DEF PutOutput, Active, Putting
<1>7. CASE TouchStamp(t)
  BY <1>7 DEF TouchStamp, Active
<1>8. CASE RecipeFails(t)
  <2>1. CASE UNCHANGED <<there, newer, cut>>
    BY <1>8, <2>1 DEF RecipeFails, GiveUp, Active, Putting
  <2>2. CASE st[t] \in Putting /\ t[1] = "stamp"
    BY <1>8, <2>2 DEF RecipeFails, GiveUp, Active, Putting
  <2>3. CASE st[t] \in Putting /\ t[1] # "stamp"
    BY <1>8, <2>3 DEF RecipeFails, GiveUp, Active, Putting
  <2> QED BY <1>8, <2>1, <2>2, <2>3 DEF RecipeFails
<1> QED BY <1>1, <1>2, <1>3, <1>4, <1>5, <1>6, <1>7, <1>8 DEF RecipeStep

LEMMA OtherEffects ==
  ASSUME TInv, NEW t \in Built, RecipeStep(t), NEW u \in Built \ {t}
  PROVE  OtherEffect(t, u)
<1>0. /\ st \in [Built -> Active \cup {"todo", "done", "failed"}]
      /\ there \in [Made -> {"absent", "damaged", "whole"}]
      /\ newer \in [Built -> SUBSET UNION {Prereqs[v] : v \in Built}]
      /\ u \in Made /\ Output(u) \in Made
      /\ "done" \notin Active /\ "failed" \notin Active /\ "touch" \in Active
      /\ Putting \subseteq Active
      /\ IF t \in Prereqs[u] /\ there[u] # "absent" THEN Written(t)[u] = newer[u] \cup {t}
         ELSE Written(t)[u] = newer[u]
  BY MadeIs, WrittenIs DEF TInv, TypeOK, Active, Putting
<1>00. /\ u # t /\ u # Output(t) /\ Output(u) # Output(t) /\ Output(u) # t
       /\ t[1] \in {"stamp", "bin", "cpp", "pbc"}
  BY OutputOwn, BuiltTargets, TargetIsPair
<1>01. used = [v \in Built |-> used[v]] /\ snap = [v \in Built |-> snap[v]]
  BY DEF TInv
<1> USE <1>0, <1>00 DEF OtherEffect, Step, fileVars, histVars
<1>1. CASE AlreadyMade(t)
  <2>1. ~OutOfDate(t) /\ UNCHANGED <<there, newer, used, snap, cut, skipped, raced>>
    BY <1>1 DEF AlreadyMade
  <2> QED BY <2>1
<1>2. CASE StartRecipe(t)
  BY <1>2 DEF StartRecipe, FirstStep
<1>3. CASE WriteWrapper(t)
  BY <1>3 DEF WriteWrapper
<1>4. CASE ReadInputs(t)
  BY <1>01, <1>4 DEF ReadInputs
<1>5. CASE EmptyWrapper(t)
  BY <1>5 DEF EmptyWrapper
<1>6. CASE PutOutput(t)
  BY <1>01, <1>6 DEF PutOutput
<1>7. CASE TouchStamp(t)
  BY <1>7 DEF TouchStamp
<1>8. CASE RecipeFails(t)
  <2>1. st'[t] # "done"
    BY <1>8 DEF RecipeFails, GiveUp
  <2>2. /\ there'[u] = there[u] /\ there'[Output(u)] = there[Output(u)]
        /\ u \in cut' <=> u \in cut
        /\ newer' \in {newer, [newer EXCEPT ![t] = {}]} \/ (newer' = Written(t) /\ st[t] \in Active)
    BY <1>8 DEF RecipeFails
  <2>3. snap'[u] = snap[u] /\ UNCHANGED <<used, skipped, raced>>
    BY <1>01, <1>8 DEF RecipeFails
  <2> QED BY <2>1, <2>2, <2>3
<1> QED BY <1>1, <1>2, <1>3, <1>4, <1>5, <1>6, <1>7, <1>8 DEF RecipeStep

\* What a make stopped half-way leaves of u's target and output.
StopEffect(u) ==
  /\ u \notin Running => there'[Output(u)] = there[Output(u)]
  /\ \/ there'[u] = there[u] /\ newer[u] \subseteq newer'[u] /\ (u \in cut => u \in cut')
     \/ u[1] # "stamp" /\ u \in Running
        /\ (there'[u] = "absent" \/ (there'[u] = "damaged" /\ u \in cut'))
  /\ \A p \in newer'[u] \ newer[u] : p \in Running \cap Prereqs[u]
  /\ u \notin Running /\ u \in cut' => u \in cut

LEMMA StopEffects ==
  ASSUME TInv, NEW d \in {"absent", "damaged"}, Stop(d), NEW u \in Built
  PROVE  StopEffect(u)
<1>1. PICK hit \in SUBSET {t \in Running : st[t] \in Putting} :
        LET after(t) == IF t[1] = "stamp" THEN "damaged" ELSE d
            own == {t \in hit : t[1] # "stamp"} IN
        /\ there' = [f \in Made |->
              IF \E t \in hit : f = Output(t) THEN after(CHOOSE t \in hit : f = Output(t)) ELSE there[f]]
        /\ newer' = [t \in Built |->
              IF t \in own THEN {}
              ELSE IF there[t] = "absent" \/ d = "absent" THEN newer[t]
              ELSE newer[t] \cup (own \cap Prereqs[t])]
        /\ cut' = IF d = "damaged" THEN cut \cup own ELSE cut \ own
  BY DEF Stop
<1> DEFINE own == {t \in hit : t[1] # "stamp"}
<1>2. hit \subseteq Running /\ hit \subseteq Built /\ Built \subseteq Targets
  BY BuiltTargets DEF Running
<1>3. \A t \in hit : Output(t) = u => t = u /\ u[1] # "stamp"
  BY <1>2, OutputOwn
<1>4. \A t \in hit : Output(t) = Output(u) => t = u
  BY <1>2, OutputOwn
<1>5. u \in Made /\ Output(u) \in Made
  BY MadeIs
<1>6. u \notin Running => there'[Output(u)] = there[Output(u)]
  BY <1>1, <1>2, <1>4, <1>5
<1>7. \A p \in newer'[u] \ newer[u] : p \in Running \cap Prereqs[u]
  BY <1>1, <1>2
<1>8. u \notin Running /\ u \in cut' => u \in cut
  BY <1>1, <1>2
<1>9. CASE u \notin own
  <2>1. there'[u] = there[u]
    <3>1. \A t \in hit : u # Output(t)
      BY <1>3, <1>9
    <3> QED BY <1>1, <1>5, <3>1
  <2>2. newer[u] \subseteq newer'[u] /\ (u \in cut => u \in cut')
    BY <1>1, <1>9
  <2> QED BY <1>6, <1>7, <1>8, <2>1, <2>2 DEF StopEffect
<1>10. CASE u \in own
  <2>1. u[1] # "stamp" /\ u \in Running /\ u \in hit /\ u = Output(u)
    BY <1>2, <1>10, OutputOwn
  <2>2. \A t \in hit : u = Output(t) => t = u
    BY <1>3
  <2>3. (CHOOSE t \in hit : u = Output(t)) = u
    BY <2>1, <2>2
  <2>4. there'[u] = d
    BY <1>1, <1>5, <2>1, <2>3
  <2>5. d = "damaged" => u \in cut'
    BY <1>1, <1>10
  <2> QED BY <1>6, <1>7, <1>8, <2>1, <2>4, <2>5 DEF StopEffect
<1> QED BY <1>9, <1>10

\* And what an edit of s leaves.
LEMMA EditEffects ==
  ASSUME TInv, NEW s \in Editable, Edit(s), NEW u \in Built
  PROVE  /\ s \in Sources /\ s # u
         /\ IF s \in Prereqs[u] /\ there[u] # "absent" THEN newer'[u] = newer[u] \cup {s}
            ELSE newer'[u] = newer[u]
         /\ newer[u] \subseteq newer'[u]
<1>1. s \in Sources
  BY EditableAssumption
<1>2. s # u
  BY <1>1, SourcesApart
<1> QED BY <1>1, <1>2, WrittenIs DEF Edit
-----------------------------------------------------------------------------
\* A target stays out of date until its recipe is through.
Undone == \A t \in Running : OutOfDate(t)

\* In a make during which nothing is edited, what is done is as new as can be.
DoneIsNew == quiet => \A t \in Built : st[t] = "done" => ~OutOfDate(t)

\* So is what is fresh, and all it depends on.
FreshIsNew ==
  \A t \in fresh : ~OutOfDate(t) /\ t \notin Running /\ Prereqs[t] \cap Built \subseteq fresh

NewInv == PrereqsDone /\ Undone /\ DoneIsNew /\ FreshIsNew

\* Out of date stays out of date as long as the target itself is not made.
LEMMA StaysOutOfDate ==
  ASSUME NEW u, OutOfDate(u), there'[u] = there[u], newer[u] \subseteq newer'[u]
  PROVE  OutOfDate(u)'
  BY DEF OutOfDate

LEMMA RecipeNewInv ==
  ASSUME TInv, NewInv, NEW t \in Built, RecipeStep(t)
  PROVE  Undone' /\ DoneIsNew' /\ FreshIsNew'
<1>0. /\ st \in [Built -> Active \cup {"todo", "done", "failed"}] /\ "done" \notin Active
      /\ st' = [st EXCEPT ![t] = st'[t]] /\ fresh' = fresh /\ quiet' = quiet
  BY OneMoves DEF TInv, TypeOK, Active
<1>1. OwnEffect(t) /\ \A u \in Built \ {t} : OtherEffect(t, u)
  BY OwnEffects, OtherEffects
<1>2. ASSUME NEW u \in Built, u # t, OutOfDate(u) PROVE OutOfDate(u)'
  <2>1. there'[u] = there[u] /\ newer[u] \subseteq newer'[u]
    BY <1>1, <1>2 DEF OtherEffect
  <2> QED BY <1>2, <2>1, StaysOutOfDate
<1>3. ASSUME NEW u \in Built, u # t, ~OutOfDate(u), t \in Prereqs[u] => t \notin Running
      PROVE  ~OutOfDate(u)'
  <2>1. there'[u] = there[u] /\ newer'[u] = newer[u]
    BY <1>1, <1>3 DEF OtherEffect, Running
  <2> QED BY <1>3, <2>1 DEF OutOfDate
<1>4. Undone'
  <2> SUFFICES ASSUME NEW u \in Running' PROVE OutOfDate(u)'
    BY DEF Undone
  <2>1. u \in Built /\ st'[u] \in Active
    BY DEF Running, Active
  <2>2. CASE u # t
    <3>1. u \in Running
      BY <1>0, <2>1, <2>2 DEF Running
    <3> QED BY <1>2, <2>1, <2>2, <3>1 DEF NewInv, Undone
  <2>3. CASE u = t
    <3>1. /\ there'[t] = there[t] /\ newer'[t] = newer[t]
          /\ st[t] \in Active \/ OutOfDate(t)
      BY <1>1, <2>1, <2>3 DEF OwnEffect, Active
    <3>2. OutOfDate(t)
      BY <3>1 DEF NewInv, Undone, Running
    <3> QED BY <2>3, <3>1, <3>2 DEF OutOfDate
  <2> QED BY <2>2, <2>3
<1>5. DoneIsNew'
  <2> SUFFICES ASSUME quiet', NEW u \in Built, st'[u] = "done" PROVE ~OutOfDate(u)'
    BY DEF DoneIsNew
  <2>1. CASE u # t
    <3>1. st[u] = "done" /\ ~OutOfDate(u)
      BY <1>0, <2>1 DEF NewInv, DoneIsNew
    <3>2. t \in Prereqs[u] => t \notin Running
      BY <1>0, <3>1 DEF NewInv, PrereqsDone, Running
    <3> QED BY <1>3, <2>1, <3>1, <3>2
  <2>2. CASE u = t
    BY <1>1, <2>2 DEF OwnEffect, OutOfDate
  <2> QED BY <2>1, <2>2
<1>6. FreshIsNew'
  <2> SUFFICES ASSUME NEW u \in fresh
               PROVE  ~OutOfDate(u)' /\ u \notin Running' /\ Prereqs[u] \cap Built \subseteq fresh
    BY <1>0 DEF FreshIsNew
  <2>1. u \in Built /\ ~OutOfDate(u) /\ u \notin Running /\ Prereqs[u] \cap Built \subseteq fresh
    BY DEF NewInv, FreshIsNew, TInv, TypeOK
  <2>2. CASE u # t
    <3>1. t \in Prereqs[u] => t \notin Running
      BY <2>1 DEF NewInv, FreshIsNew
    <3>2. u \notin Running'
      BY <1>0, <2>1, <2>2 DEF Running
    <3> QED BY <1>3, <2>1, <2>2, <3>1, <3>2
  <2>3. CASE u = t
    <3>1. /\ there'[t] = there[t] /\ newer'[t] = newer[t] /\ st'[t] \notin Active
      BY <1>1, <2>1, <2>3 DEF OwnEffect, Running, Putting, Active
    <3> QED BY <2>1, <2>3, <3>1 DEF OutOfDate, Running
  <2> QED BY <2>2, <2>3
<1> QED BY <1>4, <1>5, <1>6

LEMMA EditNewInv ==
  ASSUME TInv, NewInv, NEW s \in Editable, Edit(s)
  PROVE  Undone' /\ DoneIsNew' /\ FreshIsNew'
<1>0. st' = st /\ there' = there /\ quiet' = (make = "idle") /\ fresh' = fresh \ Dependents[s]
  BY DEF Edit
<1>1. Undone'
  BY <1>0, EditEffects, StaysOutOfDate DEF NewInv, Undone, Running
<1>2. DoneIsNew'
  BY <1>0 DEF DoneIsNew, TInv
<1>3. FreshIsNew'
  <2> SUFFICES ASSUME NEW u \in fresh'
               PROVE  ~OutOfDate(u)' /\ u \notin Running' /\ Prereqs[u] \cap Built \subseteq fresh'
    BY DEF FreshIsNew
  <2>1. /\ u \in fresh /\ u \in Built /\ u \in Targets /\ ~OutOfDate(u) /\ u \notin Running
        /\ Prereqs[u] \cap Built \subseteq fresh
    BY <1>0, BuiltTargets DEF NewInv, FreshIsNew, TInv, TypeOK
  <2>2. s \in Sources
    BY EditableAssumption
  <2>3. s \notin Reach(Prereqs[u])
    BY <1>0, <2>1, <2>2 DEF Dependents
  <2>4. s \notin Prereqs[u]
    BY <2>3, ReachHas
  <2>5. newer'[u] = newer[u]
    BY <2>1, <2>4, EditEffects
  <2>6. ASSUME NEW p \in Prereqs[u] \cap Built PROVE p \in fresh'
    <3>1. s \notin Reach(Prereqs[p])
      BY <2>1, <2>3, ReachOfPrereq, BuiltTargets
    <3> QED BY <1>0, <2>1, <2>2, <3>1 DEF Dependents
  <2> QED BY <1>0, <2>1, <2>5, <2>6 DEF OutOfDate, Running
<1> QED BY <1>1, <1>2, <1>3

LEMMA EndNewInv ==
  ASSUME TInv, NewInv, EndMake
  PROVE  Undone' /\ DoneIsNew' /\ FreshIsNew'
<1>0. st' = [t \in Built |-> "todo"] /\ there' = there /\ newer' = newer /\ Running = {}
  BY DEF EndMake, Idle, fileVars
<1>1. Running' = {}
  BY <1>0 DEF Running, Active
<1>2. Undone' /\ DoneIsNew'
  BY <1>0, <1>1 DEF Undone, DoneIsNew
<1>3. FreshIsNew'
  <2> SUFFICES ASSUME NEW u \in fresh'
               PROVE  ~OutOfDate(u) /\ Prereqs[u] \cap Built \subseteq fresh'
    BY <1>0, <1>1 DEF FreshIsNew, OutOfDate
  <2>1. CASE u \in fresh
    <3>1. fresh \subseteq fresh'
      BY DEF EndMake
    <3> QED BY <2>1, <3>1 DEF NewInv, FreshIsNew
  <2>2. CASE u \notin fresh
    <3>1. /\ make = "running" /\ quiet /\ u \in Wanted[goal] /\ st[u] = "done"
          /\ fresh' = fresh \cup Wanted[goal]
      BY <2>2 DEF EndMake
    <3>2. goal \in DOMAIN Goals
      BY <3>1 DEF TInv
    <3>3. u \in Built /\ Prereqs[u] \cap Targets \subseteq Wanted[goal] /\ Built \subseteq Targets
      BY <3>1, <3>2, BuiltTargets
    <3> QED BY <3>1, <3>3 DEF NewInv, DoneIsNew
  <2> QED BY <2>1, <2>2
<1> QED BY <1>2, <1>3

LEMMA StopNewInv ==
  ASSUME TInv, NewInv, NEW d \in {"absent", "damaged"}, Stop(d)
  PROVE  Undone' /\ DoneIsNew' /\ FreshIsNew'
<1>0. st' = [t \in Built |-> "todo"] /\ fresh' = fresh
  BY DEF Stop, Idle
<1>1. Running' = {}
  BY <1>0 DEF Running, Active
<1>2. Undone' /\ DoneIsNew'
  BY <1>0, <1>1 DEF Undone, DoneIsNew
<1>3. FreshIsNew'
  <2> SUFFICES ASSUME NEW u \in fresh PROVE ~OutOfDate(u)' /\ Prereqs[u] \cap Built \subseteq fresh
    BY <1>0, <1>1 DEF FreshIsNew
  <2>1. u \in Built /\ ~OutOfDate(u) /\ u \notin Running /\ Prereqs[u] \cap Built \subseteq fresh
    BY DEF NewInv, FreshIsNew, TInv, TypeOK
  <2>2. there'[u] = there[u]
    BY <2>1, StopEffects DEF StopEffect
  <2>3. newer'[u] = {}
    <3>1. newer[u] = {}
      BY <2>1 DEF OutOfDate
    <3>2. \A p \in newer'[u] : p \in Running /\ p \in Prereqs[u] /\ p \in Built
      BY <2>1, <3>1, StopEffects DEF StopEffect, Running
    <3>3. \A p \in newer'[u] : FALSE
      BY <2>1, <3>2 DEF NewInv, FreshIsNew
    <3> QED BY <3>3
  <2> QED BY <2>1, <2>2, <2>3 DEF OutOfDate
<1> QED BY <1>2, <1>3

LEMMA InitNewInv == Init => NewInv
  BY InitPrereqsDone, Zenon DEF Init, NewInv, Undone, DoneIsNew, FreshIsNew, Running, Active

LEMMA StepNewInv == TInv /\ NewInv /\ [Next]_vars => NewInv'
<1> SUFFICES ASSUME TInv, NewInv, [Next]_vars PROVE Undone' /\ DoneIsNew' /\ FreshIsNew'
  BY StepPrereqsDone DEF NewInv
<1>1. CASE StartMake
  <2>1. \A t \in Built : st[t] = "todo"
    BY <1>1 DEF StartMake, TInv
  <2> QED BY <1>1, <2>1 DEF StartMake, fileVars, NewInv, Undone, DoneIsNew, FreshIsNew, OutOfDate, Running
<1>2. CASE Clean
  <2>1. /\ \A t \in Built : st[t] = "todo" /\ Running = {}
        /\ fresh' = {} /\ st' = st
    BY <1>2 DEF Clean, TInv, Running, Active
  <2> QED BY <2>1 DEF Undone, DoneIsNew, FreshIsNew, Running
<1>3. CASE UNCHANGED vars
  BY <1>3 DEF vars, NewInv, Undone, DoneIsNew, FreshIsNew, OutOfDate, Running, Active
<1> QED BY <1>1, <1>2, <1>3, RecipeNewInv, EditNewInv, EndNewInv, StopNewInv, NextCases

\* What a make that succeeded unedited has made or found made is left alone by every later
\* make until something it depends on is edited, even while makes fail, are interrupted or
\* killed (the stamps and time stamps of mk/nanopb.mk, mk/examples.mk and mk/proto.mk).
THEOREM NothingIsMadeTwice == Spec => NothingMadeTwice
<1>1. ASSUME TInv, NewInv, [Next]_vars, NEW u \in Built, u \in remade' \ remade
      PROVE  u \notin fresh
  <2>1. ASSUME NEW t \in Built, RecipeStep(t) PROVE u \notin fresh
    <3>1. CASE StartRecipe(t)
      BY <1>1, <3>1 DEF StartRecipe, NewInv, FreshIsNew
    <3>2. CASE remade' = remade
      BY <1>1, <3>2
    <3> QED BY <2>1, <3>1, <3>2
            DEF RecipeStep, AlreadyMade, WriteWrapper, ReadInputs, EmptyWrapper, PutOutput,
                TouchStamp, RecipeFails, histVars
  <2>2. remade' \in {{}, remade} => u \notin fresh
    BY <1>1
  <2> QED BY <1>1, <2>1, <2>2, NextCases
          DEF Edit, StartMake, EndMake, Clean, Stop, Idle, vars
<1>2. TInv /\ NewInv /\ [Next]_vars => [\A t \in Built : t \in remade' \ remade => t \notin fresh]_vars
  BY <1>1
<1> QED BY <1>2, InitTInv, StepTInv, InitNewInv, StepNewInv, PTL DEF Spec, NothingMadeTwice
-----------------------------------------------------------------------------
\* What a target's records say of its output: a stamp's module is whole once it is put, and
\* while the stamp stands; any other target that is damaged is known to be.
StampComplete(t) ==
  /\ st[t] = "touch" /\ t \notin skipped => there[Output(t)] = "whole"
  /\ t \notin Running \cup skipped /\ ~OutOfDate(t) => there[Output(t)] = "whole"
Complete ==
  \A t \in Built : IF t[1] = "stamp" THEN StampComplete(t) ELSE there[t] = "damaged" => t \in cut

LEMMA StampStep ==
  ASSUME TInv, NewInv, NEW t \in Built, RecipeStep(t), t[1] = "stamp", StampComplete(t)
  PROVE  StampComplete(t)'
<1>0. /\ st \in [Built -> Active \cup {"todo", "done", "failed"}]
      /\ there \in [Made -> {"absent", "damaged", "whole"}]
      /\ t \in Made /\ Output(t) \in Made /\ t # Output(t)
      /\ st[t] \in Active => OutOfDate(t)
      /\ Output(t)' = Output(t)
  BY MadeIs, OutputOwn, BuiltTargets DEF TInv, TypeOK, NewInv, Undone, Running, Output
<1>1. \A x : x \in Active <=> x \in {"wrap", "fill", "read", "put", "retry", "put_again", "touch"}
  BY DEF Active
<1>2. (t \in Running <=> st[t] \in Active) /\ (t \in Running' <=> st'[t] \in Active)
  BY DEF Running, Active
<1>3. UNCHANGED <<there, newer>> => (OutOfDate(t)' <=> OutOfDate(t))
  BY DEF OutOfDate
<1> USE <1>0, <1>1, <1>2, <1>3 DEF StampComplete, Step, fileVars, histVars
<1>4. CASE AlreadyMade(t)
  BY <1>4 DEF AlreadyMade, Ready
<1>5. CASE StartRecipe(t)
  <2>1. st'[t] \in {"wrap", "read"} /\ UNCHANGED <<there, newer>> /\ OutOfDate(t)
    BY <1>5 DEF StartRecipe, FirstStep
  <2> QED BY <2>1
<1>6. CASE WriteWrapper(t)
  <2>1. st'[t] \in {"fill", "read"} /\ UNCHANGED <<there, newer>>
    BY <1>6 DEF WriteWrapper
  <2> QED BY <2>1
<1>7. CASE ReadInputs(t)
  <2>1. st'[t] \in {"put", "put_again"} /\ UNCHANGED <<there, newer>>
    BY <1>7 DEF ReadInputs
  <2> QED BY <2>1
<1>8. CASE EmptyWrapper(t)
  <2>1. t \in skipped' /\ st'[t] = "touch"
    BY <1>8 DEF EmptyWrapper
  <2> QED BY <2>1
<1>9. CASE PutOutput(t)
  <2>1. there'[Output(t)] = "whole" /\ st'[t] = "touch"
    BY <1>9 DEF PutOutput
  <2> QED BY <2>1
<1>10. CASE TouchStamp(t)
  <2>1. st'[t] = "done" /\ there'[Output(t)] = there[Output(t)] /\ st[t] = "touch" /\ skipped' = skipped
    BY <1>10 DEF TouchStamp
  <2> QED BY <2>1
<1>11. CASE RecipeFails(t)
  <2>1. there'[t] = there[t] /\ newer' = newer /\ st[t] \in Active /\ st'[t] \in {"failed", "retry"}
    BY <1>11 DEF RecipeFails, GiveUp, Putting
  <2>2. OutOfDate(t)'
    BY <2>1 DEF OutOfDate
  <2> QED BY <2>1, <2>2
<1> QED BY <1>4, <1>5, <1>6, <1>7, <1>8, <1>9, <1>10, <1>11 DEF RecipeStep

\* A stamp keeps what it stands for while its own recipe does not move.
LEMMA StampKept ==
  ASSUME NEW u \in Built, StampComplete(u), st'[u] = st[u] \/ st'[u] = "todo",
         u \notin Running \/ st'[u] = st[u], u \in skipped' <=> u \in skipped,
         there'[u] = there[u], there'[Output(u)] = there[Output(u)], newer[u] \subseteq newer'[u]
  PROVE  StampComplete(u)'
<1>1. ~OutOfDate(u)' => ~OutOfDate(u)
  BY StaysOutOfDate
<1>2. (u \in Running <=> st[u] \in Active) /\ (u \in Running' <=> st'[u] \in Active)
  BY DEF Running, Active
<1>3. Output(u)' = Output(u) /\ "todo" \notin Active
  BY DEF Output, Active
<1> QED BY <1>1, <1>2, <1>3 DEF StampComplete

LEMMA RecipeComplete ==
  ASSUME TInv, NewInv, Complete, NEW t \in Built, RecipeStep(t), NEW u \in Built
  PROVE  IF u[1] = "stamp" THEN StampComplete(u)' ELSE there'[u] = "damaged" => u \in cut'
<1>1. OwnEffect(t) /\ (u # t => OtherEffect(t, u)) /\ (u # t => st'[u] = st[u])
  BY OwnEffects, OtherEffects, OneMoves DEF TInv, TypeOK
<1>2. IF u[1] = "stamp" THEN StampComplete(u) ELSE there[u] = "damaged" => u \in cut
  BY DEF Complete
<1>3. CASE u = t
  BY <1>1, <1>2, <1>3, StampStep DEF OwnEffect
<1>4. CASE u # t
  BY <1>1, <1>2, <1>4, StampKept DEF OtherEffect
<1> QED BY <1>3, <1>4

LEMMA StopComplete ==
  ASSUME TInv, NewInv, Complete, NEW d \in {"absent", "damaged"}, Stop(d), NEW u \in Built
  PROVE  IF u[1] = "stamp" THEN StampComplete(u)' ELSE there'[u] = "damaged" => u \in cut'
<1>1. StopEffect(u) /\ st'[u] = "todo" /\ skipped' = skipped
  BY StopEffects DEF Stop, Idle
<1>2. IF u[1] = "stamp" THEN StampComplete(u) ELSE there[u] = "damaged" => u \in cut
  BY DEF Complete
<1>3. CASE u[1] # "stamp"
  BY <1>1, <1>2, <1>3 DEF StopEffect
<1>4. CASE u[1] = "stamp" /\ u \notin Running
  BY <1>1, <1>2, <1>4, StampKept DEF StopEffect
<1>5. CASE u[1] = "stamp" /\ u \in Running
  <2>1. OutOfDate(u)'
    BY <1>1, <1>5, StaysOutOfDate DEF StopEffect, NewInv, Undone
  <2> QED BY <1>1, <1>5, <2>1 DEF StampComplete
<1> QED BY <1>3, <1>4, <1>5

LEMMA InitComplete == Init => Complete
<1> SUFFICES ASSUME Init, NEW t \in Built
             PROVE  there[t] = "absent" /\ OutOfDate(t) /\ st[t] = "todo"
  BY DEF Complete, StampComplete
<1> QED BY MadeIs DEF Init, OutOfDate

LEMMA StepComplete == TInv /\ NewInv /\ Complete /\ [Next]_vars => Complete'
<1> SUFFICES ASSUME TInv, NewInv, Complete, [Next]_vars, NEW u \in Built
             PROVE  IF u[1] = "stamp" THEN StampComplete(u)' ELSE there'[u] = "damaged" => u \in cut'
  BY DEF Complete
<1>0. IF u[1] = "stamp" THEN StampComplete(u) ELSE there[u] = "damaged" => u \in cut
  BY DEF Complete
<1>1. CASE Clean
  <2>1. there'[u] = "absent" /\ st' = st /\ st[u] = "todo"
    BY <1>1, MadeIs DEF Clean, TInv
  <2>2. OutOfDate(u)'
    BY <2>1 DEF OutOfDate
  <2> QED BY <2>1, <2>2 DEF StampComplete
<1>2. CASE EndMake
  <2>1. /\ st'[u] = "todo" /\ u \notin Running
        /\ UNCHANGED <<there, newer, skipped, cut>>
    BY <1>2 DEF EndMake, Idle, fileVars
  <2> QED BY <1>0, <2>1, StampKept
<1>3. CASE \E s \in Editable : Edit(s)
  <2>1. newer[u] \subseteq newer'[u] /\ UNCHANGED <<st, there, skipped, cut>>
    BY <1>3, EditEffects DEF Edit
  <2> QED BY <1>0, <2>1, StampKept
<1>4. CASE StartMake \/ UNCHANGED vars
  <2>1. UNCHANGED <<st, there, newer, skipped, cut>>
    BY <1>4 DEF StartMake, fileVars, vars
  <2> QED BY <1>0, <2>1, StampKept
<1> QED BY <1>1, <1>2, <1>3, <1>4, RecipeComplete, StopComplete, NextCases

\* A stamp that nothing is newer than stands for complete generated files, wherever a
\* generator failed, was interrupted or was killed: the stamp is touched only after the
\* files are there, and is older than something until then (the stamp rule of
\* mk/nanopb.mk).  The exception is a generator that met another job's empty wrapper.
THEOREM StampsStandForFiles == Spec => []StampMeansGenerated
<1>1. Complete => StampMeansGenerated
  BY DEF Complete, StampComplete, StampMeansGenerated
<1> QED BY <1>1, InitTInv, StepTInv, InitNewInv, StepNewInv, InitComplete, StepComplete, PTL DEF Spec
-----------------------------------------------------------------------------
\* A change to f that t can only hear of through a stamp that is not yet made again.
Awaits(t, f) ==
  \E p \in Prereqs[t] \cap Built :
    p[1] = "stamp" /\ (f \in Prereqs[p] \/ f = Output(p)) /\ OutOfDate(p)

\* c records what t's recipe would read now, but for what t awaits.
Has(t, c) == \A f \in Reads[t] \ Unnamed(t) : c[f] = Content(f) \/ Awaits(t, f)

\* What a recipe has read stays so until it is put, and what it put stays so while the
\* target is up to date, unless a prerequisite was edited in between.
SnapOK == \A t \in Built : st[t] \in Putting /\ t \notin raced => Has(t, snap[t])
UsedOK ==
  \A t \in Built \ (raced \cup cut \cup skipped) :
    (t \notin Running /\ ~OutOfDate(t)) \/ st[t] = "touch" => Has(t, used[t])
HasInv == SnapOK /\ UsedOK

LEMMA ContentIsNext ==
  /\ \A f \in Sources : Content(f)' = ver'[f]
  /\ \A p \in Built : Content(Output(p))' = used'[p]
<1> SUFFICES ASSUME NEW p \in Built PROVE Content(Output(p))' = used'[p]
  BY DEF Content
<1>1. Output(p) \notin Sources
  BY SourcesApart
<1>2. p = <<p[1], p[2]>> /\ p[1] \in {"stamp", "bin", "cpp", "pbc"}
  BY BuiltTargets, TargetIsPair
<1>3. CASE p[1] = "stamp"
  <2>1. Output(p)[1] = "pb" /\ Output(p)[2] = p[2]
    BY <1>3 DEF Output
  <2>2. p = <<"stamp", Output(p)[2]>>
    BY <1>2, <1>3, <2>1
  <2> QED BY <1>1, <2>1, <2>2 DEF Content
<1>4. CASE p[1] # "stamp"
  BY <1>1, <1>2, <1>4 DEF Content, Output
<1> QED BY <1>3, <1>4

\* What a record needs to stay good over a step.
LEMMA HasKept ==
  ASSUME NEW t \in Built, NEW c, Has(t, c),
         \A s \in Sources \cap Prereqs[t] : ver'[s] = ver[s],
         \A p \in Prereqs[t] \cap Built : p[1] = "stamp" /\ OutOfDate(p) => OutOfDate(p)',
         \A p \in Prereqs[t] \cap Built : used'[p] = used[p] \/ (p[1] = "stamp" /\ OutOfDate(p)'),
         \A p \in Prereqs[t] \cap Built : \A s \in Sources \cap Prereqs[p] :
            p[1] = "stamp" => ver'[s] = ver[s] \/ OutOfDate(p)'
  PROVE  Has(t, c)'
<1> SUFFICES ASSUME NEW f \in Reads[t] \ Unnamed(t)
             PROVE  c[f] = Content(f)' \/ Awaits(t, f)'
  BY DEF Has, Unnamed
<1>1. c[f] = Content(f) \/ Awaits(t, f)
  BY DEF Has
<1>2. Awaits(t, f) => Awaits(t, f)'
  BY DEF Awaits, Output
<1>3. ASSUME NEW p \in Prereqs[t] \cap Built, p[1] = "stamp", f \in Prereqs[p] \/ f = Output(p),
             OutOfDate(p)'
      PROVE  Awaits(t, f)'
  BY <1>3 DEF Awaits, Output
<1>4. CASE f \in Prereqs[t] /\ f \in Sources
  BY <1>1, <1>2, <1>4, ContentIs, ContentIsNext
<1>5. CASE f \in Prereqs[t] /\ f \in Built /\ f[1] # "stamp"
  <2>1. Output(f) = f
    BY <1>5 DEF Output
  <2> QED BY <1>1, <1>2, <1>5, <2>1, ContentIs, ContentIsNext
<1>6. ASSUME NEW p \in Prereqs[t] \cap Built, p[1] = "stamp",
             (f \in Prereqs[p] /\ f \in Sources) \/ f = Output(p)
      PROVE  c[f] = Content(f)' \/ Awaits(t, f)'
  <2>1. CASE f \in Prereqs[p] /\ f \in Sources
    BY <1>1, <1>2, <1>3, <1>6, <2>1, ContentIs, ContentIsNext
  <2>2. CASE f = Output(p)
    BY <1>1, <1>2, <1>3, <1>6, <2>2, ContentIs, ContentIsNext
  <2> QED BY <1>6, <2>1, <2>2
<1> QED BY <1>4, <1>5, <1>6, NamedReads

\* Only the recipe of x changes what x is said to hold; a stamp's does it before the touch.
LEMMA UsedChanges ==
  ASSUME TInv, NEW x \in Built, RecipeStep(x)
  PROVE  \/ used'[x] = used[x]
         \/ x \in Running /\ (IF x[1] = "stamp" THEN st'[x] # "done" ELSE st'[x] = "done")
<1>0. st \in [Built -> Active \cup {"todo", "done", "failed"}]
  BY DEF TInv, TypeOK
<1>1. CASE PutOutput(x)
  BY <1>0, <1>1 DEF PutOutput, Running, Putting, Active, Step
<1>2. CASE used' = used
  BY <1>2
<1> QED BY <1>1, <1>2
        DEF RecipeStep, AlreadyMade, StartRecipe, WriteWrapper, ReadInputs, EmptyWrapper,
            TouchStamp, RecipeFails, fileVars

\* A recipe step of x, a prerequisite of t or not, leaves t's record good or t out of date.
LEMMA RecipeKeeps ==
  ASSUME TInv, NewInv, NEW x \in Built, RecipeStep(x), NEW t \in Built, NEW c, Has(t, c),
         t \in Running \/ ~OutOfDate(t)' \/ t = x
  PROVE  Has(t, c)'
<1>0. /\ ver' = ver /\ OwnEffect(x)
      /\ \A p \in Built \ {x} : OtherEffect(x, p)
  BY OneMoves, OwnEffects, OtherEffects
<1>1. ASSUME NEW p \in Built, p # x
      PROVE  used'[p] = used[p] /\ (OutOfDate(p) => OutOfDate(p)')
  <2>1. used'[p] = used[p] /\ there'[p] = there[p] /\ newer[p] \subseteq newer'[p]
    BY <1>0, <1>1 DEF OtherEffect
  <2> QED BY <2>1, StaysOutOfDate
<1>2. CASE x \notin Prereqs[t]
  BY <1>0, <1>1, <1>2, HasKept
<1>3. CASE x \in Prereqs[t]
  <2>1. x # t
    BY <1>3, RankFalls, BuiltTargets
  <2>2. t \notin Running
    <3>1. st[x] # "done"
      BY OneMoves
    <3> QED BY <1>3, <3>1 DEF NewInv, PrereqsDone, Running, Active
  <2>3. ~OutOfDate(t)'
    BY <2>1, <2>2
  <2>4. there[t] # "absent" /\ newer'[t] = {} /\ OtherEffect(x, t)
    BY <1>0, <2>1, <2>3 DEF OtherEffect, OutOfDate
  <2>5. st'[x] = "done" => ~OutOfDate(x)
    BY <1>3, <2>4 DEF OtherEffect
  <2>6. x[1] = "stamp" /\ OutOfDate(x) => OutOfDate(x)'
    <3>1. x[1] = "stamp" /\ OutOfDate(x) => there'[x] = there[x] /\ newer'[x] = newer[x]
      BY <1>0, <2>5 DEF OwnEffect
    <3> QED BY <3>1 DEF OutOfDate
  <2>7. used'[x] = used[x] \/ (x[1] = "stamp" /\ OutOfDate(x)')
    <3>1. x \in Running => OutOfDate(x)
      BY DEF NewInv, Undone
    <3> QED BY <2>5, <2>6, <3>1, UsedChanges
  <2> QED BY <1>0, <1>1, <2>6, <2>7, HasKept
<1> QED BY <1>2, <1>3

\* An edit does, unless it is of a prerequisite of t.
LEMMA EditKeeps ==
  ASSUME TInv, NEW s \in Editable, Edit(s), NEW t \in Built, s \notin Prereqs[t], NEW c, Has(t, c)
  PROVE  Has(t, c)'
<1>0. s \in Sources /\ used' = used /\ there' = there
  BY EditableAssumption DEF Edit
<1>1. \A f \in Sources \ {s} : ver'[f] = ver[f]
  BY DEF Edit, TInv, TypeOK
<1>2. \A p \in Built : OutOfDate(p) => OutOfDate(p)'
  BY <1>0, EditEffects, StaysOutOfDate
<1>3. \A p \in Built : s \in Prereqs[p] => OutOfDate(p)'
  BY <1>0, EditEffects DEF OutOfDate
<1> QED BY <1>0, <1>1, <1>2, <1>3, HasKept

\* So does a step that only adds to what is newer.
LEMMA OthersKeep ==
  ASSUME NEW t \in Built, NEW c, Has(t, c), UNCHANGED <<ver, used>>,
         \A p \in Built : p[1] = "stamp" => there'[p] = there[p] /\ newer[p] \subseteq newer'[p]
  PROVE  Has(t, c)'
<1>1. \A p \in Built : p[1] = "stamp" /\ OutOfDate(p) => OutOfDate(p)'
  BY StaysOutOfDate
<1> QED BY <1>1, HasKept

LEMMA RecipeSnapOK ==
  ASSUME TInv, NewInv, HasInv, NEW x \in Built, RecipeStep(x), NEW t \in Built,
         st'[t] \in Putting, t \notin raced'
  PROVE  Has(t, snap[t])'
<1>0. /\ st \in [Built -> Active \cup {"todo", "done", "failed"}]
      /\ st' = [st EXCEPT ![x] = st'[x]] /\ Putting \subseteq Active
  BY OneMoves DEF TInv, TypeOK, Active, Putting
<1>1. CASE t # x
  <2>1. OtherEffect(x, t) /\ st[t] \in Putting /\ t \in Running
    BY <1>0, <1>1, OtherEffects DEF Running
  <2>2. PICK c : c = snap[t]
    OBVIOUS
  <2>3. Has(t, c) /\ snap'[t] = c
    BY <2>1, <2>2 DEF HasInv, SnapOK, OtherEffect
  <2>4. Has(t, c)'
    BY <2>1, <2>3, RecipeKeeps
  <2> QED BY <2>3, <2>4 DEF Has
<1>2. CASE t = x
  <2>1. ReadInputs(t)
    BY <1>0, <1>2 DEF RecipeStep, AlreadyMade, StartRecipe, FirstStep, WriteWrapper, EmptyWrapper,
       PutOutput, TouchStamp, RecipeFails, GiveUp, Step, Putting
  <2>2. snap'[t] = [f \in Reads[t] |-> Content(f)] /\ UNCHANGED <<ver, used>>
    BY <2>1 DEF ReadInputs, fileVars, TInv
  <2>3. \A f : Content(f)' = Content(f)
    BY <2>2 DEF Content
  <2> QED BY <2>2, <2>3 DEF Has, Unnamed
<1> QED BY <1>1, <1>2

LEMMA RecipeUsedOK ==
  ASSUME TInv, NewInv, HasInv, NEW x \in Built, RecipeStep(x),
         NEW t \in Built, t \notin raced' \cup cut' \cup skipped',
         (t \notin Running' /\ ~OutOfDate(t)') \/ st'[t] = "touch"
  PROVE  Has(t, used[t])'
<1>0. /\ st \in [Built -> Active \cup {"todo", "done", "failed"}]
      /\ st' = [st EXCEPT ![x] = st'[x]] /\ Putting \subseteq Active
      /\ "touch" \in Active /\ "done" \notin Active /\ "failed" \notin Active
  BY OneMoves DEF TInv, TypeOK, Active, Putting
<1>1. ASSUME NEW c, Has(t, c), used'[t] = c, t \in Running \/ ~OutOfDate(t)' \/ t = x
      PROVE  Has(t, used[t])'
  <2>1. Has(t, c)'
    BY <1>1, RecipeKeeps
  <2> QED BY <1>1, <2>1 DEF Has
<1>2. CASE t # x
  <2>1. OtherEffect(x, t) /\ st'[t] = st[t] /\ (t \in Running' <=> t \in Running)
    BY <1>0, <1>2, OtherEffects DEF Running
  <2>2. t \notin raced \cup cut \cup skipped /\ (OutOfDate(t) => OutOfDate(t)')
    BY <2>1, StaysOutOfDate DEF OtherEffect
  <2>3. Has(t, used[t])
    BY <2>1, <2>2 DEF HasInv, UsedOK
  <2>4. used'[t] = used[t] /\ (st[t] = "touch" => t \in Running)
    BY <1>0, <2>1 DEF OtherEffect, Running
  <2> QED BY <1>1, <2>1, <2>3, <2>4
<1>3. CASE t = x /\ PutOutput(t)
  <2>1. st[t] \in Putting /\ raced' = raced /\ used'[t] = snap[t]
    BY <1>3 DEF PutOutput, TInv
  <2>2. Has(t, snap[t])
    BY <2>1 DEF HasInv, SnapOK
  <2> QED BY <1>1, <1>3, <2>1, <2>2
<1>4. CASE t = x /\ (AlreadyMade(t) \/ TouchStamp(t))
  <2>1. /\ UNCHANGED <<raced, cut, skipped, used>>
        /\ (t \notin Running /\ ~OutOfDate(t)) \/ st[t] = "touch"
    BY <1>0, <1>4 DEF AlreadyMade, Ready, TouchStamp, fileVars, histVars, Running, Active
  <2>2. Has(t, used[t])
    BY <2>1 DEF HasInv, UsedOK
  <2> QED BY <1>1, <1>4, <2>1, <2>2
<1>5. CASE t = x /\ EmptyWrapper(t)
  BY <1>5 DEF EmptyWrapper
<1>6. CASE t = x /\ (StartRecipe(t) \/ WriteWrapper(t) \/ ReadInputs(t))
  <2>1. st'[t] \in Active \ {"touch"}
    BY <1>0, <1>6 DEF StartRecipe, FirstStep, WriteWrapper, ReadInputs, Step, Active
  <2> QED BY <2>1 DEF Running
<1>7. CASE t = x /\ RecipeFails(t)
  <2>1. st'[t] \in {"retry", "failed"} /\ st[t] \in Active
    BY <1>0, <1>7 DEF RecipeFails, GiveUp, Step, Putting, Active
  <2>2. OutOfDate(t) /\ ~OutOfDate(t)'
    BY <2>1 DEF NewInv, Undone, Running, Active
  <2>3. ~(there'[t] = there[t] /\ newer'[t] = newer[t])
    BY <2>2 DEF OutOfDate
  <2>4. there'[t] # "absent"
    BY <2>2 DEF OutOfDate
  <2> QED BY <1>7, <2>1, <2>3, <2>4, OwnEffects DEF OwnEffect
<1> QED BY <1>2, <1>3, <1>4, <1>5, <1>6, <1>7 DEF RecipeStep

LEMMA StopUsedOK ==
  ASSUME TInv, NewInv, HasInv, NEW d \in {"absent", "damaged"}, Stop(d),
         NEW t \in Built, t \notin raced' \cup cut' \cup skipped',
         (t \notin Running' /\ ~OutOfDate(t)') \/ st'[t] = "touch"
  PROVE  Has(t, used[t])'
<1>0. st'[t] = "todo" /\ UNCHANGED <<ver, used, raced, skipped>>
  BY DEF Stop, Idle
<1>1. ~OutOfDate(t)' /\ \A p \in Built : StopEffect(p)
  BY <1>0, StopEffects
<1>2. there'[t] = there[t] /\ newer[t] \subseteq newer'[t] /\ (t \in cut => t \in cut')
  BY <1>1 DEF StopEffect, OutOfDate
<1>3. ~OutOfDate(t) /\ t \notin Running /\ t \notin raced \cup cut \cup skipped
  BY <1>0, <1>1, <1>2, StaysOutOfDate DEF NewInv, Undone
<1>4. PICK c : c = used[t]
  OBVIOUS
<1>5. Has(t, c) /\ used'[t] = c
  BY <1>0, <1>3, <1>4 DEF HasInv, UsedOK
<1>6. Has(t, c)'
  BY <1>0, <1>1, <1>5, OthersKeep DEF StopEffect
<1> QED BY <1>5, <1>6 DEF Has

LEMMA EditHasInv ==
  ASSUME TInv, NewInv, HasInv, NEW s \in Editable, Edit(s)
  PROVE  HasInv'
<1>0. /\ UNCHANGED <<st, snap, used, there, cut, skipped>>
      /\ raced' = raced \cup {t \in Running : s \in Prereqs[t] /\ st[t] \in Putting \cup {"touch"}}
      /\ Running' = Running
  BY DEF Edit, Running
<1>1. SnapOK'
  <2> SUFFICES ASSUME NEW t \in Built, st[t] \in Putting, t \notin raced' PROVE Has(t, snap[t])'
    BY <1>0 DEF SnapOK, Putting
  <2>1. t \notin raced /\ s \notin Prereqs[t]
    BY <1>0 DEF Running, Putting, Active
  <2>2. PICK c : c = snap[t]
    OBVIOUS
  <2>3. Has(t, c) /\ snap'[t] = c
    BY <1>0, <2>1, <2>2 DEF HasInv, SnapOK
  <2>4. Has(t, c)'
    BY <2>1, <2>3, EditKeeps
  <2> QED BY <2>3, <2>4 DEF Has
<1>2. UsedOK'
  <2> SUFFICES ASSUME NEW t \in Built, t \notin raced' \cup cut \cup skipped,
                      (t \notin Running /\ ~OutOfDate(t)') \/ st[t] = "touch"
               PROVE  Has(t, used[t])'
    BY <1>0 DEF UsedOK
  <2>1. OutOfDate(t) => OutOfDate(t)'
    BY <1>0, EditEffects, StaysOutOfDate
  <2>2. s \notin Prereqs[t]
    <3>1. CASE st[t] = "touch"
      BY <1>0, <3>1 DEF Running, Active
    <3>2. CASE ~OutOfDate(t)'
      BY <1>0, <3>2, EditEffects DEF OutOfDate
    <3> QED BY <3>1, <3>2
  <2>3. t \notin raced
    BY <1>0
  <2>4. PICK c : c = used[t]
    OBVIOUS
  <2>5. Has(t, c) /\ used'[t] = c
    BY <1>0, <2>1, <2>3, <2>4 DEF HasInv, UsedOK
  <2>6. Has(t, c)'
    BY <2>2, <2>5, EditKeeps
  <2> QED BY <2>5, <2>6 DEF Has
<1> QED BY <1>1, <1>2 DEF HasInv

\* A step that changes neither files nor records keeps them good.
LEMMA IdleHasInv ==
  ASSUME HasInv, UNCHANGED <<ver, there, used, newer, snap, raced, cut, skipped>>,
         \A t \in Built : st'[t] = st[t] \/ (st'[t] = "todo" /\ t \notin Running)
  PROVE  HasInv'
<1>0. "todo" \notin Active /\ "todo" \notin Putting /\ Putting' = Putting
  BY DEF Active, Putting
<1>1. ASSUME NEW t \in Built, NEW c, Has(t, c) PROVE Has(t, c)'
  BY <1>1, OthersKeep
<1>2. SnapOK'
  <2> SUFFICES ASSUME NEW t \in Built, st'[t] \in Putting, t \notin raced PROVE Has(t, snap[t])'
    BY <1>0 DEF SnapOK
  <2>1. Has(t, snap[t])
    BY <1>0 DEF HasInv, SnapOK
  <2> QED BY <1>1, <2>1 DEF Has
<1>3. UsedOK'
  <2> SUFFICES ASSUME NEW t \in Built \ (raced \cup cut \cup skipped),
                      (t \notin Running' /\ ~OutOfDate(t)') \/ st'[t] = "touch"
               PROVE  Has(t, used[t])'
    BY DEF UsedOK
  <2>1. (t \notin Running /\ ~OutOfDate(t)) \/ st[t] = "touch"
    BY <1>0 DEF Running, OutOfDate
  <2>2. Has(t, used[t])
    BY <2>1 DEF HasInv, UsedOK
  <2> QED BY <1>1, <2>2 DEF Has
<1> QED BY <1>2, <1>3 DEF HasInv

LEMMA InitHasInv == Init => HasInv
<1> SUFFICES ASSUME Init, NEW t \in Built
             PROVE  OutOfDate(t) /\ st[t] \notin Putting \cup {"touch"}
  BY DEF HasInv, SnapOK, UsedOK
<1> QED BY MadeIs DEF Init, OutOfDate, Putting

LEMMA StepHasInv == TInv /\ NewInv /\ HasInv /\ [Next]_vars => HasInv'
<1> SUFFICES ASSUME TInv, NewInv, HasInv, [Next]_vars PROVE HasInv'
  OBVIOUS
<1>0. "todo" \notin Active /\ "todo" \notin Putting
  BY DEF Active, Putting
<1>1. ASSUME NEW t \in Built, RecipeStep(t) PROVE HasInv'
  BY <1>1, RecipeSnapOK, RecipeUsedOK DEF HasInv, SnapOK, UsedOK, Putting
<1>2. CASE \E d \in {"absent", "damaged"} : Stop(d)
  <2>1. \A t \in Built : st'[t] = "todo"
    BY <1>2 DEF Stop, Idle
  <2>2. SnapOK'
    BY <1>0, <2>1 DEF SnapOK, Putting
  <2> QED BY <1>2, <2>2, StopUsedOK DEF HasInv, UsedOK
<1>3. CASE Clean
  <2>1. \A t \in Built : st'[t] = "todo" /\ there'[t] = "absent"
    BY <1>3, MadeIs DEF Clean, TInv
  <2> QED BY <1>0, <2>1 DEF HasInv, SnapOK, UsedOK, OutOfDate, Putting
<1>4. CASE EndMake
  <2>1. /\ \A t \in Built : st'[t] = "todo" /\ t \notin Running
        /\ UNCHANGED <<ver, there, used, newer, snap, raced, cut, skipped>>
    BY <1>4 DEF EndMake, Idle, fileVars
  <2> QED BY <2>1, IdleHasInv
<1>5. CASE StartMake \/ UNCHANGED vars
  <2>1. UNCHANGED <<st, ver, there, used, newer, snap, raced, cut, skipped>>
    BY <1>5 DEF StartMake, fileVars, vars
  <2> QED BY <2>1, IdleHasInv
<1> QED BY <1>1, <1>2, <1>3, <1>4, <1>5, EditHasInv, NextCases

\* When a make ends well and unedited, its records say what is true of the files.
LEMMA EndUpToDate ==
  ASSUME TInv, NewInv, Complete, HasInv, EndMake, make = "running", quiet,
         NEW t \in Wanted[goal] \ (raced \cup cut \cup skipped)
  PROVE  UpToDate(t)
<1>1. \A u \in Wanted[goal] : st[u] = "done"
  BY DEF EndMake
<1>2. /\ goal \in DOMAIN Goals /\ Wanted[goal] \subseteq Built /\ Built \subseteq Targets
      /\ Prereqs[t] \cap Built \subseteq Wanted[goal]
  BY BuiltTargets DEF TInv
<1>3. \A u \in Wanted[goal] : ~OutOfDate(u) /\ u \notin Running
  BY <1>1, <1>2 DEF NewInv, DoneIsNew, Running, Active
<1>4. there[Output(t)] = "whole"
  <2>1. CASE t[1] = "stamp"
    BY <1>2, <1>3, <2>1 DEF Complete, StampComplete
  <2>2. CASE t[1] # "stamp"
    <3>1. Output(t) = t /\ t \in Made
      BY <1>2, <2>2, MadeIs DEF Output
    <3> QED BY <1>2, <1>3, <2>2, <3>1 DEF Complete, OutOfDate, TInv, TypeOK
  <2> QED BY <2>1, <2>2
<1>5. Has(t, used[t])
  BY <1>2, <1>3 DEF HasInv, UsedOK
<1>6. \A f : ~Awaits(t, f)
  BY <1>2, <1>3 DEF Awaits
<1> QED BY <1>4, <1>5, <1>6 DEF Has, UpToDate

\* When make succeeds and nothing was edited meanwhile, every target it was asked for holds
\* what the sources its rules name now say, whatever failed, interrupted, killed or edited
\* makes came before and with any number of jobs (mk/nanopb.mk, mk/examples.mk, mk/proto.mk).
\* Left out are exactly the targets the property names: saved under a running recipe, left
\* damaged, or made by a generator that met an empty wrapper.
THEOREM MakeLeavesUpToDate == Spec => MakeBringsUpToDate
<1>1. ASSUME TInv, NewInv, Complete, HasInv, [Next]_vars,
             make = "running", make' = "idle", result' = "success", quiet,
             NEW t \in Wanted[goal] \ (raced \cup cut \cup skipped)
      PROVE  UpToDate(t)
  <2>1. EndMake
    <3>1. ASSUME NEW x \in Built, RecipeStep(x) PROVE make' # "idle"
      BY <1>1, <3>1
         DEF RecipeStep, AlreadyMade, StartRecipe, WriteWrapper, ReadInputs, EmptyWrapper,
             PutOutput, TouchStamp, RecipeFails, GiveUp
    <3>2. ~StartMake /\ ~Clean /\ ~UNCHANGED vars /\ ~\E s \in Editable : Edit(s)
      BY <1>1 DEF StartMake, Clean, vars, Edit
    <3>3. ~\E d \in {"absent", "damaged"} : Stop(d)
      BY <1>1 DEF Stop
    <3> QED BY <1>1, <3>1, <3>2, <3>3, NextCases
  <2> QED BY <1>1, <2>1, EndUpToDate
<1>2. TInv /\ NewInv /\ Complete /\ HasInv /\ [Next]_vars =>
        [make = "running" /\ make' = "idle" /\ result' = "success" /\ quiet =>
           \A t \in Wanted[goal] \ (raced \cup cut \cup skipped) : UpToDate(t)]_vars
  BY <1>1
<1> QED BY <1>2, InitTInv, StepTInv, InitNewInv, StepNewInv, InitComplete, StepComplete,
           InitHasInv, StepHasInv, PTL DEF Spec, MakeBringsUpToDate
-----------------------------------------------------------------------------
\* What make is done with stays whole until make ends, even if it is edited meanwhile.
DoneIsWhole ==
  \A u \in Built \ (cut \cup skipped) : st[u] = "done" => there[Output(u)] = "whole"

LEMMA RecipeDoneIsWhole ==
  ASSUME TInv, NewInv, Complete, DoneIsWhole, NEW t \in Built, RecipeStep(t),
         NEW u \in Built \ (cut' \cup skipped'), st'[u] = "done"
  PROVE  there'[Output(u)] = "whole"
<1>1. CASE u = t
  <2>1. TInv' /\ Complete'
    BY RecipeStepTInv, RecipeComplete DEF Complete
  <2>2. ~OutOfDate(t)'
    <3>1. OwnEffect(t) /\ st[t] # "done"
      BY OwnEffects, OneMoves
    <3> QED BY <1>1, <3>1 DEF OwnEffect, OutOfDate
  <2>3. t \notin Running'
    BY <1>1 DEF Running, Active
  <2>4. CASE t[1] = "stamp"
    BY <1>1, <2>1, <2>2, <2>3, <2>4 DEF Complete, StampComplete, Output
  <2>5. CASE t[1] # "stamp"
    <3>1. Output(u) = u /\ u \in Made
      BY <1>1, <2>5, MadeIs DEF Output
    <3>2. there'[u] \in {"absent", "damaged", "whole"}
      BY <2>1, <3>1 DEF TInv, TypeOK, Made, Built, Outputs, Wanted, Output
    <3> QED BY <1>1, <2>1, <2>2, <2>5, <3>1, <3>2 DEF Complete, OutOfDate
  <2> QED BY <2>4, <2>5
<1>2. CASE u # t
  BY <1>2, OneMoves, OtherEffects DEF DoneIsWhole, OtherEffect, TInv, TypeOK
<1> QED BY <1>1, <1>2

LEMMA InitDoneIsWhole == Init => DoneIsWhole
  BY DEF Init, DoneIsWhole

LEMMA StepDoneIsWhole ==
  TInv /\ NewInv /\ Complete /\ DoneIsWhole /\ [Next]_vars => DoneIsWhole'
<1> SUFFICES ASSUME TInv, NewInv, Complete, DoneIsWhole, [Next]_vars,
                    NEW u \in Built \ (cut' \cup skipped'), st'[u] = "done"
             PROVE  there'[Output(u)] = "whole"
  BY DEF DoneIsWhole, Output
<1>1. CASE EndMake \/ \E d \in {"absent", "damaged"} : Stop(d)
  BY <1>1, NoneMoves
<1>2. CASE (\E s \in Editable : Edit(s)) \/ StartMake \/ UNCHANGED vars
  BY <1>2 DEF Edit, StartMake, fileVars, vars, DoneIsWhole
<1>3. CASE Clean
  BY <1>3 DEF Clean, TInv
<1> QED BY <1>1, <1>2, <1>3, RecipeDoneIsWhole, NextCases

\* With any number of jobs, a recipe that runs finds every generated file it reads finished:
\* NANOPB_DEPS, CPP_PROTO_DEPS and the stamp lists of the embedded programs name all that
\* the recipes need of each other, and the stamp is the last thing mk/nanopb.mk's rule makes,
\* wherever earlier recipes failed or were interrupted and killed.  Not covered are files
\* left damaged by a killed or failing recipe without a stamp and those an empty wrapper did
\* not write.
THEOREM RecipesFindTheirInputs == Spec => []InputsAreWhole
<1>1. TInv /\ NewInv /\ DoneIsWhole => InputsAreWhole
  <2> SUFFICES ASSUME TInv, NewInv, DoneIsWhole, NEW t \in Running,
                      NEW u \in Built, Output(u) \in Reads[t]
               PROVE  /\ u \notin Running \ {t}
                      /\ u \notin cut \cup skipped => there[Output(u)] = "whole"
    BY DEF InputsAreWhole
  <2>1. t \in Built /\ st[t] # "todo"
    BY DEF Running, Active
  <2>2. u \in Prereqs[t]
    BY <2>1, ReadsPrereqs, BuiltTargets
  <2>3. u \notin Running \ {t}
    BY DoneNoUnfinished DEF NewInv, NoUnfinishedInput
  <2> QED BY <2>1, <2>2, <2>3 DEF NewInv, PrereqsDone, DoneIsWhole
<1> QED BY <1>1, InitTInv, StepTInv, InitNewInv, StepNewInv, InitComplete, StepComplete,
           InitDoneIsWhole, StepDoneIsWhole, PTL DEF Spec
-----------------------------------------------------------------------------
\* A recipe that failed keeps make from starting another.
FailureStops == make = "running" => \A t \in Built : st[t] # "failed"

LEMMA InitFailureStops == Init => FailureStops
  BY DEF Init, FailureStops

LEMMA StepFailureStops == TInv /\ FailureStops /\ [Next]_vars => FailureStops'
<1> SUFFICES ASSUME TInv, FailureStops, [Next]_vars, make' = "running", NEW u \in Built
             PROVE  st'[u] # "failed"
  BY DEF FailureStops
<1>1. ASSUME NEW t \in Built, RecipeStep(t) PROVE st'[u] # "failed"
  <2>1. make = "running" /\ st'[t] # "failed"
    <3>0. st \in [Built -> Active \cup {"todo", "done", "failed"}]
      BY DEF TInv, TypeOK
    <3>1. CASE RecipeFails(t)
      BY <3>0, <3>1 DEF RecipeFails, GiveUp, Step
    <3>2. CASE ~RecipeFails(t)
      BY <1>1, <3>0, <3>2
         DEF RecipeStep, AlreadyMade, StartRecipe, WriteWrapper, ReadInputs, EmptyWrapper,
             PutOutput, TouchStamp, Step, FirstStep
    <3> QED BY <3>1, <3>2
  <2> QED BY <1>1, <2>1, OneMoves DEF FailureStops, TInv, TypeOK
<1>2. CASE st' = [t \in Built |-> "todo"]
  BY <1>2
<1>3. CASE StartMake
  BY <1>3 DEF StartMake, TInv
<1>4. CASE (\E s \in Editable : Edit(s)) \/ Clean \/ UNCHANGED vars
  BY <1>4, NoneMoves DEF FailureStops, Edit, Clean, vars
<1> QED BY <1>1, <1>2, <1>3, <1>4, NoneMoves, NextCases

\* Of what is left to do there is something of the least rank.
LEMMA LeastRank ==
  ASSUME NEW S \in SUBSET Targets, S # {}
  PROVE  \E t \in S : \A u \in S : Rank(t) <= Rank(u)
<1>1. \A t \in S : Rank(t) \in 0..3
  BY DEF Rank
<1>2. CASE \E t \in S : Rank(t) = 0
  BY <1>1, <1>2
<1>3. CASE (\A u \in S : Rank(u) >= 1) /\ \E t \in S : Rank(t) = 1
  BY <1>3
<1>4. CASE (\A u \in S : Rank(u) >= 2) /\ \E t \in S : Rank(t) = 2
  BY <1>4
<1>5. CASE \A u \in S : Rank(u) >= 3
  BY <1>1, <1>5
<1> QED BY <1>1, <1>2, <1>3, <1>4, <1>5

\* While no recipe runs and none has failed, everything asked for is done or make can turn
\* to something: the rules never leave all that is left waiting for one another.
NeverStuck ==
  make = "running" /\ Running = {} =>
    (\A t \in Wanted[goal] : st[t] = "done") \/ (\E t \in Wanted[goal] : Ready(t))

\* While no recipe runs and none has failed, make is done or can turn to something, whatever
\* it was asked for: the stamps of mk/nanopb.mk and the binaries of mk/examples.mk wait for
\* one another in no circle.
THEOREM MakeIsNeverStuck == Spec => []NeverStuck
<1>1. TInv /\ FailureStops => NeverStuck
  <2> SUFFICES ASSUME TInv, FailureStops, make = "running", Running = {},
                      ~\A t \in Wanted[goal] : st[t] = "done"
               PROVE  \E t \in Wanted[goal] : Ready(t)
    BY DEF NeverStuck
  <2> DEFINE Left == {t \in Wanted[goal] : st[t] # "done"}
  <2>1. /\ Wanted[goal] \subseteq Built /\ Built \subseteq Targets
        /\ \A t \in Wanted[goal] : Prereqs[t] \cap Targets \subseteq Wanted[goal]
    BY BuiltTargets DEF TInv
  <2>2. PICK t \in Left : \A u \in Left : Rank(t) <= Rank(u)
    <3>1. Left \in SUBSET Targets /\ Left # {}
      BY <2>1
    <3> HIDE DEF Left
    <3> QED BY <3>1, LeastRank
  <2>3. st[t] = "todo"
    BY <2>1 DEF TInv, TypeOK, Running, FailureStops
  <2>4. ASSUME NEW p \in Prereqs[t] \cap Built PROVE st[p] = "done"
    <3>1. Rank(p) \in 0..3 /\ Rank(t) \in 0..3 /\ Rank(p) < Rank(t)
      BY <2>1, RankFalls
    <3>2. p \in Wanted[goal]
      BY <2>1
    <3> QED BY <2>2, <3>1, <3>2
  <2> QED BY <2>3, <2>4 DEF Ready
<1> QED BY <1>1, InitTInv, StepTInv, InitFailureStops, StepFailureStops, PTL DEF Spec

\* Each step of a make takes one target further, and none back: a recipe runs once in a
\* make, its generator twice, and a make over n targets has at most 8n steps and the end.
Stage == [todo |-> 0, wrap |-> 1, fill |-> 2, read |-> 3, put |-> 4, retry |-> 5,
          put_again |-> 6, touch |-> 7, done |-> 8, failed |-> 8]
EachStepCounts ==
  [][make # "idle" /\ make' # "idle" /\ edits' = edits =>
       \E t \in Built : /\ Stage[st[t]] < Stage[st'[t]]
                        /\ \A u \in Built \ {t} : st'[u] = st[u]]_vars

\* Each step of a make takes one target further and none back, so that a recipe runs once in
\* a make, its generator at most twice (the || of NANOPB_GENERATE, mk/nanopb.mk), and a
\* make ends after at most eight steps for each target: it ends unless it is not scheduled.
THEOREM MakeStepsAreCounted == Spec => EachStepCounts
<1>1. ASSUME TInv, [Next]_vars, vars' # vars, make # "idle", make' # "idle", edits' = edits
      PROVE  \E t \in Built : /\ Stage[st[t]] < Stage[st'[t]]
                              /\ \A u \in Built \ {t} : st'[u] = st[u]
  <2>1. PICK t \in Built : RecipeStep(t)
    <3>1. ~EndMake /\ ~StartMake /\ ~Clean /\ ~\E d \in {"absent", "damaged"} : Stop(d)
      BY <1>1 DEF EndMake, StartMake, Clean, Stop, Idle
    <3>2. ~\E s \in Editable : Edit(s)
      BY <1>1 DEF Edit, TInv
    <3> QED BY <1>1, <3>1, <3>2, NextCases
  <2>2. \A u \in Built \ {t} : st'[u] = st[u]
    BY <1>1, <2>1, OneMoves DEF TInv, TypeOK
  <2>3. Stage[st[t]] < Stage[st'[t]]
    <3>0. st \in [Built -> Active \cup {"todo", "done", "failed"}]
      BY <1>1 DEF TInv, TypeOK
    <3> USE <3>0 DEF Stage, Step
    <3>1. CASE AlreadyMade(t) \/ StartRecipe(t)
      BY <3>1 DEF AlreadyMade, StartRecipe, Ready, FirstStep
    <3>2. CASE WriteWrapper(t) \/ ReadInputs(t) \/ EmptyWrapper(t)
      BY <3>2 DEF WriteWrapper, ReadInputs, EmptyWrapper
    <3>3. CASE PutOutput(t) \/ TouchStamp(t)
      BY <3>3 DEF PutOutput, TouchStamp, Putting
    <3>4. CASE RecipeFails(t)
      <4>1. st[t] \in {"read", "retry", "put", "put_again", "touch"}
        BY <3>4 DEF RecipeFails, Putting
      <4>2. st'[t] = "failed" \/ (st'[t] = "retry" /\ st[t] \in {"read", "put"})
        BY <3>4 DEF RecipeFails, GiveUp
      <4> QED BY <4>1, <4>2
    <3> QED BY <2>1, <3>1, <3>2, <3>3, <3>4 DEF RecipeStep
  <2> QED BY <2>2, <2>3
<1>2. TInv /\ [Next]_vars =>
        [make # "idle" /\ make' # "idle" /\ edits' = edits =>
           \E t \in Built : /\ Stage[st[t]] < Stage[st'[t]]
                            /\ \A u \in Built \ {t} : st'[u] = st[u]]_vars
  BY <1>1
<1> QED BY <1>2, InitTInv, StepTInv, PTL DEF Spec, EachStepCounts
=============================================================================
