----------------------- MODULE PayloadExchangeProofs -----------------------
EXTENDS PayloadExchange, TLAPS, SequenceTheorems

LEMMA SeqOfFunction ==
  ASSUME NEW S, NEW n \in Nat, NEW f \in [1..n -> S]
  PROVE  f \in Seq(S) /\ Len(f) = n
BY SMT

LEMMA PutAtType ==
  ASSUME NEW c \in Seq(Chunks), NEW n \in Nat \ {0}, NEW x \in Chunks
  PROVE  /\ PutAt(c, n, x) \in Seq(Chunks)
         /\ Len(PutAt(c, n, x)) = IF n > Len(c) THEN n ELSE Len(c)
         /\ \A i \in 1..(IF n > Len(c) THEN n ELSE Len(c)) :
              PutAt(c, n, x)[i] = IF i = n THEN x ELSE IF i <= Len(c) THEN c[i] ELSE Hole
<1> DEFINE m == IF n > Len(c) THEN n ELSE Len(c)
<1>1. m \in Nat
  OBVIOUS
<1>2. Hole \in Chunks
  BY DEF Chunks
<1>3. PutAt(c, n, x) \in [1..m -> Chunks]
  BY <1>2, ElementOfSeq DEF PutAt
<1>4. QED
  BY <1>1, <1>3, SeqOfFunction DEF PutAt

LEMMA PutAtEnd ==
  ASSUME NEW c \in Seq(Chunks), NEW x \in Chunks, NEW n, n = Len(c) + 1
  PROVE  /\ Len(PutAt(c, n, x)) = n
         /\ \A i \in 1..n : PutAt(c, n, x)[i] = IF i = n THEN x ELSE c[i]
<1>1. Len(c) \in Nat
  OBVIOUS
<1>2. PutAt(c, n, x) = [i \in 1..n |-> IF i = n THEN x ELSE c[i]]
  BY <1>1 DEF PutAt
<1>3. [i \in 1..n |-> IF i = n THEN x ELSE c[i]] \in [1..n -> Chunks]
  BY <1>1, ElementOfSeq
<1>4. Len([i \in 1..n |-> IF i = n THEN x ELSE c[i]]) = n
  BY <1>1, <1>3, SeqOfFunction
<1>5. QED
  BY <1>2, <1>4

LEMMA ReadUpToType ==
  ASSUME NEW b \in Seq(Chunks), NEW c \in Seq(Chunks), NEW m \in Nat, m <= Len(c) 
  PROVE  ReadUpTo(b, c, m) \in Seq(Chunks) /\ Len(ReadUpTo(b, c, m)) = m
<1>1. ReadUpTo(b, c, m) \in [1..m -> Chunks]
  BY ElementOfSeq DEF ReadUpTo
<1>2. QED
  BY <1>1, SeqOfFunction

LEMMA PayloadType ==
  ASSUME NEW g \in Gens
  PROVE  /\ Payload(g) \in Seq(Chunks)
         /\ Len(Payload(g)) = Size[g]
         /\ IsPartOf(Payload(g), g)
<1>1. Payload(g) \in [1..Size[g] -> Chunks]
  BY SizeAssumption DEF Payload, ChunkOf, Chunks, Gens
<1>2. Size[g] \in Nat
  BY SizeAssumption
<1>3. QED
  BY <1>1, <1>2, SeqOfFunction DEF Payload, IsPartOf

-----------------------------------------------------------------------------
\* While p has a message to write or a file to decode, there is one.
IndexOK ==
  \A p \in Procs :
    /\ pc[p] \in {"wopen"} \cup WriteSteps => wrote[p] < Len(Writes[p])
    /\ pc[p] \in {"ropen"} \cup ReadSteps => Len(printed[p]) < Len(Reads[p])

\* A writer never sends more chunks than its message has.
OffOK ==
  \A p \in Procs : pc[p] \in WriteSteps => off[p] <= Size[Gen(p)]

\* A file that is not mixed has at most one writer: the last to open it, whose
\* offset is the end of the file.
LoneWriter ==
  \A f \in Paths \ mixed : \A p \in WritersOf(f) :
    /\ lastw[f] = Gen(p) /\ off[p] = Len(data[f])
    /\ \A q \in WritersOf(f) : q = p

TInv == TypeOK /\ IndexOK

LEMMA NextPcRange ==
  ASSUME NEW p \in Procs, NEW w \in Nat, NEW r \in Nat
  PROVE  /\ NextPc(p, w, r) \in {"wopen", "ropen", "done"}
         /\ NextPc(p, w, r) = "wopen" => w < Len(Writes[p])
         /\ NextPc(p, w, r) = "ropen" => r < Len(Reads[p])
BY DEF NextPc

LEMMA StepTypes ==
  ASSUME TInv, NEW p \in Procs
  PROVE  /\ pc[p] \in {"wopen"} \cup WriteSteps =>
              /\ WStep(p) \in Steps /\ WStep(p).path \in Paths
              /\ Gen(p) \in Gens /\ \A i \in Nat : ChunkOf(Gen(p), i) \in Chunks
         /\ pc[p] \in {"ropen"} \cup ReadSteps =>
              RStep(p) \in Steps /\ RStep(p).path \in Paths
<1>1. ASSUME pc[p] \in {"wopen"} \cup WriteSteps
      PROVE  WStep(p) \in Steps
  BY <1>1, StepsAssumption, ElementOfSeq DEF TInv, TypeOK, IndexOK, WStep
<1>2. ASSUME pc[p] \in {"ropen"} \cup ReadSteps
      PROVE  RStep(p) \in Steps
  BY <1>2, StepsAssumption, ElementOfSeq DEF TInv, TypeOK, IndexOK, RStep
<1>3. QED
  BY <1>1, <1>2 DEF Steps, Gen, Gens, ChunkOf, Chunks

LEMMA InitTInv == Init => TInv
<1> SUFFICES ASSUME Init PROVE TInv
  OBVIOUS
<1>1. \A f \in Paths : Content(Before[f]) \in Seq(Chunks)
  BY BeforeAssumption, PayloadType DEF Content
<1>2. \A p \in Procs : NextPc(p, 0, 0) \in {"wopen", "ropen", "done"}
  BY NextPcRange
<1>3. TypeOK
  BY <1>1, <1>2, BeforeAssumption DEF Init, TypeOK, FirstPc
<1>4. IndexOK
  BY <1>2, NextPcRange DEF Init, IndexOK, FirstPc, WriteSteps, ReadSteps
<1>5. QED
  BY <1>3, <1>4 DEF TInv

\* Exit and Continue keep pc and exit in range and leave other programs alone.
PcTypes ==
  /\ pc \in [Procs -> {"mkdir", "wopen", "ropen", "done"} \cup WriteSteps \cup ReadSteps]
  /\ exit \in [Procs -> {"running", "success", "failure", "killed"}]

LEMMA ExitTypes ==
  ASSUME PcTypes, NEW p \in Procs, NEW st \in {"success", "failure", "killed"}, Exit(p, st)
  PROVE  PcTypes' /\ pc'[p] = "done" /\ \A q \in Procs \ {p} : pc'[q] = pc[q]
BY DEF Exit, PcTypes

LEMMA ContinueTypes ==
  ASSUME PcTypes, NEW p \in Procs, NEW w \in Nat, NEW r \in Nat, Continue(p, w, r)
  PROVE  /\ PcTypes' /\ pc'[p] \in {"wopen", "ropen", "done"}
         /\ pc'[p] = "wopen" => w < Len(Writes[p])
         /\ pc'[p] = "ropen" => r < Len(Reads[p])
         /\ \A q \in Procs \ {p} : pc'[q] = pc[q]
<1>1. NextPc(p, w, r) \in {"wopen", "ropen", "done"}
  BY NextPcRange
<1>2. PcTypes' /\ pc'[p] = NextPc(p, w, r) /\ \A q \in Procs \ {p} : pc'[q] = pc[q]
  BY <1>1 DEF Continue, PcTypes
<1>3. QED
  BY <1>1, <1>2, NextPcRange

LEMMA StepTInv == TInv /\ [Next]_vars => TInv'
<1> SUFFICES ASSUME TInv, [Next]_vars PROVE TInv'
  OBVIOUS
<1> USE DEF WriteSteps, ReadSteps, fileVars, histVars
<1>0. PcTypes /\ TypeOK /\ IndexOK
  BY DEF TInv, TypeOK, PcTypes
<1>1. ASSUME NEW p \in Procs, EnsureDirectory(p) PROVE TInv'
  <2>1. node' \in [Dirs -> {"absent", "directory", "file"}]
    BY <1>0, <1>1 DEF EnsureDirectory, TypeOK
  <2>2. CASE Continue(p, wrote[p], Len(printed[p]))
    <3>1. wrote[p] \in Nat /\ Len(printed[p]) \in Nat
      BY <1>0 DEF TypeOK
    <3>2. PcTypes' /\ pc'[p] \in {"wopen", "ropen", "done"}
          /\ (pc'[p] = "wopen" => wrote[p] < Len(Writes[p]))
          /\ (pc'[p] = "ropen" => Len(printed[p]) < Len(Reads[p]))
          /\ \A q \in Procs \ {p} : pc'[q] = pc[q]
      BY <1>0, <2>2, <3>1, ContinueTypes
    <3>3. QED
      BY <1>0, <1>1, <2>1, <3>2 DEF EnsureDirectory, TInv, TypeOK, IndexOK, PcTypes
  <2>3. CASE Exit(p, "failure")
    BY <1>0, <1>1, <2>1, <2>3, ExitTypes DEF EnsureDirectory, TInv, TypeOK, IndexOK, PcTypes
  <2>4. QED
    BY <1>1, <2>2, <2>3 DEF EnsureDirectory
<1>2. ASSUME NEW p \in Procs, OpenForWrite(p) PROVE TInv'
  <2>1. WStep(p).path \in Paths /\ Gen(p) \in Gens
    BY <1>0, <1>2, StepTypes DEF OpenForWrite, TInv
  <2>2. TypeOK'
    BY <1>0, <1>2, <2>1, EmptySeq DEF OpenForWrite, TypeOK, ReadersOf
  <2>3. IndexOK'
    BY <1>0, <1>2 DEF OpenForWrite, TypeOK, IndexOK
  <2>4. QED
    BY <2>2, <2>3 DEF TInv
<1>3. ASSUME NEW p \in Procs, OpenForWriteFails(p) PROVE TInv'
  BY <1>0, <1>3, ExitTypes DEF OpenForWriteFails, TInv, TypeOK, IndexOK, PcTypes
<1>4. ASSUME NEW p \in Procs, Encode(p) PROVE TInv'
  <2>1. CASE pc' = [pc EXCEPT ![p] = "fwrite"] /\ UNCHANGED <<fds, exit>>
    BY <1>0, <1>4, <2>1 DEF Encode, TInv, TypeOK, IndexOK, PcTypes
  <2>2. CASE Close(p, WStep(p).path) /\ Exit(p, "failure")
    BY <1>0, <1>4, <2>2, ExitTypes DEF Encode, Close, TInv, TypeOK, IndexOK, PcTypes
  <2>3. QED
    BY <1>4, <2>1, <2>2 DEF Encode
<1>5. ASSUME NEW p \in Procs, pc[p] \in WriteSteps, PutChunk(p)
      PROVE  data' \in [Paths -> Seq(Chunks)] /\ off' \in [Procs -> Nat]
  <2>1. WStep(p).path \in Paths /\ ChunkOf(Gen(p), off[p] + 1) \in Chunks
    BY <1>0, <1>5, StepTypes DEF TInv, TypeOK
  <2>2. PutAt(data[WStep(p).path], off[p] + 1, ChunkOf(Gen(p), off[p] + 1)) \in Seq(Chunks)
    BY <1>0, <2>1, PutAtType DEF TypeOK
  <2>3. QED
    BY <1>0, <1>5, <2>1, <2>2 DEF PutChunk, TypeOK
<1>6. ASSUME NEW p \in Procs, Fwrite(p) PROVE TInv'
  <2>1. CASE PutChunk(p) /\ UNCHANGED <<pc, fds, exit>>
    BY <1>0, <1>5, <1>6, <2>1 DEF Fwrite, PutChunk, TInv, TypeOK, IndexOK
  <2>2. CASE pc' = [pc EXCEPT ![p] = "fclose"] /\ UNCHANGED <<fileVars, off, fds, exit>>
    BY <1>0, <1>6, <2>2 DEF Fwrite, TInv, TypeOK, IndexOK, PcTypes
  <2>3. CASE Close(p, WStep(p).path) /\ Exit(p, "failure") /\ UNCHANGED <<fileVars, off>>
    BY <1>0, <1>6, <2>3, ExitTypes DEF Fwrite, Close, TInv, TypeOK, IndexOK, PcTypes
  <2>4. QED
    BY <1>6, <2>1, <2>2, <2>3 DEF Fwrite
<1>7. ASSUME NEW p \in Procs, FlushAtClose(p) PROVE TInv'
  BY <1>0, <1>5, <1>7 DEF FlushAtClose, PutChunk, TInv, TypeOK, IndexOK
<1>8. ASSUME NEW p \in Procs, Fclose(p) PROVE TInv'
  <2>1. wrote[p] + 1 \in Nat /\ Len(printed[p]) \in Nat
    BY <1>0 DEF TypeOK
  <2>2. PcTypes' /\ pc'[p] \in {"wopen", "ropen", "done"}
        /\ (pc'[p] = "wopen" => wrote[p] + 1 < Len(Writes[p]))
        /\ (pc'[p] = "ropen" => Len(printed[p]) < Len(Reads[p]))
        /\ \A q \in Procs \ {p} : pc'[q] = pc[q]
    BY <1>0, <1>8, <2>1, ContinueTypes DEF Fclose
  <2>3. QED
    BY <1>0, <1>8, <2>1, <2>2 DEF Fclose, Close, TInv, TypeOK, IndexOK, PcTypes
<1>9. ASSUME NEW p \in Procs, OpenForRead(p) PROVE TInv'
  <2>1. RStep(p).path \in Paths
    BY <1>0, <1>9, StepTypes DEF OpenForRead, TInv
  <2>2. QED
    BY <1>0, <1>9, <2>1, EmptySeq DEF OpenForRead, TInv, TypeOK, IndexOK
<1>10. ASSUME NEW p \in Procs, OpenForReadFails(p) PROVE TInv'
  BY <1>0, <1>10, ExitTypes DEF OpenForReadFails, TInv, TypeOK, IndexOK, PcTypes
<1>11. ASSUME NEW p \in Procs, ReadFails(p), UNCHANGED <<fileVars, wrote, off, histVars>>
       PROVE  TInv'
  BY <1>0, <1>11, ExitTypes DEF ReadFails, Close, TInv, TypeOK, IndexOK, PcTypes
<1>12. ASSUME NEW p \in Procs, MeasureFile(p) PROVE TInv'
  <2>1. CASE "seek" \in Faults /\ ReadFails(p)
    BY <1>11, <1>12, <2>1 DEF MeasureFile
  <2>2. CASE /\ want' = [want EXCEPT ![p] = Len(data[RStep(p).path])]
             /\ pc' = [pc EXCEPT ![p] = "fread"]
             /\ UNCHANGED <<fds, exit, buf, printed>>
    <3>1. Len(data[RStep(p).path]) \in Nat
      BY <1>0, <1>12, StepTypes DEF MeasureFile, TInv, TypeOK
    <3>2. QED
      BY <1>0, <1>12, <2>2, <3>1 DEF MeasureFile, TInv, TypeOK, IndexOK
  <2>3. QED
    BY <1>12, <2>1, <2>2 DEF MeasureFile
<1>13. ASSUME NEW p \in Procs, ReadBlock(p) PROVE TInv'
  <2> DEFINE f == RStep(p).path
             upto == IF Len(buf[p]) + Block < want[p] THEN Len(buf[p]) + Block ELSE want[p]
  <2>1. CASE ReadFails(p)
    BY <1>11, <1>13, <2>1 DEF ReadBlock
  <2>2. CASE /\ upto <= Len(data[f])
             /\ buf' = [buf EXCEPT ![p] = ReadUpTo(@, data[f], upto)]
             /\ UNCHANGED <<pc, fds, exit, want, printed>>
    <3>1. f \in Paths /\ upto \in Nat
      BY <1>0, <1>13, StepTypes, SizeAssumption DEF ReadBlock, TInv, TypeOK
    <3>2. ReadUpTo(buf[p], data[f], upto) \in Seq(Chunks)
      BY <1>0, <2>2, <3>1, ReadUpToType DEF TypeOK
    <3>3. QED
      BY <1>0, <1>13, <2>2, <3>2 DEF ReadBlock, TInv, TypeOK, IndexOK
  <2>3. QED
    BY <1>13, <2>1, <2>2 DEF ReadBlock
<1>14. ASSUME NEW p \in Procs, ReadDone(p) PROVE TInv'
  BY <1>0, <1>14 DEF ReadDone, TInv, TypeOK, IndexOK
<1>15. ASSUME NEW p \in Procs, Decode(p) PROVE TInv'
  <2>1. CASE ReadFails(p)
    BY <1>11, <1>15, <2>1 DEF Decode
  <2>2. CASE /\ printed' = [printed EXCEPT ![p] = Append(@, buf[p])]
             /\ Close(p, RStep(p).path)
             /\ Continue(p, wrote[p], Len(printed[p]) + 1)
             /\ UNCHANGED <<want, buf>>
    <3>1. wrote[p] \in Nat /\ Len(printed[p]) + 1 \in Nat
      BY <1>0 DEF TypeOK
    <3>2. /\ PcTypes' /\ pc'[p] \in {"wopen", "ropen", "done"}
          /\ (pc'[p] = "wopen" => wrote[p] < Len(Writes[p]))
          /\ (pc'[p] = "ropen" => Len(printed[p]) + 1 < Len(Reads[p]))
          /\ \A q \in Procs \ {p} : pc'[q] = pc[q]
      BY <1>0, <2>2, <3>1, ContinueTypes
    <3>3. /\ printed' \in [Procs -> Seq(Seq(Chunks))]
          /\ Len(printed'[p]) = Len(printed[p]) + 1
          /\ \A q \in Procs \ {p} : printed'[q] = printed[q]
      BY <1>0, <2>2 DEF TypeOK
    <3>4. QED
      BY <1>0, <1>15, <2>2, <3>2, <3>3 DEF Decode, Close, TInv, TypeOK, IndexOK, PcTypes
  <2>3. QED
    BY <1>15, <2>1, <2>2 DEF Decode
<1>16. ASSUME NEW p \in Procs, Kill(p) PROVE TInv'
  BY <1>0, <1>16, ExitTypes DEF Kill, TInv, TypeOK, IndexOK, PcTypes
<1>17. CASE UNCHANGED vars
  BY <1>0, <1>17 DEF vars, TInv, TypeOK, IndexOK
<1>18. QED
  BY <1>1, <1>2, <1>3, <1>4, <1>6, <1>7, <1>8, <1>9, <1>10, <1>12, <1>13, <1>14,
     <1>15, <1>16, <1>17 DEF Next, Program, Finished

\* Every reachable state is well typed: sizes, offsets and indices are natural
\* numbers, a file holds chunks of some encoding or holes, and only existing
\* programs and files are ever named (PayloadExchange, all operations).
THEOREM TypeCorrect == Spec => []TypeOK
<1>1. TInv => TypeOK
  BY DEF TInv
<1>2. QED
  BY <1>1, InitTInv, StepTInv, PTL DEF Spec

-----------------------------------------------------------------------------
\* The inductive invariant behind UnmixedIsPrefix.
WInv == OffOK /\ LoneWriter /\ UnmixedIsPrefix

LEMMA InitWInv == Init => WInv
<1> SUFFICES ASSUME Init PROVE WInv
  OBVIOUS
<1>1. \A p \in Procs : pc[p] \notin WriteSteps
  BY NextPcRange DEF Init, FirstPc, WriteSteps
<1>2. \A f \in Paths : lastw[f] # NoGen => IsPartOf(data[f], lastw[f])
  BY BeforeAssumption, PayloadType DEF Init, Content
<1>3. QED
  BY <1>1, <1>2 DEF WInv, OffOK, LoneWriter, UnmixedIsPrefix, WritersOf

\* A step that touches no file and lets no program start writing.
LEMMA NoWriteStep ==
  ASSUME WInv, UNCHANGED <<data, lastw, mixed>>,
         \A q \in Procs : pc'[q] \in WriteSteps =>
           pc[q] \in WriteSteps /\ wrote'[q] = wrote[q] /\ off'[q] = off[q]
  PROVE  WInv'
<1>1. \A q \in Procs : pc'[q] \in WriteSteps => WStep(q)' = WStep(q) /\ Gen(q)' = Gen(q)
  BY DEF WStep, Gen
<1>2. \A f \in Paths : WritersOf(f)' \subseteq WritersOf(f)
  BY <1>1 DEF WritersOf
<1>3. OffOK'
  BY <1>1 DEF WInv, OffOK
<1>4. LoneWriter'
  BY <1>1, <1>2 DEF WInv, LoneWriter, WritersOf
<1>5. UnmixedIsPrefix'
  BY DEF WInv, UnmixedIsPrefix
<1>6. QED
  BY <1>3, <1>4, <1>5 DEF WInv

LEMMA OpenWInv ==
  ASSUME TInv, WInv, NEW p \in Procs, OpenForWrite(p)
  PROVE  WInv'
<1> DEFINE f0 == WStep(p).path
<1> USE DEF WriteSteps
<1>0. f0 \in Paths /\ Gen(p) \in Gens /\ Size[Gen(p)] \in Nat
  BY StepTypes, SizeAssumption DEF OpenForWrite
<1>1. \A q \in Procs : WStep(q)' = WStep(q) /\ Gen(q)' = Gen(q)
  BY DEF OpenForWrite, WStep, Gen
<1>2. /\ pc[p] = "wopen" /\ pc'[p] = "encode"
      /\ \A q \in Procs \ {p} : pc'[q] = pc[q] /\ off'[q] = off[q]
      /\ off'[p] = 0
  BY DEF OpenForWrite, TInv, TypeOK
<1>3. /\ data'[f0] = <<>> /\ lastw'[f0] = Gen(p)
      /\ \A f \in Paths \ {f0} : data'[f] = data[f] /\ lastw'[f] = lastw[f]
  BY <1>0 DEF OpenForWrite, TInv, TypeOK
<1>4. WritersOf(f0)' = WritersOf(f0) \cup {p}
  BY <1>1, <1>2 DEF WritersOf
<1>5. \A f \in Paths \ {f0} : WritersOf(f)' = WritersOf(f)
  BY <1>1, <1>2 DEF WritersOf
<1>6. f0 \notin mixed' => WritersOf(f0) = {}
  BY DEF OpenForWrite
<1>7. \A f \in Paths \ {f0} : f \notin mixed' => f \notin mixed
  BY DEF OpenForWrite
<1>8. OffOK'
  BY <1>0, <1>1, <1>2 DEF WInv, OffOK
<1>9. LoneWriter'
  <2> SUFFICES ASSUME NEW f \in Paths \ mixed', NEW q \in WritersOf(f)'
               PROVE  /\ lastw'[f] = Gen(q)' /\ off'[q] = Len(data'[f])
                      /\ \A r \in WritersOf(f)' : r = q
    BY DEF LoneWriter
  <2>1. CASE f = f0
    BY <1>1, <1>2, <1>3, <1>4, <1>6, <2>1, EmptySeq
  <2>2. CASE f # f0
    <3>1. q \in WritersOf(f) /\ q # p /\ q \in Procs
      BY <1>2, <1>5, <2>2 DEF WritersOf
    <3>2. QED
      BY <1>1, <1>2, <1>3, <1>5, <1>7, <2>2, <3>1 DEF WInv, LoneWriter
  <2>3. QED
    BY <2>1, <2>2
<1>10. UnmixedIsPrefix'
  <2> SUFFICES ASSUME NEW f \in Paths, f \notin mixed', lastw'[f] # NoGen
               PROVE  IsPartOf(data'[f], lastw'[f])
    BY DEF UnmixedIsPrefix
  <2>1. CASE f = f0
    BY <1>0, <1>3, <2>1, EmptySeq DEF IsPartOf
  <2>2. CASE f # f0
    BY <1>3, <1>7, <2>2 DEF WInv, UnmixedIsPrefix
  <2>3. QED
    BY <2>1, <2>2
<1>11. QED
  BY <1>8, <1>9, <1>10 DEF WInv

LEMMA PutWInv ==
  ASSUME TInv, WInv, NEW p \in Procs, pc[p] \in WriteSteps, off[p] < Size[Gen(p)],
         PutChunk(p), UNCHANGED <<pc, wrote, lastw, mixed>>
  PROVE  WInv'
<1> DEFINE f0 == WStep(p).path
           n == off[p] + 1
<1>0. /\ f0 \in Paths /\ Gen(p) \in Gens /\ Size[Gen(p)] \in Nat
      /\ ChunkOf(Gen(p), n) \in Chunks /\ off[p] \in Nat /\ data[f0] \in Seq(Chunks)
  BY StepTypes, SizeAssumption DEF TInv, TypeOK
<1>1. \A q \in Procs : WStep(q)' = WStep(q) /\ Gen(q)' = Gen(q)
  BY DEF WStep, Gen
<1>2. \A f \in Paths : WritersOf(f)' = WritersOf(f)
  BY <1>1 DEF WritersOf
<1>3. off'[p] = n /\ \A q \in Procs \ {p} : off'[q] = off[q]
  BY DEF PutChunk, TInv, TypeOK
<1>4. /\ data'[f0] = PutAt(data[f0], n, ChunkOf(Gen(p), n))
      /\ \A f \in Paths \ {f0} : data'[f] = data[f]
  BY <1>0 DEF PutChunk, TInv, TypeOK
<1>5. p \in WritersOf(f0) /\ \A f \in Paths \ {f0} : p \notin WritersOf(f)
  BY DEF WritersOf
<1>6. ASSUME f0 \notin mixed
      PROVE  /\ lastw[f0] = Gen(p) /\ WritersOf(f0) = {p}
             /\ Len(data'[f0]) = n /\ IsPartOf(data'[f0], Gen(p))
  <2>1. lastw[f0] = Gen(p) /\ off[p] = Len(data[f0]) /\ WritersOf(f0) = {p}
    BY <1>0, <1>5, <1>6 DEF WInv, LoneWriter
  <2>2. IsPartOf(data[f0], Gen(p))
    <3>1. lastw[f0] # NoGen
      BY <1>0, <2>1, BeforeAssumption
    <3>2. IsPartOf(data[f0], lastw[f0])
      BY <1>0, <1>6, <3>1 DEF WInv, UnmixedIsPrefix
    <3>3. QED
      BY <2>1, <3>2
  <2>3. /\ Len(data'[f0]) = n
        /\ \A i \in 1..n : data'[f0][i] = IF i = n THEN ChunkOf(Gen(p), n) ELSE data[f0][i]
    <3>1. n = Len(data[f0]) + 1
      BY <1>0, <2>1
    <3>2. QED
      BY <1>0, <1>4, <3>1, PutAtEnd
  <2>4. QED
    BY <1>0, <2>1, <2>2, <2>3 DEF IsPartOf
<1>7. OffOK'
  BY <1>0, <1>1, <1>3 DEF WInv, OffOK
<1>8. LoneWriter'
  <2> SUFFICES ASSUME NEW f \in Paths \ mixed, NEW q \in WritersOf(f)
               PROVE  /\ lastw[f] = Gen(q) /\ off'[q] = Len(data'[f])
                      /\ \A r \in WritersOf(f) : r = q
    BY <1>1, <1>2 DEF LoneWriter, WritersOf
  <2>1. CASE f = f0
    BY <1>3, <1>6, <2>1
  <2>2. CASE f # f0
    BY <1>3, <1>4, <1>5, <2>2 DEF WInv, LoneWriter, WritersOf
  <2>3. QED
    BY <2>1, <2>2
<1>9. UnmixedIsPrefix'
  BY <1>4, <1>6 DEF WInv, UnmixedIsPrefix
<1>10. QED
  BY <1>7, <1>8, <1>9 DEF WInv

LEMMA StepWInv == TInv /\ WInv /\ [Next]_vars => WInv'
<1> SUFFICES ASSUME TInv, WInv, [Next]_vars PROVE WInv'
  OBVIOUS
<1> USE DEF WriteSteps, fileVars, histVars
<1>0. PcTypes /\ TypeOK
  BY DEF TInv, TypeOK, PcTypes
<1>1. ASSUME NEW p \in Procs, EnsureDirectory(p) PROVE WInv'
  <2>1. wrote[p] \in Nat /\ Len(printed[p]) \in Nat
    BY <1>0 DEF TypeOK
  <2>2. QED
    BY <1>0, <1>1, <2>1, ContinueTypes, ExitTypes, NoWriteStep DEF EnsureDirectory
<1>2. ASSUME NEW p \in Procs, OpenForWrite(p) PROVE WInv'
  BY <1>2, OpenWInv
<1>3. ASSUME NEW p \in Procs, OpenForWriteFails(p) \/ OpenForReadFails(p) \/ Kill(p) PROVE WInv'
  BY <1>0, <1>3, ExitTypes, NoWriteStep DEF OpenForWriteFails, OpenForReadFails, Kill
<1>4. ASSUME NEW p \in Procs, Encode(p) PROVE WInv'
  BY <1>0, <1>4, ExitTypes, NoWriteStep DEF Encode, PcTypes
<1>5. ASSUME NEW p \in Procs, Fwrite(p) PROVE WInv'
  <2>1. CASE Size[Gen(p)] - off[p] >= Block /\ PutChunk(p) /\ UNCHANGED <<pc, fds, exit>>
    <3>1. off[p] < Size[Gen(p)]
      BY <1>0, <1>5, <2>1, StepTypes, SizeAssumption DEF Fwrite, TypeOK
    <3>2. QED
      BY <1>5, <2>1, <3>1, PutWInv DEF Fwrite
  <2>2. CASE pc' = [pc EXCEPT ![p] = "fclose"] /\ UNCHANGED <<fileVars, off, fds, exit>>
    BY <1>0, <1>5, <2>2, NoWriteStep DEF Fwrite, PcTypes
  <2>3. CASE Exit(p, "failure") /\ UNCHANGED <<fileVars, off>>
    BY <1>0, <1>5, <2>3, ExitTypes, NoWriteStep DEF Fwrite
  <2>4. QED
    BY <1>5, <2>1, <2>2, <2>3 DEF Fwrite
<1>6. ASSUME NEW p \in Procs, FlushAtClose(p) PROVE WInv'
  BY <1>6, PutWInv DEF FlushAtClose
<1>7. ASSUME NEW p \in Procs, Fclose(p) PROVE WInv'
  <2>1. wrote[p] + 1 \in Nat /\ Len(printed[p]) \in Nat
    BY <1>0 DEF TypeOK
  <2>2. /\ pc'[p] \in {"wopen", "ropen", "done"}
        /\ \A q \in Procs \ {p} : pc'[q] = pc[q] /\ wrote'[q] = wrote[q]
    BY <1>0, <1>7, <2>1, ContinueTypes DEF Fclose, TypeOK
  <2>3. QED
    BY <1>7, <2>2, NoWriteStep DEF Fclose
<1>8. ASSUME NEW p \in Procs, OpenForRead(p) \/ ReadDone(p) PROVE WInv'
  BY <1>0, <1>8, NoWriteStep DEF OpenForRead, ReadDone, PcTypes
<1>9. ASSUME NEW p \in Procs, MeasureFile(p) \/ ReadBlock(p) PROVE WInv'
  BY <1>0, <1>9, ExitTypes, NoWriteStep DEF MeasureFile, ReadBlock, ReadFails, PcTypes
<1>10. ASSUME NEW p \in Procs, Decode(p) PROVE WInv'
  <2>1. wrote[p] \in Nat /\ Len(printed[p]) + 1 \in Nat
    BY <1>0 DEF TypeOK
  <2>2. QED
    BY <1>0, <1>10, <2>1, ContinueTypes, ExitTypes, NoWriteStep DEF Decode, ReadFails
<1>11. CASE UNCHANGED vars
  BY <1>11, NoWriteStep DEF vars
<1>12. QED
  BY <1>1, <1>2, <1>3, <1>4, <1>5, <1>6, <1>7, <1>8, <1>9, <1>10, <1>11
     DEF Next, Program, Finished

\* For every set of programs and files, every message size and every fault: a
\* file that two writers did not hold open together holds the beginning of the
\* one message it was last opened for (geisa_write_message_file's fopen "wb",
\* fwrite and fclose, and every way they can be cut short).
THEOREM NoForeignChunks == Spec => []UnmixedIsPrefix
<1>1. Init => TInv /\ WInv
  BY InitTInv, InitWInv
<1>2. TInv /\ WInv /\ [Next]_vars => (TInv /\ WInv)'
  BY StepTInv, StepWInv
<1>3. TInv /\ WInv => UnmixedIsPrefix
  BY DEF WInv
<1>4. QED
  BY <1>1, <1>2, <1>3, PTL DEF Spec
=============================================================================
