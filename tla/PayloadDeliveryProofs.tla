----------------------- MODULE PayloadDeliveryProofs -----------------------
(***************************************************************************)
(* Proofs about PayloadExchange beyond what its files hold: descriptors    *)
(* are returned, a read belongs to one encoding, what write_message_file   *)
(* reports is in the file, a demo prints what it wrote, and no call is     *)
(* made over again.                                                        *)
(***************************************************************************)
EXTENDS PayloadExchangeProofs, PayloadExchangeStore

\* What a step of p leaves to p alone.
OthersSame(p) ==
  \A q \in Procs \ {p} :
    /\ pc'[q] = pc[q] /\ fds'[q] = fds[q] /\ wrote'[q] = wrote[q] /\ off'[q] = off[q]
    /\ want'[q] = want[q] /\ buf'[q] = buf[q] /\ printed'[q] = printed[q]
    /\ exit'[q] = exit[q]

LEMMA StepOfOne ==
  ASSUME TInv, NEW p \in Procs, Program(p) \/ Kill(p)
  PROVE  OthersSame(p)
<1> USE DEF OthersSame, TInv, TypeOK, fileVars, histVars, Exit, Continue, Close
<1>1. CASE EnsureDirectory(p)
  BY <1>1 DEF EnsureDirectory
<1>2. CASE OpenForWrite(p)
  BY <1>2 DEF OpenForWrite
<1>3. CASE OpenForWriteFails(p) \/ OpenForReadFails(p) \/ Kill(p)
  BY <1>3 DEF OpenForWriteFails, OpenForReadFails, Kill
<1>4. CASE Encode(p)
  BY <1>4 DEF Encode
<1>5. CASE Fwrite(p)
  BY <1>5 DEF Fwrite, PutChunk
<1>6. CASE FlushAtClose(p)
  BY <1>6 DEF FlushAtClose, PutChunk
<1>7. CASE Fclose(p)
  BY <1>7 DEF Fclose
<1>8. CASE OpenForRead(p)
  BY <1>8 DEF OpenForRead
<1>9. CASE MeasureFile(p)
  BY <1>9 DEF MeasureFile, ReadFails
<1>10. CASE ReadBlock(p)
  BY <1>10 DEF ReadBlock, ReadFails
<1>11. CASE ReadDone(p)
  BY <1>11 DEF ReadDone
<1>12. CASE Decode(p)
  BY <1>12 DEF Decode, ReadFails
<1> QED BY <1>1, <1>2, <1>3, <1>4, <1>5, <1>6, <1>7, <1>8, <1>9, <1>10, <1>11, <1>12 DEF Program

\* While p writes or decodes, its file is the same from one of its calls to the next.
LEMMA StepUnmoved ==
  ASSUME NEW p \in Procs
  PROVE  /\ wrote'[p] = wrote[p] => WStep(p)' = WStep(p) /\ Gen(p)' = Gen(p)
         /\ printed'[p] = printed[p] => RStep(p)' = RStep(p)
  BY DEF WStep, RStep, Gen

\* The descriptors of one program.
Returned(p) ==
  fds[p] = IF pc[p] \in WriteSteps THEN {WStep(p).path}
           ELSE IF pc[p] \in ReadSteps THEN {RStep(p).path} ELSE {}

LEMMA InitReturned == Init => DescriptorsReturned
  BY NextPcRange DEF Init, DescriptorsReturned, FirstPc, WriteSteps, ReadSteps

LEMMA OneReturned ==
  ASSUME TInv, DescriptorsReturned, NEW p \in Procs, Program(p) \/ Kill(p)
  PROVE  Returned(p)'
<1> USE DEF fileVars, histVars, WriteSteps, ReadSteps
<1>0. PcTypes /\ TypeOK /\ fds \in [Procs -> SUBSET Paths] /\ Returned(p)
      /\ wrote[p] \in Nat /\ Len(printed[p]) \in Nat
  BY DEF TInv, TypeOK, PcTypes, DescriptorsReturned, Returned
<1>1. CASE EnsureDirectory(p)
  BY <1>0, <1>1, ContinueTypes, ExitTypes DEF EnsureDirectory, Returned
<1>2. CASE OpenForWrite(p)
  BY <1>0, <1>2, StepUnmoved DEF OpenForWrite, Returned, PcTypes
<1>3. CASE OpenForWriteFails(p) \/ OpenForReadFails(p) \/ Kill(p)
  BY <1>0, <1>3, ExitTypes DEF OpenForWriteFails, OpenForReadFails, Kill, Returned
<1>4. CASE Encode(p)
  BY <1>0, <1>4, ExitTypes, StepUnmoved DEF Encode, Close, Returned, PcTypes
<1>5. CASE Fwrite(p)
  BY <1>0, <1>5, ExitTypes, StepUnmoved DEF Fwrite, Close, Returned, PcTypes
<1>6. CASE FlushAtClose(p)
  BY <1>0, <1>6, StepUnmoved DEF FlushAtClose, Returned, PcTypes
<1>7. CASE Fclose(p)
  <2>1. pc'[p] \in {"wopen", "ropen", "done"}
    BY <1>0, <1>7, ContinueTypes DEF Fclose
  <2>2. fds'[p] = {}
    BY <1>0, <1>7 DEF Fclose, Close, Returned
  <2> QED BY <2>1, <2>2 DEF Returned
<1>8. CASE OpenForRead(p)
  BY <1>0, <1>8, StepUnmoved DEF OpenForRead, Returned, PcTypes
<1>9. ASSUME ReadFails(p), pc[p] \in ReadSteps PROVE Returned(p)'
  BY <1>0, <1>9, ExitTypes DEF ReadFails, Close, Returned
<1>10. CASE MeasureFile(p)
  BY <1>0, <1>9, <1>10, StepUnmoved DEF MeasureFile, Returned, PcTypes
<1>11. CASE ReadBlock(p)
  BY <1>0, <1>9, <1>11, StepUnmoved DEF ReadBlock, Returned, PcTypes
<1>12. CASE ReadDone(p)
  BY <1>0, <1>12, StepUnmoved DEF ReadDone, Returned, PcTypes
<1>13. CASE Decode(p)
  <2>1. CASE ReadFails(p)
    BY <1>9, <1>13, <2>1 DEF Decode
  <2>2. CASE Close(p, RStep(p).path) /\ Continue(p, wrote[p], Len(printed[p]) + 1)
    <3>1. pc'[p] \in {"wopen", "ropen", "done"}
      BY <1>0, <2>2, ContinueTypes
    <3>2. fds'[p] = {}
      BY <1>0, <1>13, <2>2 DEF Decode, Close, Returned
    <3> QED BY <3>1, <3>2 DEF Returned
  <2> QED BY <1>13, <2>1, <2>2 DEF Decode
<1> QED BY <1>1, <1>2, <1>3, <1>4, <1>5, <1>6, <1>7, <1>8, <1>10, <1>11, <1>12, <1>13
        DEF Program

LEMMA StepReturned == TInv /\ DescriptorsReturned /\ [Next]_vars => DescriptorsReturned'
<1> SUFFICES ASSUME TInv, DescriptorsReturned, [Next]_vars, NEW q \in Procs
             PROVE  Returned(q)'
  BY DEF DescriptorsReturned, Returned
<1>1. ASSUME NEW p \in Procs, Program(p) \/ Kill(p) PROVE Returned(q)'
  <2>1. CASE q = p
    BY <1>1, <2>1, OneReturned
  <2>2. CASE q # p
    BY <1>1, <2>2, StepOfOne, StepUnmoved DEF OthersSame, DescriptorsReturned, Returned
  <2> QED BY <2>1, <2>2
<1>2. CASE UNCHANGED vars
  BY <1>2, StepUnmoved DEF vars, DescriptorsReturned, Returned
<1> QED BY <1>1, <1>2 DEF Next, Finished

\* On every way out of the two functions, whichever call failed, the file is closed;
\* inside them that one file and no other is open.
THEOREM FilesAreClosed == Spec => []DescriptorsReturned
  BY InitTInv, StepTInv, InitReturned, StepReturned, PTL DEF Spec
-----------------------------------------------------------------------------
\* p's step adds a chunk to its file.
PutStep(p) ==
  /\ pc[p] \in WriteSteps /\ off[p] < Size[Gen(p)] /\ PutChunk(p)
  /\ UNCHANGED <<pc, fds, wrote, want, buf, printed, exit, histVars>>

\* p's step changes no file and opens none for writing.
QuietStep(p) ==
  /\ UNCHANGED <<exists, data, lastw, mixed>> /\ dirty' \ {p} = dirty \ {p}
  /\ pc'[p] \in WriteSteps => pc[p] \in WriteSteps /\ wrote'[p] = wrote[p]

LEMMA StepKinds ==
  ASSUME TInv, NEW p \in Procs, Program(p) \/ Kill(p)
  PROVE  OpenForWrite(p) \/ PutStep(p) \/ QuietStep(p)
<1> USE DEF fileVars, histVars, WriteSteps, QuietStep
<1>0. PcTypes /\ TypeOK /\ wrote[p] \in Nat /\ Len(printed[p]) \in Nat
      /\ wrote[p] + 1 \in Nat /\ Len(printed[p]) + 1 \in Nat
  BY DEF TInv, TypeOK, PcTypes
<1>1. CASE EnsureDirectory(p)
  BY <1>0, <1>1, ContinueTypes, ExitTypes DEF EnsureDirectory
<1>2. CASE OpenForWriteFails(p) \/ OpenForReadFails(p) \/ Kill(p)
  BY <1>0, <1>2, ExitTypes DEF OpenForWriteFails, OpenForReadFails, Kill
<1>3. CASE Encode(p)
  BY <1>0, <1>3, ExitTypes DEF Encode, PcTypes
<1>4. CASE Fwrite(p)
  <2>1. Size[Gen(p)] - off[p] >= Block => off[p] < Size[Gen(p)]
    BY <1>0, <1>4, StepTypes, SizeAssumption DEF Fwrite, TypeOK
  <2> QED BY <1>0, <1>4, <2>1, ExitTypes DEF Fwrite, PutStep, PcTypes
<1>5. CASE FlushAtClose(p)
  BY <1>5 DEF FlushAtClose, PutStep
<1>6. CASE Fclose(p)
  <2>1. pc'[p] \in {"wopen", "ropen", "done"}
    BY <1>0, <1>6, ContinueTypes DEF Fclose
  <2> QED BY <1>6, <2>1 DEF Fclose
<1>7. CASE OpenForRead(p) \/ ReadDone(p)
  BY <1>0, <1>7 DEF OpenForRead, ReadDone, PcTypes
<1>8. CASE MeasureFile(p) \/ ReadBlock(p)
  BY <1>0, <1>8, ExitTypes DEF MeasureFile, ReadBlock, ReadFails, PcTypes
<1>9. CASE Decode(p)
  <2>1. pc'[p] \in {"wopen", "ropen", "done"}
    BY <1>0, <1>9, ContinueTypes, ExitTypes DEF Decode, ReadFails
  <2> QED BY <1>9, <2>1 DEF Decode
<1> QED BY <1>1, <1>2, <1>3, <1>4, <1>5, <1>6, <1>7, <1>8, <1>9 DEF Program

\* Who writes a file changes with the program that moves, and with an open.
LEMMA WritersAfter ==
  ASSUME TInv, NEW p \in Procs, Program(p) \/ Kill(p), NEW f
  PROVE  /\ WritersOf(f)' \ {p} = WritersOf(f) \ {p}
         /\ QuietStep(p) => WritersOf(f)' \subseteq WritersOf(f)
         /\ PutStep(p) => WritersOf(f)' = WritersOf(f)
<1>1. \A q \in Procs \ {p} : pc'[q] = pc[q] /\ WStep(q)' = WStep(q)
  BY StepOfOne, StepUnmoved DEF OthersSame
<1>2. QuietStep(p) /\ pc'[p] \in WriteSteps => pc[p] \in WriteSteps /\ WStep(p)' = WStep(p)
  BY StepUnmoved DEF QuietStep
<1>3. PutStep(p) => pc'[p] = pc[p] /\ WStep(p)' = WStep(p)
  BY StepUnmoved DEF PutStep
<1> QED BY <1>1, <1>2, <1>3 DEF WritersOf

\* What a program that decodes a file has of it: the size it measured, and blocks of
\* the file as it is unless a writer opened it meanwhile.
Reader(p) ==
  LET f == RStep(p).path IN
  pc[p] \in ReadSteps =>
    /\ f \in exists
    /\ pc[p] = "ftell" => buf[p] = <<>>
    /\ pc[p] = "fread" =>
         Len(buf[p]) <= want[p] /\ (want[p] <= Block => buf[p] = <<>> \/ Len(buf[p]) = want[p])
    /\ pc[p] = "decode" => Len(buf[p]) = want[p]
    /\ p \notin dirty =>
         /\ WritersOf(f) = {}
         /\ pc[p] # "ftell" =>
              want[p] = Len(data[f]) /\ \A i \in 1..Len(buf[p]) : buf[p][i] = data[f][i]

\* A file that exists was written, and readers are as Reader says.
ReadInv == (\A f \in exists : lastw[f] # NoGen) /\ \A p \in Procs : Reader(p)

LEMMA InitReadInv == Init => ReadInv
  BY NextPcRange DEF Init, ReadInv, Reader, FirstPc, ReadSteps

\* A step of p leaves what another program reads as it was, or marks its read.
LEMMA OtherReader ==
  ASSUME TInv, ReadInv, NEW p \in Procs, Program(p) \/ Kill(p), NEW q \in Procs \ {p}
  PROVE  Reader(q)'
<1> SUFFICES ASSUME pc'[q] \in ReadSteps PROVE Reader(q)'
  BY DEF Reader
<1>1. /\ pc'[q] = pc[q] /\ want'[q] = want[q] /\ buf'[q] = buf[q]
      /\ RStep(q)' = RStep(q)
  BY StepOfOne, StepUnmoved DEF OthersSame
<1>2. pc[q] \in ReadSteps /\ Reader(q) /\ RStep(q).path \in Paths
  BY <1>1, StepTypes DEF ReadInv
<1> PICK f \in Paths : f = RStep(q).path
  BY <1>2
<1>3. exists \subseteq exists' /\ dirty \subseteq dirty' \cup {p}
  BY StepKinds DEF OpenForWrite, PutStep, PutChunk, QuietStep, histVars
<1>4. ASSUME q \notin dirty'
      PROVE  q \notin dirty /\ data'[f] = data[f] /\ WritersOf(f)' = {}
  <2>1. q \notin dirty /\ WritersOf(f) = {}
    BY <1>2, <1>3, <1>4 DEF Reader
  <2>2. CASE OpenForWrite(p)
    <3>1. WStep(p).path # f
      BY <1>2, <1>4, <2>2 DEF OpenForWrite, ReadersOf
    <3>2. data'[f] = data[f]
      BY <1>2, <2>2, <3>1 DEF OpenForWrite, TInv, TypeOK
    <3>3. p \notin WritersOf(f)'
      BY <2>2, <3>1, StepUnmoved DEF OpenForWrite, WritersOf
    <3> QED BY <2>1, <3>2, <3>3, WritersAfter
  <2>3. CASE PutStep(p)
    <3>1. WStep(p).path # f
      BY <2>1, <2>3 DEF PutStep, WritersOf
    <3>2. data'[f] = data[f]
      BY <1>2, <2>3, <3>1 DEF PutStep, PutChunk, TInv, TypeOK
    <3> QED BY <2>1, <2>3, <3>2, WritersAfter
  <2>4. CASE QuietStep(p)
    BY <2>1, <2>4, WritersAfter DEF QuietStep
  <2> QED BY <2>2, <2>3, <2>4, StepKinds
<1> QED BY <1>1, <1>2, <1>3, <1>4 DEF Reader

\* A block read extends the beginning of the file that was there.
LEMMA BlockRead ==
  ASSUME NEW b \in Seq(Chunks), NEW c \in Seq(Chunks), NEW m \in Nat,
         Len(b) <= m, m <= Len(c)
  PROVE  /\ ReadUpTo(b, c, m) \in Seq(Chunks) /\ Len(ReadUpTo(b, c, m)) = m
         /\ (\A i \in 1..Len(b) : b[i] = c[i]) => \A i \in 1..m : ReadUpTo(b, c, m)[i] = c[i]
         /\ b = <<>> => \A i \in 1..m : ReadUpTo(b, c, m)[i] = c[i]
  BY ReadUpToType DEF ReadUpTo

LEMMA OwnReader ==
  ASSUME TInv, ReadInv, NEW p \in Procs, Program(p) \/ Kill(p)
  PROVE  Reader(p)'
<1> USE DEF fileVars, histVars, WriteSteps, ReadSteps
<1> SUFFICES ASSUME pc'[p] \in ReadSteps PROVE Reader(p)'
  BY DEF Reader
<1>0. PcTypes /\ wrote[p] \in Nat /\ Len(printed[p]) \in Nat /\ Reader(p)
      /\ wrote[p] + 1 \in Nat /\ Len(printed[p]) + 1 \in Nat
      /\ buf[p] \in Seq(Chunks) /\ want[p] \in Nat /\ Len(buf[p]) \in Nat
  BY DEF TInv, TypeOK, PcTypes, ReadInv
<1>1. CASE EnsureDirectory(p) \/ OpenForWriteFails(p) \/ OpenForReadFails(p) \/ Kill(p)
  BY <1>0, <1>1, ContinueTypes, ExitTypes
     DEF EnsureDirectory, OpenForWriteFails, OpenForReadFails, Kill
<1>2. CASE OpenForWrite(p) \/ Encode(p) \/ Fwrite(p) \/ FlushAtClose(p)
  BY <1>0, <1>2, ExitTypes DEF OpenForWrite, Encode, Fwrite, FlushAtClose, PcTypes
<1>3. CASE Fclose(p)
  BY <1>0, <1>3, ContinueTypes DEF Fclose
<1>4. CASE Decode(p)
  BY <1>0, <1>4, ContinueTypes, ExitTypes DEF Decode, ReadFails
<1>5. ~ReadFails(p)
  BY <1>0, ExitTypes DEF ReadFails
<1>6. ASSUME pc[p] \in {"ropen"} \cup ReadSteps, UNCHANGED <<exists, data, wrote, printed>>,
             NEW f \in Paths, f = RStep(p).path, QuietStep(p)
      PROVE  /\ RStep(p)' = RStep(p) /\ exists' = exists /\ data'[f] = data[f]
             /\ data[f] \in Seq(Chunks) /\ Len(data[f]) \in Nat
             /\ WritersOf(f)' \subseteq WritersOf(f)
  BY <1>6, StepUnmoved, WritersAfter DEF TInv, TypeOK
<1>7. CASE OpenForRead(p)
  <2> PICK f \in Paths : f = RStep(p).path
    BY <1>7, StepTypes DEF OpenForRead
  <2>1. /\ f \in exists /\ pc'[p] = "ftell" /\ buf'[p] = <<>>
        /\ p \notin dirty' => WritersOf(f) = {}
    BY <1>7 DEF OpenForRead, TInv, TypeOK
  <2>2. pc[p] = "ropen" /\ UNCHANGED <<exists, data, wrote, printed>> /\ QuietStep(p)
    BY <1>7, <2>1 DEF OpenForRead, QuietStep
  <2>3. RStep(p)' = RStep(p) /\ exists' = exists /\ WritersOf(f)' \subseteq WritersOf(f)
    BY <1>6, <2>2
  <2> QED BY <2>1, <2>3 DEF Reader
<1>8. CASE MeasureFile(p)
  <2> PICK f \in Paths : f = RStep(p).path
    BY <1>8, StepTypes DEF MeasureFile
  <2>1. /\ pc[p] = "ftell" /\ pc'[p] = "fread" /\ UNCHANGED <<exists, data, wrote, printed, buf, dirty>>
        /\ want'[p] = Len(data[f]) /\ QuietStep(p)
    BY <1>0, <1>5, <1>8 DEF MeasureFile, QuietStep, PcTypes, TInv, TypeOK
  <2>2. /\ RStep(p)' = RStep(p) /\ exists' = exists /\ data'[f] = data[f]
        /\ Len(data[f]) \in Nat /\ WritersOf(f)' \subseteq WritersOf(f)
    BY <1>6, <2>1
  <2> QED BY <1>0, <2>1, <2>2 DEF Reader
<1>9. CASE ReadBlock(p)
  <2> PICK f \in Paths : f = RStep(p).path
    BY <1>9, StepTypes DEF ReadBlock
  <2> DEFINE have == Len(buf[p])
             upto == IF have + Block < want[p] THEN have + Block ELSE want[p]
  <2>0. /\ pc[p] = "fread" /\ have < want[p] /\ upto <= Len(data[f])
        /\ buf' = [buf EXCEPT ![p] = ReadUpTo(@, data[f], upto)]
        /\ UNCHANGED <<fileVars, pc, want, wrote, printed, histVars>>
    BY <1>5, <1>9 DEF ReadBlock
  <2>1. /\ pc[p] = "fread" /\ have < want[p] /\ upto <= Len(data[f])
        /\ buf'[p] = ReadUpTo(buf[p], data[f], upto)
        /\ UNCHANGED <<exists, data, pc, want, wrote, printed, dirty>> /\ QuietStep(p)
    BY <2>0 DEF QuietStep, TInv, TypeOK
  <2>2. /\ RStep(p)' = RStep(p) /\ exists' = exists /\ data'[f] = data[f]
        /\ data[f] \in Seq(Chunks) /\ Len(data[f]) \in Nat /\ WritersOf(f)' \subseteq WritersOf(f)
    BY <1>6, <2>1
  <2>3. upto \in Nat /\ have <= upto /\ upto <= want[p] /\ (want[p] <= Block => upto = want[p])
    BY <1>0, <2>1, SizeAssumption
  <2> HIDE DEF upto
  <2>4. /\ Len(buf'[p]) = upto
        /\ (\A i \in 1..have : buf[p][i] = data[f][i]) => \A i \in 1..upto : buf'[p][i] = data[f][i]
    <3>1. buf[p] \in Seq(Chunks) /\ Len(buf[p]) <= upto /\ upto <= Len(data[f])
      BY <1>0, <2>1, <2>3
    <3>2. LET b == ReadUpTo(buf[p], data[f], upto) IN
          /\ Len(b) = upto
          /\ (\A i \in 1..Len(buf[p]) : buf[p][i] = data[f][i]) => \A i \in 1..upto : b[i] = data[f][i]
      BY <2>2, <2>3, <3>1, BlockRead
    <3> QED BY <2>1, <3>2
  <2> QED BY <1>0, <2>1, <2>2, <2>3, <2>4 DEF Reader
<1>10. CASE ReadDone(p)
  <2> PICK f \in Paths : f = RStep(p).path
    BY <1>10, StepTypes DEF ReadDone
  <2>1. /\ pc[p] = "fread" /\ pc'[p] = "decode" /\ Len(buf[p]) = want[p]
        /\ UNCHANGED <<exists, data, want, wrote, printed, buf, dirty>> /\ QuietStep(p)
    BY <1>0, <1>10 DEF ReadDone, QuietStep, PcTypes
  <2>2. /\ RStep(p)' = RStep(p) /\ exists' = exists /\ data'[f] = data[f]
        /\ WritersOf(f)' \subseteq WritersOf(f)
    BY <1>6, <2>1
  <2> QED BY <1>0, <2>1, <2>2 DEF Reader
<1> QED BY <1>1, <1>2, <1>3, <1>4, <1>7, <1>8, <1>9, <1>10 DEF Program

LEMMA StepReadInv == TInv /\ ReadInv /\ [Next]_vars => ReadInv'
<1> SUFFICES ASSUME TInv, ReadInv, [Next]_vars PROVE ReadInv'
  OBVIOUS
<1>1. ASSUME NEW p \in Procs, Program(p) \/ Kill(p) PROVE ReadInv'
  <2>1. \A q \in Procs : Reader(q)'
    BY <1>1, OwnReader, OtherReader
  <2>2. \A f \in exists' : lastw'[f] # NoGen
    <3>1. CASE OpenForWrite(p)
      <4>1. Gen(p) # NoGen /\ WStep(p).path \in Paths
        BY <3>1, StepTypes, BeforeAssumption DEF OpenForWrite
      <4> QED BY <3>1, <4>1 DEF OpenForWrite, TInv, TypeOK, ReadInv
    <3>2. CASE PutStep(p) \/ QuietStep(p)
      BY <3>2 DEF PutStep, PutChunk, QuietStep, histVars, ReadInv
    <3> QED BY <1>1, <3>1, <3>2, StepKinds
  <2> QED BY <2>1, <2>2 DEF ReadInv
<1>2. CASE UNCHANGED vars
  BY <1>2, StepUnmoved DEF vars, ReadInv, Reader, WritersOf
<1> QED BY <1>1, <1>2 DEF Next, Finished

-----------------------------------------------------------------------------
LEMMA Mover ==
  ASSUME TInv, [Next]_vars, NEW p \in Procs,
         buf'[p] # buf[p] \/ printed'[p] # printed[p]
  PROVE  Program(p) \/ Kill(p)
<1>1. ASSUME NEW q \in Procs, Program(q) \/ Kill(q), p # q PROVE FALSE
  BY <1>1, StepOfOne DEF OthersSame
<1>2. ~UNCHANGED vars
  BY DEF vars
<1> QED BY <1>1, <1>2 DEF Next, Finished

LEMMA FillsBuffer ==
  ASSUME TInv, NEW p \in Procs, Program(p) \/ Kill(p), buf'[p] # buf[p], buf'[p] # <<>>
  PROVE  ReadBlock(p) /\ ~ReadFails(p)
<1>1. OpenForRead(p) => buf'[p] = <<>>
  BY DEF OpenForRead, TInv, TypeOK
<1>2. CASE ReadBlock(p)
  BY <1>2 DEF ReadFails
<1> QED BY <1>1, <1>2
        DEF Program, EnsureDirectory, OpenForWrite, OpenForWriteFails, Encode, Fwrite,
            FlushAtClose, Fclose, OpenForReadFails, MeasureFile, ReadFails, ReadDone, Decode, Kill

LEMMA Prints ==
  ASSUME TInv, NEW p \in Procs, Program(p) \/ Kill(p), printed'[p] # printed[p]
  PROVE  /\ pc[p] = "decode" /\ data' = data
         /\ printed'[p] = Append(printed[p], buf[p])
         /\ Continue(p, wrote[p], Len(printed[p]) + 1)
         /\ UNCHANGED <<wrote, lastw, mixed>>
<1>1. Decode(p) /\ ~ReadFails(p)
  BY DEF Program, EnsureDirectory, OpenForWrite, OpenForWriteFails, Encode, Fwrite,
         FlushAtClose, Fclose, OpenForRead, OpenForReadFails, MeasureFile, ReadBlock,
         ReadFails, ReadDone, Decode, Kill
<1> QED BY <1>1 DEF Decode, fileVars, histVars, TInv, TypeOK

\* The whole of a file's content when no chunk of it is missing.
LEMMA SameChunks ==
  ASSUME NEW b \in Seq(Chunks), NEW c \in Seq(Chunks), Len(b) = Len(c),
         \A i \in 1..Len(b) : b[i] = c[i]
  PROVE  b = c
  BY SeqEqual

LEMMA StepReadsOne ==
  ASSUME TInv, WInv, ReadInv, [Next]_vars, NEW p \in Procs,
         buf'[p] # buf[p], buf'[p] # <<>>, want[p] <= Block, RStep(p).path \notin mixed
  PROVE  IsPartOf(buf'[p], lastw[RStep(p).path])
<1>1. ReadBlock(p) /\ ~ReadFails(p)
  BY Mover, FillsBuffer
<1>2. pc[p] = "fread" /\ RStep(p).path \in Paths
  BY <1>1, StepTypes DEF ReadBlock, ReadSteps
<1> PICK f \in Paths : f = RStep(p).path
  BY <1>2
<1>3. /\ buf[p] = <<>> /\ f \in exists /\ want[p] \in Nat
      /\ data[f] \in Seq(Chunks) /\ Len(data[f]) \in Nat
  BY <1>1, <1>2 DEF ReadInv, Reader, ReadSteps, ReadBlock, TInv, TypeOK
<1>4. want[p] <= Len(data[f]) /\ buf'[p] = ReadUpTo(buf[p], data[f], want[p])
  <2>1. 0 + Block < want[p] => FALSE
    BY <1>3, SizeAssumption
  <2> QED BY <1>1, <1>3, <2>1 DEF ReadBlock, TInv, TypeOK
<1>5. buf[p] \in Seq(Chunks) /\ Len(buf[p]) = 0
  BY <1>3 DEF TInv, TypeOK
<1>6. Len(buf'[p]) = want[p] /\ \A i \in 1..want[p] : buf'[p][i] = data[f][i]
  <2>1. LET b == ReadUpTo(buf[p], data[f], want[p]) IN
        Len(b) = want[p] /\ \A i \in 1..want[p] : b[i] = data[f][i]
    <3>1. Len(buf[p]) <= want[p] /\ \A i \in 1..Len(buf[p]) : buf[p][i] = data[f][i]
      BY <1>3, <1>5
    <3> QED BY <1>3, <1>4, <1>5, <3>1, BlockRead
  <2> QED BY <1>4, <2>1
<1>7. lastw[f] \in Gens /\ Size[lastw[f]] \in Nat /\ IsPartOf(data[f], lastw[f])
  BY <1>3, SizeAssumption DEF ReadInv, WInv, UnmixedIsPrefix, TInv, TypeOK
<1> QED BY <1>3, <1>4, <1>6, <1>7 DEF IsPartOf

\* A read that fits stdio's buffer returns the beginning of one encoding, whatever was
\* opened, truncated or rewritten since ftell (geisa_read_message_file's fread).
THEOREM ReadsAreOfOneEncoding == Spec => ReadsOneGeneration
<1>1. TInv /\ WInv /\ ReadInv /\ [Next]_vars
      => [\A p \in Procs :
            LET f == RStep(p).path IN
            /\ buf'[p] # buf[p] /\ buf'[p] # <<>>
            /\ want[p] <= Block /\ f \notin mixed
            => IsPartOf(buf'[p], lastw[f])]_vars
  BY StepReadsOne
<1> QED BY <1>1, InitTInv, StepTInv, InitWInv, StepWInv, InitReadInv, StepReadInv, PTL
        DEF Spec, ReadsOneGeneration

LEMMA StepPrints ==
  ASSUME TInv, ReadInv, [Next]_vars, NEW p \in Procs, printed'[p] # printed[p], p \notin dirty
  PROVE  printed'[p][Len(printed'[p])] = data[RStep(p).path]
<1>1. pc[p] = "decode" /\ printed'[p] = Append(printed[p], buf[p]) /\ RStep(p).path \in Paths
  BY Mover, Prints, StepTypes DEF ReadSteps
<1> PICK f \in Paths : f = RStep(p).path
  BY <1>1
<1>2. /\ Len(buf[p]) = want[p] /\ want[p] = Len(data[f])
      /\ \A i \in 1..Len(buf[p]) : buf[p][i] = data[f][i]
  BY <1>1 DEF ReadInv, Reader, ReadSteps
<1>3. buf[p] = data[f]
  BY <1>2, SameChunks DEF TInv, TypeOK
<1>4. printed[p] \in Seq(Seq(Chunks)) /\ buf[p] \in Seq(Chunks)
  BY DEF TInv, TypeOK
<1> QED BY <1>1, <1>3, <1>4

\* A decode during which no program had the file open for writing prints the whole of
\* what the file holds (ftell's size and fread's bytes belong together).
THEOREM PrintsTheStoredMessage == Spec => PrintsWhatIsStored
<1>1. TInv /\ ReadInv /\ [Next]_vars
      => [\A p \in Procs :
            printed'[p] # printed[p] /\ p \notin dirty
            => printed'[p][Len(printed'[p])] = data[RStep(p).path]]_vars
  BY StepPrints
<1> QED BY <1>1, InitTInv, StepTInv, InitReadInv, StepReadInv, PTL
        DEF Spec, PrintsWhatIsStored

-----------------------------------------------------------------------------
LEMMA MessageTypes ==
  ASSUME NEW p \in Procs, NEW i \in 1..Len(Writes[p])
  PROVE  /\ Writes[p][i] \in Steps /\ FileAt(p, i) \in Paths
         /\ GenAt(p, i) \in Gens /\ GenAt(p, i) # NoGen
<1>1. Writes[p][i] \in Steps
  BY StepsAssumption, ElementOfSeq
<1> QED BY <1>1, BeforeAssumption DEF Steps, FileAt, GenAt, Gens

\* The program that writes message i of p to its file is p, at that message.
LEMMA OneTurn ==
  ASSUME TInv, NEW p \in Procs, NEW i \in 1..Len(Writes[p]), NEW q \in Procs,
         pc[q] \in {"wopen"} \cup WriteSteps,
         WStep(q).path = FileAt(p, i), Gen(q) = GenAt(p, i)
  PROVE  q = p /\ i = wrote[p] + 1
<1>1. q = p
  BY DEF Gen, GenAt
<1>2. wrote[p] \in Nat /\ Len(Writes[p]) \in Nat /\ wrote[p] + 1 \in 1..Len(Writes[p])
  BY <1>1, StepsAssumption DEF TInv, TypeOK, IndexOK
<1>3. Writes[p][i] \in Steps /\ Writes[p][wrote[p] + 1] \in Steps
  BY <1>2, MessageTypes
<1>4. /\ Writes[p][i].path = Writes[p][wrote[p] + 1].path
      /\ Writes[p][i].kind = Writes[p][wrote[p] + 1].kind
  BY <1>1 DEF Gen, GenAt, FileAt, WStep
<1>5. Writes[p][i] = Writes[p][wrote[p] + 1]
  BY <1>3, <1>4 DEF Steps
<1> QED BY <1>1, <1>2, <1>5, WritesAssumption

\* Only p itself, at that message, holds open for writing a file that p holds.
LEMMA HeldWriter ==
  ASSUME TInv, WInv, NEW p \in Procs, NEW i \in 1..Len(Writes[p]), Holds(p, i),
         NEW q \in WritersOf(FileAt(p, i))
  PROVE  q = p /\ i = wrote[p] + 1 /\ pc[p] \in WriteSteps
<1>1. q \in Procs /\ pc[q] \in WriteSteps /\ WStep(q).path = FileAt(p, i)
  BY DEF WritersOf
<1>2. Gen(q) = GenAt(p, i)
  BY MessageTypes DEF Holds, WInv, LoneWriter
<1> QED BY <1>1, <1>2, OneTurn

LEMMA WroteMoves ==
  ASSUME NEW p \in Procs, Program(p) \/ Kill(p), TInv, wrote'[p] # wrote[p]
  PROVE  Fclose(p) /\ wrote'[p] = wrote[p] + 1 /\ UNCHANGED <<data, lastw, mixed>>
<1>1. Fclose(p)
  BY DEF Program, EnsureDirectory, OpenForWrite, OpenForWriteFails, Encode, Fwrite,
         FlushAtClose, OpenForRead, OpenForReadFails, MeasureFile, ReadBlock,
         ReadFails, ReadDone, Decode, Kill
<1> QED BY <1>1 DEF Fclose, fileVars, histVars, TInv, TypeOK

\* When no write fails, fclose leaves the whole message in a file nobody else writes.
LEMMA ClosesWhole ==
  ASSUME TInv, WInv, "write" \notin Faults, NEW p \in Procs, Fclose(p),
         WStep(p).path \notin mixed
  PROVE  data[WStep(p).path] = Payload(Gen(p))
<1>1. pc[p] \in WriteSteps /\ off[p] = Size[Gen(p)]
  BY DEF Fclose, WriteSteps
<1>2. WStep(p).path \in Paths /\ Gen(p) \in Gens
  BY <1>1, StepTypes
<1> PICK f \in Paths : f = WStep(p).path
  BY <1>2
<1>3. lastw[f] = Gen(p) /\ Len(data[f]) = Size[Gen(p)]
  BY <1>1 DEF WInv, LoneWriter, WritersOf
<1>4. IsPartOf(data[f], Gen(p))
  BY <1>2, <1>3, BeforeAssumption DEF WInv, UnmixedIsPrefix
<1>5. data[f] \in Seq(Chunks) /\ Payload(Gen(p)) \in Seq(Chunks)
      /\ Len(Payload(Gen(p))) = Size[Gen(p)] /\ IsPartOf(Payload(Gen(p)), Gen(p))
  BY <1>2, PayloadType DEF TInv, TypeOK
<1>6. \A i \in 1..Len(data[f]) : data[f][i] = Payload(Gen(p))[i]
  BY <1>3, <1>4, <1>5 DEF IsPartOf
<1> QED BY <1>3, <1>5, <1>6, SameChunks

\* A program never writes more messages than its set has.
WroteBound == \A p \in Procs : wrote[p] <= Len(Writes[p])

LEMMA InitWroteBound == Init => WroteBound
  BY StepsAssumption DEF Init, WroteBound

LEMMA StepWroteBound == TInv /\ WroteBound /\ [Next]_vars => WroteBound'
<1> SUFFICES ASSUME TInv, WroteBound, [Next]_vars, NEW q \in Procs
             PROVE  wrote'[q] <= Len(Writes[q])
  BY DEF WroteBound
<1>1. ASSUME NEW p \in Procs, Program(p) \/ Kill(p) PROVE wrote'[q] <= Len(Writes[q])
  <2>1. CASE wrote'[q] = wrote[q]
    BY <2>1 DEF WroteBound
  <2>2. CASE wrote'[q] # wrote[q]
    <3>1. q = p
      BY <1>1, <2>2, StepOfOne DEF OthersSame
    <3>2. wrote'[q] = wrote[q] + 1 /\ wrote[q] < Len(Writes[q])
      BY <1>1, <2>2, <3>1, WroteMoves DEF Fclose, TInv, IndexOK, WriteSteps
    <3> QED BY <3>2, StepsAssumption DEF TInv, TypeOK
  <2> QED BY <2>1, <2>2
<1>2. CASE UNCHANGED vars
  BY <1>2 DEF vars, WroteBound
<1> QED BY <1>1, <1>2 DEF Next, Finished

\* p's i-th message is in its file.
StoredAt(p, i) == data[FileAt(p, i)] = Payload(GenAt(p, i))

\* How a file that q holds got where it is when p moves.
LEMMA HeldStep ==
  ASSUME TInv, NEW p \in Procs, Program(p) \/ Kill(p),
         NEW q \in Procs, NEW i \in 1..Len(Writes[q]), Holds(q, i)'
  PROVE  LET f == FileAt(q, i) IN
         \/ /\ OpenForWrite(p) /\ p = q /\ i = wrote[p] + 1
            /\ p \in WritersOf(f)' /\ WStep(p).path = f
         \/ /\ OpenForWrite(p) /\ WStep(p).path # f /\ Holds(q, i)
            /\ data'[f] = data[f] /\ WritersOf(f)' = WritersOf(f) /\ wrote' = wrote
         \/ /\ PutStep(p) /\ WStep(p).path = f /\ Holds(q, i) /\ p \in WritersOf(f)'
            /\ WritersOf(f)' = WritersOf(f) /\ wrote' = wrote
         \/ /\ PutStep(p) /\ WStep(p).path # f /\ Holds(q, i)
            /\ data'[f] = data[f] /\ WritersOf(f)' = WritersOf(f) /\ wrote' = wrote
         \/ QuietStep(p) /\ Holds(q, i) /\ data' = data /\ WritersOf(f)' \subseteq WritersOf(f)
<1> PICK f \in Paths : f = FileAt(q, i)
  BY MessageTypes
<1>0. FileAt(q, i)' = f /\ GenAt(q, i)' = GenAt(q, i) /\ Holds(q, i)' = (lastw'[f] = GenAt(q, i) /\ f \notin mixed')
  BY DEF FileAt, GenAt, Holds
<1>1. CASE OpenForWrite(p) /\ WStep(p).path = f
  <2>1. lastw'[f] = Gen(p) /\ pc[p] = "wopen"
    BY <1>1 DEF OpenForWrite, TInv, TypeOK
  <2>2. q = p /\ i = wrote[q] + 1
    BY <1>0, <1>1, <2>1, OneTurn
  <2>3. p \in WritersOf(f)'
    BY <1>1, StepUnmoved DEF OpenForWrite, WritersOf, WriteSteps, TInv, TypeOK
  <2> QED BY <1>1, <2>2, <2>3
<1>2. CASE OpenForWrite(p) /\ WStep(p).path # f
  <2>1. lastw'[f] = lastw[f] /\ (f \in mixed' <=> f \in mixed) /\ data'[f] = data[f] /\ wrote' = wrote
    BY <1>2 DEF OpenForWrite, TInv, TypeOK
  <2>2. p \notin WritersOf(f)' /\ p \notin WritersOf(f)
    BY <1>2, StepUnmoved DEF OpenForWrite, WritersOf, WriteSteps
  <2>3. WritersOf(f)' \ {p} = WritersOf(f) \ {p}
    BY WritersAfter
  <2>4. WritersOf(f)' = WritersOf(f)
    BY <2>2, <2>3
  <2> QED BY <1>0, <1>2, <2>1, <2>4 DEF Holds
<1>3. CASE PutStep(p)
  <2>1. Holds(q, i) /\ wrote' = wrote /\ WritersOf(f)' = WritersOf(f)
    BY <1>0, <1>3, WritersAfter DEF PutStep, histVars, Holds
  <2>2. WStep(p).path # f => data'[f] = data[f]
    BY <1>3 DEF PutStep, PutChunk, TInv, TypeOK
  <2>3. WStep(p).path = f => p \in WritersOf(f)
    BY <1>3 DEF PutStep, WritersOf
  <2> QED BY <1>3, <2>1, <2>2, <2>3
<1>4. CASE QuietStep(p)
  BY <1>0, <1>4, WritersAfter DEF QuietStep, Holds
<1> QED BY <1>1, <1>2, <1>3, <1>4, StepKinds

LEMMA InitWroteStored == Init => WroteMeansStored
  BY DEF Init, WroteMeansStored

LEMMA StepWroteStored ==
  ASSUME "write" \notin Faults
  PROVE  TInv /\ WInv /\ WroteBound /\ WroteMeansStored /\ [Next]_vars => WroteMeansStored'
<1> SUFFICES ASSUME TInv, WInv, WroteBound, WroteMeansStored, [Next]_vars,
                    NEW q \in Procs, NEW i \in 1..wrote'[q],
                    Holds(q, i)', WritersOf(FileAt(q, i))' = {}
             PROVE  StoredAt(q, i)'
  BY DEF WroteMeansStored, FileAt, GenAt, StoredAt
<1>0. i \in 1..Len(Writes[q])
  <2>1. WroteBound' /\ wrote[q] \in Nat /\ TInv'
    BY StepWroteBound, StepTInv DEF TInv, TypeOK
  <2> QED BY <2>1, StepsAssumption DEF WroteBound, TInv, TypeOK
<1> PICK f \in Paths : f = FileAt(q, i)
  BY <1>0, MessageTypes
<1>1. ASSUME NEW p \in Procs, Program(p) \/ Kill(p) PROVE StoredAt(q, i)'
  <2>1. CASE wrote'[q] = wrote[q] /\ WritersOf(f) = {} /\ Holds(q, i) /\ data'[f] = data[f]
    BY <2>1 DEF WroteMeansStored, StoredAt, FileAt, GenAt
  <2>2. CASE QuietStep(p) /\ Holds(q, i) /\ data' = data
    <3>1. ASSUME NEW r \in WritersOf(f) PROVE StoredAt(q, i)'
      <4>1. r = q /\ i = wrote[q] + 1
        BY <1>0, <2>2, <3>1, HeldWriter
      <4>2. wrote'[q] # wrote[q]
        BY <4>1 DEF TInv, TypeOK
      <4>3. p = q /\ Fclose(p)
        BY <1>1, <4>2, StepOfOne, WroteMoves DEF OthersSame
      <4>4. WStep(p).path = f /\ Gen(p) = GenAt(q, i)
        BY <4>1, <4>3 DEF FileAt, GenAt, WStep, Gen
      <4>5. data[f] = Payload(Gen(p))
        BY <2>2, <4>3, <4>4, ClosesWhole DEF Holds
      <4> QED BY <2>2, <4>4, <4>5 DEF StoredAt, FileAt, GenAt
    <3>2. CASE WritersOf(f) = {}
      <4>1. CASE wrote'[q] = wrote[q]
        BY <2>1, <2>2, <3>2, <4>1
      <4>2. CASE wrote'[q] # wrote[q]
        <5>1. p = q /\ Fclose(p) /\ wrote'[q] = wrote[q] + 1
          BY <1>1, <4>2, StepOfOne, WroteMoves DEF OthersSame
        <5>2. p \in WritersOf(WStep(p).path)
          BY <5>1 DEF Fclose, WritersOf, WriteSteps
        <5>3. i # wrote[q] + 1
          BY <3>2, <5>1, <5>2 DEF WStep, FileAt
        <5>4. i \in 1..wrote[q]
          BY <5>1, <5>3 DEF TInv, TypeOK
        <5>5. StoredAt(q, i)
          BY <2>2, <3>2, <5>4 DEF WroteMeansStored, StoredAt
        <5> QED BY <2>2, <5>5 DEF StoredAt, FileAt, GenAt
      <4> QED BY <4>1, <4>2
    <3> QED BY <3>1, <3>2
  <2> QED BY <1>0, <1>1, <2>1, <2>2, HeldStep DEF Holds
<1>2. CASE UNCHANGED vars
  BY <1>2, StepUnmoved DEF vars, WroteMeansStored, WritersOf, StoredAt, Holds, FileAt, GenAt
<1> QED BY <1>1, <1>2 DEF Next, Finished

\* What a set of programs keeps of its files while no write to a file fails.
KeptInv == TInv /\ WInv /\ WroteBound /\ WroteMeansStored

LEMMA InitKept == Init => KeptInv
  BY InitTInv, InitWInv, InitWroteBound, InitWroteStored DEF KeptInv

LEMMA StepKept ==
  ASSUME "write" \notin Faults
  PROVE  KeptInv /\ [Next]_vars => KeptInv'
  BY StepTInv, StepWInv, StepWroteBound, StepWroteStored DEF KeptInv

\* As long as the file system takes what is written, "wrote <path>" means the file holds
\* the message: nothing but another open for writing takes it away
\* (geisa_write_message_file's result).
THEOREM WroteIsStored ==
  ASSUME "write" \notin Faults
  PROVE  Spec => []WroteMeansStored
<1>1. KeptInv => WroteMeansStored
  BY DEF KeptInv
<1> QED BY <1>1, InitKept, StepKept, PTL DEF Spec
-----------------------------------------------------------------------------
\* No file holds, before p starts, the message p will write to it.
NewSet(p) == \A i \in 1..Len(Writes[p]) : Before[FileAt(p, i)] # GenAt(p, i)

\* A file that got its new message got it in its turn.
InTurn ==
  \A p \in Procs : NewSet(p) =>
    \A j \in 1..Len(Writes[p]) : lastw[FileAt(p, j)] = GenAt(p, j) => j <= wrote[p] + 1

LEMMA InitInTurn == Init => InTurn
  BY DEF Init, InTurn, NewSet

LEMMA StepInTurn == TInv /\ InTurn /\ [Next]_vars => InTurn'
<1> SUFFICES ASSUME TInv, InTurn, [Next]_vars, NEW q \in Procs, NewSet(q),
                    NEW j \in 1..Len(Writes[q]), lastw'[FileAt(q, j)] = GenAt(q, j)
             PROVE  j <= wrote'[q] + 1
  BY DEF InTurn, NewSet, FileAt, GenAt
<1>0. wrote[q] \in Nat /\ j \in Nat /\ FileAt(q, j) \in Paths
  BY MessageTypes, StepsAssumption DEF TInv, TypeOK
<1> PICK f \in Paths : f = FileAt(q, j)
  BY <1>0
<1>1. ASSUME NEW p \in Procs, Program(p) \/ Kill(p) PROVE j <= wrote'[q] + 1
  <2>1. wrote'[q] = wrote[q] \/ wrote'[q] = wrote[q] + 1
    BY <1>1, StepOfOne, WroteMoves DEF OthersSame
  <2>2. CASE OpenForWrite(p) /\ WStep(p).path = f
    <3>1. pc[p] = "wopen" /\ Gen(p) = GenAt(q, j) /\ wrote' = wrote
      BY <2>2 DEF OpenForWrite, TInv, TypeOK
    <3>2. j = wrote[q] + 1
      BY <2>2, <3>1, OneTurn
    <3> QED BY <1>0, <3>1, <3>2
  <2>3. CASE lastw'[f] = lastw[f]
    <3>1. j <= wrote[q] + 1
      BY <2>3 DEF InTurn
    <3> QED BY <1>0, <2>1, <3>1
  <2> QED BY <1>1, <2>2, <2>3, StepKinds
          DEF OpenForWrite, PutStep, QuietStep, histVars, TInv, TypeOK
<1>2. CASE UNCHANGED vars
  BY <1>2 DEF vars, InTurn
<1> QED BY <1>1, <1>2 DEF Next, Finished

LEMMA SetIsPrefix ==
  KeptInv /\ InTurn /\ (\A p \in Procs : NewSet(p)) => CrashLeavesPrefixOfSet
<1> SUFFICES ASSUME KeptInv, InTurn, NEW p \in Procs, NewSet(p),
                    NEW j \in 1..Len(Writes[p]), NEW i \in 1..(j - 1),
                    Holds(p, j), Holds(p, i)
             PROVE  StoredAt(p, i)
  BY DEF CrashLeavesPrefixOfSet, StoredAt
<1>1. wrote[p] \in Nat /\ Len(Writes[p]) \in Nat
  BY StepsAssumption DEF KeptInv, TInv, TypeOK
<1>2. j <= wrote[p] + 1
  BY DEF InTurn, Holds
<1>3. i \in 1..Len(Writes[p]) /\ i \in 1..wrote[p] /\ i # wrote[p] + 1
  BY <1>1, <1>2
<1>4. WritersOf(FileAt(p, i)) = {}
  BY <1>3, HeldWriter DEF KeptInv
<1> QED BY <1>3, <1>4 DEF KeptInv, WroteMeansStored, StoredAt

\* Wherever a failure or a kill stops a writer of a set, the files that have their new
\* message are a beginning of the set: none of them follows one cut short (the writers'
\* chains of geisa_write_message_file, each returning at the first false).
THEOREM SetsAreWrittenInOrder ==
  ASSUME "write" \notin Faults, \A p \in Procs : NewSet(p)
  PROVE  Spec => []CrashLeavesPrefixOfSet
<1>1. KeptInv /\ InTurn => CrashLeavesPrefixOfSet
  BY SetIsPrefix
<1>2. KeptInv /\ InTurn /\ [Next]_vars => (KeptInv /\ InTurn)'
  BY StepKept, StepInTurn DEF KeptInv
<1> QED BY <1>1, <1>2, InitKept, InitInTurn, PTL DEF Spec

-----------------------------------------------------------------------------
\* A program reads after it has written all, and succeeds after it has read all.
Phases ==
  \A p \in Procs :
    /\ pc[p] \in {"mkdir", "wopen"} \cup WriteSteps => printed[p] = <<>>
    /\ pc[p] \in {"ropen"} \cup ReadSteps => Len(Writes[p]) <= wrote[p]
    /\ exit[p] = "success" => Len(Writes[p]) <= wrote[p] /\ Len(Reads[p]) <= Len(printed[p])

LEMMA Continued ==
  ASSUME PcTypes, NEW p \in Procs, NEW w \in Nat, NEW r \in Nat, Continue(p, w, r)
  PROVE  /\ pc'[p] \in {"wopen", "ropen", "done"}
         /\ pc'[p] = "wopen" => w < Len(Writes[p])
         /\ pc'[p] = "ropen" => Len(Writes[p]) <= w
         /\ exit'[p] = "success" /\ exit[p] # "success" => Len(Writes[p]) <= w /\ Len(Reads[p]) <= r
<1>1. pc'[p] = NextPc(p, w, r) /\ (exit'[p] = exit[p] \/ pc'[p] = "done")
  BY DEF Continue, PcTypes
<1>2. Len(Writes[p]) \in Nat /\ Len(Reads[p]) \in Nat
  BY StepsAssumption
<1> QED BY <1>1, <1>2 DEF NextPc

LEMMA InitPhases == Init => Phases
<1> SUFFICES ASSUME Init, NEW p \in Procs
             PROVE  /\ pc[p] \in {"ropen"} \cup ReadSteps => Len(Writes[p]) <= wrote[p]
                    /\ exit[p] = "success" =>
                         Len(Writes[p]) <= wrote[p] /\ Len(Reads[p]) <= Len(printed[p])
  BY DEF Phases, Init
<1>1. Len(Writes[p]) \in Nat /\ Len(Reads[p]) \in Nat
  BY StepsAssumption
<1> QED BY <1>1, NextPcRange DEF Init, FirstPc, NextPc, ReadSteps

LEMMA OnePhase ==
  ASSUME TInv, Phases, NEW p \in Procs, Program(p) \/ Kill(p)
  PROVE  /\ pc'[p] \in {"mkdir", "wopen"} \cup WriteSteps => printed'[p] = <<>>
         /\ pc'[p] \in {"ropen"} \cup ReadSteps => Len(Writes[p]) <= wrote'[p]
         /\ exit'[p] = "success" =>
              Len(Writes[p]) <= wrote'[p] /\ Len(Reads[p]) <= Len(printed'[p])
<1> USE DEF WriteSteps, ReadSteps, fileVars, histVars, Phases
<1>0. /\ PcTypes /\ wrote[p] \in Nat /\ Len(printed[p]) \in Nat
      /\ wrote[p] + 1 \in Nat /\ Len(printed[p]) + 1 \in Nat
      /\ Len(Writes[p]) \in Nat /\ Len(Reads[p]) \in Nat
  BY StepsAssumption DEF TInv, TypeOK, PcTypes
<1>1. \A st \in {"failure", "killed"} : Exit(p, st) => pc'[p] = "done" /\ exit'[p] = st
  BY <1>0 DEF Exit, PcTypes
<1>2. CASE EnsureDirectory(p)
  BY <1>0, <1>1, <1>2, Continued DEF EnsureDirectory
<1>3. CASE OpenForWriteFails(p) \/ OpenForReadFails(p) \/ Kill(p)
  BY <1>1, <1>3 DEF OpenForWriteFails, OpenForReadFails, Kill
<1>4. CASE OpenForWrite(p) \/ Encode(p) \/ Fwrite(p) \/ FlushAtClose(p)
  BY <1>0, <1>1, <1>4 DEF OpenForWrite, Encode, Fwrite, FlushAtClose, PcTypes
<1>5. CASE Fclose(p)
  <2>1. /\ pc[p] = "fclose" /\ wrote'[p] = wrote[p] + 1 /\ printed' = printed
        /\ Continue(p, wrote[p] + 1, Len(printed[p]))
    BY <1>5 DEF Fclose, TInv, TypeOK
  <2> QED BY <1>0, <2>1, Continued
<1>6. CASE OpenForRead(p) \/ MeasureFile(p) \/ ReadBlock(p) \/ ReadDone(p)
  BY <1>0, <1>1, <1>6 DEF OpenForRead, MeasureFile, ReadBlock, ReadDone, ReadFails, PcTypes
<1>7. CASE Decode(p)
  <2>1. CASE ReadFails(p)
    BY <1>1, <1>7, <2>1 DEF Decode, ReadFails
  <2>2. CASE printed' = [printed EXCEPT ![p] = Append(@, buf[p])]
             /\ Continue(p, wrote[p], Len(printed[p]) + 1)
    <3>1. pc[p] = "decode" /\ wrote'[p] = wrote[p] /\ Len(printed'[p]) = Len(printed[p]) + 1
      BY <1>7, <2>2 DEF Decode, TInv, TypeOK
    <3> QED BY <1>0, <2>2, <3>1, Continued
  <2> QED BY <1>7, <2>1, <2>2 DEF Decode
<1> QED BY <1>2, <1>3, <1>4, <1>5, <1>6, <1>7 DEF Program

LEMMA StepPhases == TInv /\ Phases /\ [Next]_vars => Phases'
<1> SUFFICES ASSUME TInv, Phases, [Next]_vars PROVE Phases'
  OBVIOUS
<1>1. ASSUME NEW p \in Procs, Program(p) \/ Kill(p) PROVE Phases'
  BY <1>1, OnePhase, StepOfOne DEF OthersSame, Phases
<1>2. CASE UNCHANGED vars
  BY <1>2 DEF vars, Phases
<1> QED BY <1>1, <1>2 DEF Next, Finished

\* What p printed of its own files, and that nothing disturbs the next one, while p
\* holds them.
OwnPrints ==
  \A p \in Procs : \A i \in 1..Len(Writes[p]) : Holds(p, i) =>
    /\ pc[p] \in ReadSteps /\ RStep(p).path = FileAt(p, i) => p \notin dirty
    /\ \A j \in 1..Len(printed[p]) :
         Reads[p][j].path = FileAt(p, i) => printed[p][j] = Payload(GenAt(p, i))

LEMMA InitOwnPrints == Init => OwnPrints
  BY NextPcRange DEF Init, OwnPrints, FirstPc, ReadSteps

LEMMA ReadingStep ==
  ASSUME TInv, NEW p \in Procs, Program(p) \/ Kill(p), pc'[p] \in ReadSteps
  PROVE  /\ printed' = printed
         /\ \/ pc[p] \in ReadSteps /\ dirty' = dirty
            \/ /\ pc[p] = "ropen"
               /\ dirty' = IF WritersOf(RStep(p).path) = {} THEN dirty \ {p} ELSE dirty \cup {p}
<1> USE DEF WriteSteps, ReadSteps, fileVars, histVars
<1>0. /\ PcTypes /\ wrote[p] \in Nat /\ Len(printed[p]) \in Nat
      /\ wrote[p] + 1 \in Nat /\ Len(printed[p]) + 1 \in Nat
  BY DEF TInv, TypeOK, PcTypes
<1>1. \A st \in {"failure", "killed"} : Exit(p, st) => pc'[p] = "done"
  BY <1>0 DEF Exit, PcTypes
<1>2. \A w, r \in Nat : Continue(p, w, r) => pc'[p] \notin ReadSteps
  BY <1>0, Continued
<1>3. CASE EnsureDirectory(p) \/ OpenForWriteFails(p) \/ OpenForReadFails(p) \/ Kill(p)
  BY <1>0, <1>1, <1>2, <1>3 DEF EnsureDirectory, OpenForWriteFails, OpenForReadFails, Kill
<1>4. CASE OpenForWrite(p) \/ Encode(p) \/ Fwrite(p) \/ FlushAtClose(p)
  BY <1>0, <1>1, <1>4 DEF OpenForWrite, Encode, Fwrite, FlushAtClose, PcTypes
<1>5. CASE Fclose(p) \/ Decode(p)
  BY <1>0, <1>1, <1>2, <1>5 DEF Fclose, Decode, ReadFails
<1>6. CASE OpenForRead(p) \/ MeasureFile(p) \/ ReadBlock(p) \/ ReadDone(p)
  BY <1>0, <1>1, <1>6 DEF OpenForRead, MeasureFile, ReadBlock, ReadDone, ReadFails, PcTypes
<1> QED BY <1>3, <1>4, <1>5, <1>6 DEF Program

\* p's own file is whole and undisturbed when p prints it.
LEMMA OwnDecode ==
  ASSUME KeptInv, ReadInv, Phases, NEW p \in Procs, NEW i \in 1..Len(Writes[p]), Holds(p, i),
         pc[p] = "decode", RStep(p).path = FileAt(p, i), p \notin dirty
  PROVE  buf[p] = Payload(GenAt(p, i))
<1> PICK f \in Paths : f = RStep(p).path
  BY MessageTypes
<1>1. /\ Len(buf[p]) = want[p] /\ want[p] = Len(data[f]) /\ WritersOf(f) = {}
      /\ \A k \in 1..Len(buf[p]) : buf[p][k] = data[f][k]
  BY DEF ReadInv, Reader, ReadSteps
<1>2. buf[p] = data[f]
  BY <1>1, SameChunks DEF KeptInv, TInv, TypeOK
<1>3. i \in 1..wrote[p]
  <2>1. Len(Writes[p]) <= wrote[p] /\ Len(Writes[p]) \in Nat /\ wrote[p] \in Nat
    BY StepsAssumption DEF Phases, ReadSteps, KeptInv, TInv, TypeOK
  <2> QED BY <2>1
<1>4. data[f] = Payload(GenAt(p, i))
  BY <1>1, <1>3 DEF KeptInv, WroteMeansStored
<1> QED BY <1>2, <1>4

LEMMA StepOwnPrints ==
  KeptInv /\ ReadInv /\ Phases /\ OwnPrints /\ [Next]_vars => OwnPrints'
<1> SUFFICES ASSUME KeptInv, ReadInv, Phases, OwnPrints, [Next]_vars,
                    NEW q \in Procs, NEW i \in 1..Len(Writes[q]), Holds(q, i)'
             PROVE  /\ pc'[q] \in ReadSteps /\ RStep(q)'.path = FileAt(q, i) => q \notin dirty'
                    /\ \A j \in 1..Len(printed'[q]) :
                         Reads[q][j].path = FileAt(q, i) => printed'[q][j] = Payload(GenAt(q, i))
  BY DEF OwnPrints, FileAt, GenAt, Payload, ChunkOf
<1> TInv /\ WInv
  BY DEF KeptInv
<1> PICK f \in Paths : f = FileAt(q, i)
  BY MessageTypes
<1>1. ASSUME NEW p \in Procs, Program(p) \/ Kill(p), Holds(q, i)
      PROVE  \A j \in 1..Len(printed'[q]) :
               Reads[q][j].path = FileAt(q, i) => printed'[q][j] = Payload(GenAt(q, i))
  <2>1. CASE printed'[q] = printed[q]
    BY <1>1, <2>1 DEF OwnPrints
  <2>2. CASE printed'[q] # printed[q]
    <3>1. p = q
      BY <1>1, <2>2, StepOfOne DEF OthersSame
    <3>2. pc[q] = "decode" /\ printed'[q] = Append(printed[q], buf[q])
      BY <1>1, <2>2, <3>1, Prints
    <3>3. printed[q] \in Seq(Seq(Chunks)) /\ buf[q] \in Seq(Chunks)
      BY DEF TInv, TypeOK
    <3>4. RStep(q).path = f => buf[q] = Payload(GenAt(q, i))
      BY <1>1, <3>2, OwnDecode DEF OwnPrints, ReadSteps
    <3>5. ASSUME NEW j \in 1..Len(printed'[q]), Reads[q][j].path = FileAt(q, i)
          PROVE  printed'[q][j] = Payload(GenAt(q, i))
      <4>1. CASE j \in 1..Len(printed[q])
        <5>1. printed'[q][j] = printed[q][j]
          BY <3>2, <3>3, <4>1
        <5> QED BY <1>1, <3>5, <4>1, <5>1 DEF OwnPrints
      <4>2. CASE j = Len(printed[q]) + 1
        <5>1. printed'[q][j] = buf[q]
          BY <3>2, <3>3, <4>2
        <5> QED BY <3>4, <3>5, <4>2, <5>1 DEF RStep
      <4> QED BY <3>2, <3>3, <3>5, <4>1, <4>2
    <3> QED BY <3>5
  <2> QED BY <2>1, <2>2
<1>2. ASSUME NEW p \in Procs, Program(p) \/ Kill(p), Holds(q, i),
             pc'[q] \in ReadSteps, RStep(q)'.path = f,
             OpenForWrite(p) => WStep(p).path # f
      PROVE  q \notin dirty'
  <2>1. CASE p = q
    <3>1. printed' = printed /\ RStep(q)' = RStep(q)
      BY <1>2, <2>1, ReadingStep, StepUnmoved
    <3>2. CASE pc[q] \in ReadSteps /\ dirty' = dirty
      BY <1>2, <3>1, <3>2 DEF OwnPrints
    <3>3. CASE pc[q] = "ropen" /\ dirty' = IF WritersOf(f) = {} THEN dirty \ {q} ELSE dirty \cup {q}
      <4>1. WritersOf(f) = {}
        BY <1>2, <3>3, HeldWriter DEF WriteSteps
      <4> QED BY <3>3, <4>1
    <3> QED BY <1>2, <2>1, <3>1, <3>2, <3>3, ReadingStep
  <2>2. CASE p # q
    <3>1. pc'[q] = pc[q] /\ RStep(q)' = RStep(q)
      BY <1>2, <2>2, StepOfOne, StepUnmoved DEF OthersSame
    <3>2. q \notin dirty
      BY <1>2, <3>1 DEF OwnPrints
    <3>3. OpenForWrite(p) => q \notin dirty'
      BY <1>2, <3>1, <3>2 DEF OpenForWrite, ReadersOf
    <3> QED BY <1>2, <2>2, <3>2, <3>3, StepKinds DEF PutStep, QuietStep, histVars
  <2> QED BY <2>1, <2>2
<1>3. ASSUME NEW p \in Procs, OpenForWrite(p), p = q
      PROVE  pc'[q] \notin ReadSteps /\ printed'[q] = <<>>
  BY <1>3 DEF OpenForWrite, Phases, ReadSteps, TInv, TypeOK
<1>4. ASSUME NEW p \in Procs, Program(p) \/ Kill(p)
      PROVE  (OpenForWrite(p) /\ p = q) \/ (Holds(q, i) /\ (OpenForWrite(p) => WStep(p).path # f))
  <2>1. OpenForWrite(p) => pc[p] = "wopen" /\ pc'[p] = "encode"
    BY DEF OpenForWrite, TInv, TypeOK
  <2>2. OpenForWrite(p) => ~PutStep(p) /\ ~QuietStep(p)
    BY <2>1 DEF PutStep, QuietStep, WriteSteps
  <2> QED BY <1>4, <2>2, HeldStep
<1>5. CASE UNCHANGED vars
  BY <1>5, StepUnmoved DEF vars, OwnPrints, Holds, FileAt, GenAt
<1> QED BY <1>1, <1>2, <1>3, <1>4, <1>5 DEF Next, Finished

LEMMA DemoOfOwn == TInv /\ OwnPrints /\ Phases => DemoPrintsItsOwn
<1> SUFFICES ASSUME TInv, OwnPrints, Phases, NEW p \in Procs, exit[p] = "success",
                    \A i \in 1..Len(Writes[p]) : Holds(p, i),
                    NEW j \in 1..Len(Reads[p])
             PROVE  /\ j <= Len(printed[p])
                    /\ \A i \in 1..Len(Writes[p]) :
                         FileAt(p, i) = Reads[p][j].path => printed[p][j] = Payload(GenAt(p, i))
  BY DEF DemoPrintsItsOwn
<1>1. /\ Len(Reads[p]) <= Len(printed[p])
      /\ Len(Reads[p]) \in Nat /\ Len(printed[p]) \in Nat
  BY StepsAssumption DEF Phases, TInv, TypeOK
<1>2. j \in 1..Len(printed[p])
  BY <1>1
<1> QED BY <1>2 DEF OwnPrints

\* A writer --demo that succeeds has printed every message of its set as it wrote it,
\* unless another program wrote to its files: "and then reads them back" is true of
\* every message size, set and schedule (the writers' run_demo).
THEOREM DemoShowsItsOwn ==
  ASSUME "write" \notin Faults
  PROVE  Spec => []DemoPrintsItsOwn
<1> DEFINE DemoInv == KeptInv /\ ReadInv /\ Phases /\ OwnPrints
<1>1. Init => DemoInv
  BY InitKept, InitReadInv, InitPhases, InitOwnPrints
<1>2. DemoInv /\ [Next]_vars => DemoInv'
  BY StepKept, StepReadInv, StepPhases, StepOwnPrints DEF KeptInv
<1>3. DemoInv => DemoPrintsItsOwn
  BY DemoOfOwn DEF KeptInv
<1> QED BY <1>1, <1>2, <1>3, PTL DEF Spec

-----------------------------------------------------------------------------
\* A file open for writing exists.
WrittenExist == \A f \in Paths : WritersOf(f) # {} => f \in exists

LEMMA InitWrittenExist == Init => WrittenExist
  BY NextPcRange DEF Init, WrittenExist, WritersOf, FirstPc, WriteSteps

LEMMA StepWrittenExist == TInv /\ WrittenExist /\ [Next]_vars => WrittenExist'
<1> SUFFICES ASSUME TInv, WrittenExist, [Next]_vars, NEW f \in Paths, WritersOf(f)' # {}
             PROVE  f \in exists'
  BY DEF WrittenExist
<1>1. ASSUME NEW p \in Procs, Program(p) \/ Kill(p) PROVE f \in exists'
  <2>1. CASE OpenForWrite(p) /\ WStep(p).path = f
    BY <2>1 DEF OpenForWrite
  <2>2. CASE OpenForWrite(p) /\ WStep(p).path # f
    <3>1. p \notin WritersOf(f)' /\ WritersOf(f)' \ {p} = WritersOf(f) \ {p}
      BY <1>1, <2>2, StepUnmoved, WritersAfter DEF OpenForWrite, WritersOf
    <3> QED BY <2>2, <3>1 DEF OpenForWrite, WrittenExist
  <2>3. CASE PutStep(p)
    BY <1>1, <2>3, WritersAfter DEF PutStep, PutChunk, WrittenExist
  <2>4. CASE QuietStep(p)
    <3>1. WritersOf(f)' \subseteq WritersOf(f)
      BY <1>1, <2>4, WritersAfter
    <3> QED BY <2>4, <3>1 DEF QuietStep, WrittenExist
  <2> QED BY <1>1, <2>1, <2>2, <2>3, <2>4, StepKinds
<1>2. CASE UNCHANGED vars
  BY <1>2, StepUnmoved DEF vars, WritersOf, WrittenExist
<1> QED BY <1>1, <1>2 DEF Next, Finished

\* The mapping follows the program that moves.
LEMMA BarsOfOthers ==
  ASSUME TInv, NEW p \in Procs, Program(p) \/ Kill(p)
  PROVE  /\ writingBar' = [writingBar EXCEPT ![p] = Writing(p)']
         /\ readingBar' = [readingBar EXCEPT ![p] = Reading(p)']
<1>1. \A q \in Procs \ {p} : Writing(q)' = Writing(q) /\ Reading(q)' = Reading(q)
  BY StepOfOne, StepUnmoved DEF OthersSame, Writing, Reading
<1> QED BY <1>1 DEF writingBar, readingBar

LEMMA BarValues ==
  ASSUME TInv, NEW p \in Procs
  PROVE  /\ writingBar[p] = Writing(p) /\ readingBar[p] = Reading(p)
         /\ Writing(p) # Idle <=> pc[p] \in WriteSteps
         /\ Reading(p) # Idle <=> pc[p] \in ReadSteps
  BY StepTypes, StoreAssumption DEF writingBar, readingBar, Writing, Reading

LEMMA BarSets ==
  ASSUME TInv, NEW f \in Paths
  PROVE  Store!Writers(f) = WritersOf(f) /\ Store!Readers(f) = ReadersOf(f)
  BY StoreAssumption
     DEF Store!Writers, Store!Readers, WritersOf, ReadersOf, writingBar, readingBar, Writing, Reading

\* A register changes only with its file.
LEMMA StoredKept ==
  ASSUME NEW f, f \in exists' <=> f \in exists, WritersOf(f)' = WritersOf(f),
         f \in mixed' <=> f \in mixed, data'[f] = data[f], lastw'[f] = lastw[f]
  PROVE  Stored(f)' = Stored(f)
  BY DEF Stored

LEMMA TornWhileWritten ==
  ASSUME NEW f, f \in exists, WritersOf(f) # {}
  PROVE  Stored(f) = Torn
  BY DEF Stored

\* p gives up a write or a read.
GivesUp(p, S) ==
  /\ pc[p] \in S /\ pc'[p] = "done"
  /\ UNCHANGED <<exists, data, lastw, mixed, wrote, printed, dirty>>

\* p does something else.
Stays(p) ==
  /\ UNCHANGED <<exists, data, lastw, mixed, wrote, printed, dirty>>
  /\ pc'[p] \in WriteSteps <=> pc[p] \in WriteSteps
  /\ pc'[p] \in ReadSteps <=> pc[p] \in ReadSteps

LEMMA StoreKinds ==
  ASSUME TInv, NEW p \in Procs, Program(p) \/ Kill(p)
  PROVE  \/ OpenForWrite(p) \/ PutStep(p) \/ Fclose(p) \/ GivesUp(p, WriteSteps)
         \/ OpenForRead(p) \/ (Decode(p) /\ ~ReadFails(p)) \/ GivesUp(p, ReadSteps)
         \/ Stays(p)
<1> USE DEF fileVars, histVars, WriteSteps, ReadSteps, GivesUp, Stays
<1>0. PcTypes /\ wrote[p] \in Nat /\ Len(printed[p]) \in Nat
  BY DEF TInv, TypeOK, PcTypes
<1>1. \A st \in {"failure", "killed"} : Exit(p, st) => pc'[p] = "done"
  BY <1>0 DEF Exit, PcTypes
<1>2. CASE EnsureDirectory(p)
  BY <1>0, <1>1, <1>2, ContinueTypes DEF EnsureDirectory
<1>3. CASE OpenForWriteFails(p) \/ OpenForReadFails(p)
  BY <1>1, <1>3 DEF OpenForWriteFails, OpenForReadFails
<1>4. CASE Kill(p)
  BY <1>0, <1>1, <1>4 DEF Kill, PcTypes
<1>5. CASE Encode(p)
  BY <1>0, <1>1, <1>5 DEF Encode, PcTypes
<1>6. CASE Fwrite(p)
  <2>1. Size[Gen(p)] - off[p] >= Block => off[p] < Size[Gen(p)]
    BY <1>6, StepTypes, SizeAssumption DEF Fwrite, TInv, TypeOK
  <2> QED BY <1>0, <1>1, <1>6, <2>1 DEF Fwrite, PutStep, PcTypes
<1>7. CASE FlushAtClose(p)
  BY <1>7 DEF FlushAtClose, PutStep
<1>8. CASE MeasureFile(p) \/ ReadBlock(p) \/ ReadDone(p)
  BY <1>0, <1>1, <1>8 DEF MeasureFile, ReadBlock, ReadDone, ReadFails, PcTypes
<1>9. CASE Decode(p) /\ ReadFails(p)
  BY <1>1, <1>9 DEF Decode, ReadFails
<1> QED BY <1>2, <1>3, <1>4, <1>5, <1>6, <1>7, <1>8, <1>9 DEF Program

\* The files' side of a step that leaves their bytes alone and may close one.
LEMMA QuietFiles ==
  ASSUME TInv, NEW p \in Procs, Program(p) \/ Kill(p), UNCHANGED <<exists, data, lastw, mixed>>
  PROVE  /\ \A f \in Paths : (p \in WritersOf(f)' <=> p \in WritersOf(f)) => Stored(f)' = Stored(f)
         /\ pc'[p] \notin WriteSteps =>
              storedBar' = [f \in Paths |->
                IF p \in WritersOf(f) THEN Stored(f)' ELSE Stored(f)]
<1>1. ASSUME NEW f \in Paths, p \in WritersOf(f)' <=> p \in WritersOf(f)
      PROVE  Stored(f)' = Stored(f)
  <2>1. WritersOf(f)' \ {p} = WritersOf(f) \ {p}
    BY WritersAfter
  <2>2. WritersOf(f)' = WritersOf(f)
    BY <1>1, <2>1
  <2> QED BY <2>2, StoredKept
<1>2. pc'[p] \notin WriteSteps => \A f \in Paths : p \notin WritersOf(f)'
  BY DEF WritersOf
<1> QED BY <1>1, <1>2 DEF storedBar

LEMMA StaysStutters ==
  ASSUME TInv, NEW p \in Procs, Program(p) \/ Kill(p), Stays(p)
  PROVE  UNCHANGED Store!vars
<1>1. Writing(p)' = Writing(p) /\ Reading(p)' = Reading(p)
  BY StepUnmoved DEF Stays, Writing, Reading
<1>2. writingBar' = writingBar /\ readingBar' = readingBar
  <2>1. [writingBar EXCEPT ![p] = Writing(p)] = writingBar
        /\ [readingBar EXCEPT ![p] = Reading(p)] = readingBar
    BY DEF writingBar, readingBar
  <2> QED BY <1>1, <2>1, BarsOfOthers
<1>3. \A f \in Paths : p \in WritersOf(f)' <=> p \in WritersOf(f)
  BY StepUnmoved DEF Stays, WritersOf
<1>4. \A f \in Paths : Stored(f)' = Stored(f)
  BY <1>3, QuietFiles DEF Stays
<1> QED BY <1>2, <1>4 DEF Stays, Store!vars, storedBar

LEMMA PutStutters ==
  ASSUME TInv, WrittenExist, NEW p \in Procs, Program(p) \/ Kill(p), PutStep(p)
  PROVE  UNCHANGED Store!vars
<1>1. Writing(p)' = Writing(p) /\ Reading(p)' = Reading(p)
  BY StepUnmoved DEF PutStep, Writing, Reading
<1>2. writingBar' = writingBar /\ readingBar' = readingBar
  <2>1. [writingBar EXCEPT ![p] = Writing(p)] = writingBar
        /\ [readingBar EXCEPT ![p] = Reading(p)] = readingBar
    BY DEF writingBar, readingBar
  <2> QED BY <1>1, <2>1, BarsOfOthers
<1>3. ASSUME NEW f \in Paths PROVE Stored(f)' = Stored(f)
  <2>1. WritersOf(f)' = WritersOf(f) /\ exists' = exists /\ lastw' = lastw /\ mixed' = mixed
    BY WritersAfter DEF PutStep, PutChunk, histVars
  <2>2. CASE WStep(p).path = f
    <3>1. WritersOf(f) # {} /\ f \in exists
      BY <2>2 DEF PutStep, WritersOf, WrittenExist
    <3>2. Stored(f) = Torn
      BY <3>1, TornWhileWritten
    <3>3. Stored(f)' = Torn
      BY <2>1, <3>1 DEF Stored
    <3> QED BY <3>2, <3>3
  <2>3. CASE WStep(p).path # f
    <3>1. data'[f] = data[f]
      BY <2>3 DEF PutStep, PutChunk, TInv, TypeOK
    <3> QED BY <2>1, <3>1, StoredKept
  <2> QED BY <2>2, <2>3
<1> QED BY <1>2, <1>3 DEF PutStep, histVars, Store!vars, storedBar

LEMMA BeginsWrite ==
  ASSUME TInv, NEW p \in Procs, Program(p) \/ Kill(p), OpenForWrite(p)
  PROVE  \E f \in Paths : Store!BeginWrite(p, f)
<1> PICK f \in Paths : f = WStep(p).path
  BY StepTypes DEF OpenForWrite
<1>1. /\ pc[p] = "wopen" /\ pc'[p] = "encode" /\ exists' = exists \cup {f}
      /\ mixed' = (IF WritersOf(f) = {} THEN mixed \ {f} ELSE mixed \cup {f})
      /\ dirty' = dirty \cup ReadersOf(f) /\ wrote' = wrote /\ printed' = printed
      /\ \A g \in Paths \ {f} : data'[g] = data[g] /\ lastw'[g] = lastw[g]
  BY DEF OpenForWrite, TInv, TypeOK
<1>2. Writing(p)' = f /\ Reading(p)' = Idle
  BY <1>1, StepUnmoved DEF Writing, Reading, WriteSteps, ReadSteps
<1>3. /\ writingBar[p] = Idle /\ readingBar[p] = Idle
      /\ writingBar' = [writingBar EXCEPT ![p] = f] /\ readingBar' = readingBar
  <2>1. writingBar[p] = Idle /\ readingBar[p] = Idle
    BY <1>1, BarValues DEF WriteSteps, ReadSteps
  <2>2. [readingBar EXCEPT ![p] = Idle] = readingBar
    BY <2>1 DEF readingBar
  <2> QED BY <1>2, <2>1, <2>2, BarsOfOthers
<1>4. Stored(f)' = Torn
  <2>1. p \in WritersOf(f)'
    BY <1>1, StepUnmoved DEF WritersOf, WriteSteps
  <2> QED BY <1>1, <2>1 DEF Stored
<1>5. ASSUME NEW g \in Paths \ {f} PROVE Stored(g)' = Stored(g)
  <2>1. p \notin WritersOf(g)' /\ p \notin WritersOf(g) /\ WritersOf(g)' \ {p} = WritersOf(g) \ {p}
    BY <1>1, <1>5, StepUnmoved, WritersAfter DEF WritersOf, WriteSteps
  <2>2. WritersOf(g)' = WritersOf(g)
    BY <2>1
  <2>3. /\ g \in exists' <=> g \in exists
        /\ g \in mixed' <=> g \in mixed
    BY <1>1, <1>5
  <2> QED BY <1>1, <2>2, <2>3, StoredKept
<1>6. storedBar' = [storedBar EXCEPT ![f] = Torn]
  BY <1>4, <1>5 DEF storedBar
<1>7. Store!BeginWrite(p, f)
  BY <1>1, <1>3, <1>6, BarSets DEF Store!BeginWrite
<1> QED BY <1>7

\* The registers after p has ended or given up its write to f.
LEMMA RegisterAfterWrite ==
  ASSUME TInv, WrittenExist, NEW p \in Procs, Program(p) \/ Kill(p), pc[p] \in WriteSteps,
         pc'[p] \notin WriteSteps \cup ReadSteps, UNCHANGED <<exists, data, lastw, mixed>>,
         NEW f \in Paths, f = WStep(p).path
  PROVE  /\ writingBar[p] = f /\ f # Idle
         /\ writingBar' = [writingBar EXCEPT ![p] = Idle] /\ readingBar' = readingBar
         /\ storedBar' = [storedBar EXCEPT ![f] = Stored(f)']
         /\ f \in exists
<1>1. Writing(p)' = Idle /\ Reading(p)' = Idle /\ readingBar[p] = Idle
  BY BarValues DEF Writing, Reading, WriteSteps, ReadSteps
<1>2. [readingBar EXCEPT ![p] = Idle] = readingBar
  BY <1>1 DEF readingBar
<1>3. /\ writingBar[p] = f /\ f # Idle
      /\ writingBar' = [writingBar EXCEPT ![p] = Idle] /\ readingBar' = readingBar
  BY <1>1, <1>2, BarsOfOthers, BarValues, StoreAssumption DEF Writing
<1>4. \A g \in Paths : p \in WritersOf(g) <=> g = f
  BY DEF WritersOf
<1>5. storedBar' = [storedBar EXCEPT ![f] = Stored(f)']
  BY <1>4, QuietFiles DEF storedBar
<1>6. f \in exists
  BY <1>4 DEF WrittenExist
<1> QED BY <1>3, <1>5, <1>6

LEMMA MessageOfPlan ==
  ASSUME TInv, NEW p \in Procs, pc[p] \in WriteSteps, NEW f \in Paths, f = WStep(p).path
  PROVE  Payload(Gen(p)) \in MessagesOf[p][f]
<1>1. wrote[p] + 1 \in 1..Len(Writes[p])
  BY StepsAssumption DEF TInv, TypeOK, IndexOK
<1>2. FileAt(p, wrote[p] + 1) = f /\ GenAt(p, wrote[p] + 1) = Gen(p)
  BY DEF FileAt, GenAt, WStep, Gen
<1> QED BY <1>1, <1>2 DEF MessagesOf

LEMMA EndsWrite ==
  ASSUME TInv, WInv, WrittenExist, "write" \notin Faults,
         NEW p \in Procs, Program(p) \/ Kill(p), Fclose(p)
  PROVE  Store!EndWrite(p)
<1>1. /\ pc[p] \in WriteSteps /\ UNCHANGED <<exists, data, lastw, mixed, dirty, printed>>
      /\ wrote' = [wrote EXCEPT ![p] = @ + 1]
  BY DEF Fclose, WriteSteps, fileVars, histVars
<1>2. pc'[p] \notin WriteSteps \cup ReadSteps
  <2>1. PcTypes /\ wrote[p] + 1 \in Nat /\ Len(printed[p]) \in Nat
    BY DEF TInv, TypeOK, PcTypes
  <2> QED BY <2>1, ContinueTypes DEF Fclose, WriteSteps, ReadSteps
<1> PICK f \in Paths : f = WStep(p).path
  BY <1>1, StepTypes
<1>3. /\ writingBar[p] = f /\ f # Idle
      /\ writingBar' = [writingBar EXCEPT ![p] = Idle] /\ readingBar' = readingBar
      /\ storedBar' = [storedBar EXCEPT ![f] = Stored(f)']
      /\ f \in exists
  BY <1>1, <1>2, RegisterAfterWrite
<1>4. f \in mixed => Stored(f)' = Torn
  BY <1>1, <1>3 DEF Stored
<1>5. ASSUME f \notin mixed PROVE Stored(f)' = Payload(Gen(p))
  <2>1. data[f] = Payload(Gen(p))
    BY <1>5, ClosesWhole
  <2>2. lastw[f] = Gen(p) /\ WritersOf(f) \subseteq {p}
    BY <1>1, <1>5 DEF WInv, LoneWriter, WritersOf
  <2>3. WritersOf(f)' = {}
    BY <1>2, <2>2, WritersAfter DEF WritersOf
  <2>4. Content(lastw[f]) = Payload(Gen(p))
    BY <1>1, <2>2, StepTypes, BeforeAssumption DEF Content
  <2>5. f \in exists' /\ f \notin mixed' /\ data'[f] = Content(lastw'[f])
    BY <1>1, <1>3, <1>5, <2>1, <2>4 DEF Content, Payload, ChunkOf
  <2> QED BY <1>1, <2>1, <2>3, <2>5 DEF Stored
<1>6. Stored(f)' \in IF f \in mixed THEN {Torn} ELSE MessagesOf[p][f]
  BY <1>1, <1>4, <1>5, MessageOfPlan
<1> QED BY <1>1, <1>3, <1>6 DEF Store!EndWrite

LEMMA AbortsWrite ==
  ASSUME TInv, WInv, WrittenExist,
         NEW p \in Procs, Program(p) \/ Kill(p), GivesUp(p, WriteSteps)
  PROVE  Store!AbortWrite(p)
<1>1. /\ pc[p] \in WriteSteps /\ pc'[p] \notin WriteSteps \cup ReadSteps
      /\ UNCHANGED <<exists, data, lastw, mixed, wrote, dirty, printed>>
  BY DEF GivesUp, WriteSteps, ReadSteps
<1> PICK f \in Paths : f = WStep(p).path
  BY <1>1, StepTypes
<1>2. /\ writingBar[p] = f /\ f # Idle
      /\ writingBar' = [writingBar EXCEPT ![p] = Idle] /\ readingBar' = readingBar
      /\ storedBar' = [storedBar EXCEPT ![f] = Stored(f)']
      /\ f \in exists
  BY <1>1, RegisterAfterWrite
<1>3. ASSUME Stored(f)' # Torn PROVE f \notin mixed /\ Stored(f)' = Payload(Gen(p))
  <2>1. f \notin mixed /\ Stored(f)' = Content(lastw[f])
    BY <1>1, <1>2, <1>3 DEF Stored, Content, Payload, ChunkOf
  <2>2. lastw[f] = Gen(p)
    BY <1>1, <2>1 DEF WInv, LoneWriter, WritersOf
  <2> QED BY <1>1, <2>1, <2>2, StepTypes, BeforeAssumption DEF Content
<1>4. Stored(f)' \in {Torn} \cup IF f \in mixed THEN {} ELSE MessagesOf[p][f]
  BY <1>1, <1>3, MessageOfPlan
<1> QED BY <1>1, <1>2, <1>4 DEF Store!AbortWrite

LEMMA BeginsRead ==
  ASSUME TInv, NEW p \in Procs, Program(p) \/ Kill(p), OpenForRead(p)
  PROVE  \E f \in Paths : Store!BeginRead(p, f)
<1> PICK f \in Paths : f = RStep(p).path
  BY StepTypes DEF OpenForRead
<1>1. /\ pc[p] = "ropen" /\ pc'[p] = "ftell" /\ f \in exists
      /\ UNCHANGED <<exists, data, lastw, mixed, wrote, printed>>
      /\ dirty' = IF WritersOf(f) = {} THEN dirty \ {p} ELSE dirty \cup {p}
  BY DEF OpenForRead, fileVars, TInv, TypeOK
<1>2. Reading(p)' = f /\ Writing(p)' = Idle
  BY <1>1, StepUnmoved DEF Writing, Reading, WriteSteps, ReadSteps
<1>3. /\ writingBar[p] = Idle /\ readingBar[p] = Idle
      /\ readingBar' = [readingBar EXCEPT ![p] = f] /\ writingBar' = writingBar
  <2>1. writingBar[p] = Idle /\ readingBar[p] = Idle
    BY <1>1, BarValues DEF WriteSteps, ReadSteps
  <2>2. [writingBar EXCEPT ![p] = Idle] = writingBar
    BY <2>1 DEF writingBar
  <2> QED BY <1>2, <2>1, <2>2, BarsOfOthers
<1>4. storedBar' = storedBar
  <2>1. \A g \in Paths : p \notin WritersOf(g)' /\ p \notin WritersOf(g)
    BY <1>1 DEF WritersOf, WriteSteps
  <2> QED BY <1>1, <2>1, QuietFiles DEF storedBar
<1>5. storedBar[f] # Nothing
  <2>1. lastw[f] \in Gens \cup {NoGen}
    BY DEF TInv, TypeOK
  <2> QED BY <1>1, <2>1, StoreAssumption DEF storedBar, Stored
<1>6. Store!BeginRead(p, f)
  BY <1>1, <1>3, <1>4, <1>5, BarSets DEF Store!BeginRead
<1> QED BY <1>6

\* The registers after p has ended or given up its read of f.
LEMMA RegistersAfterRead ==
  ASSUME TInv, NEW p \in Procs, Program(p) \/ Kill(p), pc[p] \in ReadSteps,
         pc'[p] \notin WriteSteps \cup ReadSteps, UNCHANGED <<exists, data, lastw, mixed>>,
         NEW f \in Paths, f = RStep(p).path
  PROVE  /\ readingBar[p] = f /\ f # Idle
         /\ readingBar' = [readingBar EXCEPT ![p] = Idle]
         /\ writingBar' = writingBar /\ storedBar' = storedBar
<1>1. Writing(p)' = Idle /\ Reading(p)' = Idle /\ writingBar[p] = Idle
  BY BarValues DEF Writing, Reading, WriteSteps, ReadSteps
<1>2. [writingBar EXCEPT ![p] = Idle] = writingBar
  BY <1>1 DEF writingBar
<1>3. /\ readingBar[p] = f /\ f # Idle
      /\ readingBar' = [readingBar EXCEPT ![p] = Idle] /\ writingBar' = writingBar
  BY <1>1, <1>2, BarsOfOthers, BarValues, StoreAssumption DEF Reading
<1>4. \A g \in Paths : p \notin WritersOf(g)' /\ p \notin WritersOf(g)
  BY DEF WritersOf, WriteSteps, ReadSteps
<1> QED BY <1>3, <1>4, QuietFiles DEF storedBar

LEMMA EndsRead ==
  ASSUME TInv, ReadInv, NEW p \in Procs, Program(p) \/ Kill(p), Decode(p), ~ReadFails(p)
  PROVE  Store!EndRead(p)
<1>1. /\ pc[p] = "decode" /\ UNCHANGED <<exists, data, lastw, mixed, wrote, dirty>>
      /\ printed' = [printed EXCEPT ![p] = Append(@, buf[p])]
      /\ Continue(p, wrote[p], Len(printed[p]) + 1)
  BY DEF Decode, fileVars, histVars
<1>2. pc'[p] \notin WriteSteps \cup ReadSteps
  <2>1. PcTypes /\ wrote[p] \in Nat /\ Len(printed[p]) + 1 \in Nat
    BY DEF TInv, TypeOK, PcTypes
  <2> QED BY <1>1, <2>1, ContinueTypes DEF WriteSteps, ReadSteps
<1> PICK f \in Paths : f = RStep(p).path
  BY <1>1, StepTypes DEF ReadSteps
<1>3. /\ readingBar[p] = f /\ f # Idle
      /\ readingBar' = [readingBar EXCEPT ![p] = Idle]
      /\ writingBar' = writingBar /\ storedBar' = storedBar
  BY <1>1, <1>2, RegistersAfterRead DEF ReadSteps
<1>4. /\ printed[p] \in Seq(Seq(Chunks)) /\ buf[p] \in Seq(Chunks)
      /\ printed'[p] = Append(printed[p], buf[p])
  BY <1>1 DEF TInv, TypeOK
<1>5. Len(printed'[p]) = Len(printed[p]) + 1 /\ printed'[p][Len(printed'[p])] = buf[p]
  BY <1>4
<1>6. ASSUME p \notin dirty, storedBar[f] # Torn PROVE buf[p] = storedBar[f]
  <2>1. /\ Len(buf[p]) = want[p] /\ want[p] = Len(data[f]) /\ f \in exists
        /\ \A i \in 1..Len(buf[p]) : buf[p][i] = data[f][i]
    BY <1>1, <1>6 DEF ReadInv, Reader, ReadSteps
  <2>2. buf[p] = data[f]
    BY <1>4, <2>1, SameChunks DEF TInv, TypeOK
  <2>3. storedBar[f] = data[f]
    BY <1>6, <2>1 DEF storedBar, Stored
  <2> QED BY <2>2, <2>3
<1> QED BY <1>1, <1>3, <1>5, <1>6 DEF Store!EndRead

LEMMA AbortsRead ==
  ASSUME TInv, NEW p \in Procs, Program(p) \/ Kill(p), GivesUp(p, ReadSteps)
  PROVE  Store!AbortRead(p)
<1>1. /\ pc[p] \in ReadSteps /\ pc'[p] \notin WriteSteps \cup ReadSteps
      /\ UNCHANGED <<exists, data, lastw, mixed, wrote, dirty, printed>>
  BY DEF GivesUp, WriteSteps, ReadSteps
<1> PICK f \in Paths : f = RStep(p).path
  BY <1>1, StepTypes
<1>2. /\ readingBar[p] = f /\ f # Idle
      /\ readingBar' = [readingBar EXCEPT ![p] = Idle]
      /\ writingBar' = writingBar /\ storedBar' = storedBar
  BY <1>1, RegistersAfterRead
<1> QED BY <1>1, <1>2 DEF Store!AbortRead

\* The invariant the mapping needs.
StoreInv == TInv /\ WInv /\ ReadInv /\ WrittenExist

LEMMA StoreInit == Init => Store!Init
<1> SUFFICES ASSUME Init PROVE Store!Init
  OBVIOUS
<1>1. \A p \in Procs : pc[p] \notin WriteSteps \cup ReadSteps
  BY NextPcRange DEF Init, FirstPc, WriteSteps, ReadSteps
<1>2. ASSUME NEW f \in Paths
      PROVE  Stored(f) = IF Before[f] = NoGen THEN Nothing ELSE Content(Before[f])
  <2>1. WritersOf(f) = {}
    BY <1>1 DEF WritersOf
  <2> QED BY <2>1 DEF Init, Stored
<1> QED BY <1>1, <1>2
        DEF Init, Store!Init, storedBar, writingBar, readingBar, Writing, Reading, InitiallyOf

LEMMA StoreNext ==
  ASSUME "write" \notin Faults
  PROVE  StoreInv /\ [Next]_vars => [Store!Next]_(Store!vars)
<1> SUFFICES ASSUME StoreInv, [Next]_vars PROVE Store!Next \/ UNCHANGED Store!vars
  OBVIOUS
<1> USE DEF StoreInv
<1>1. ASSUME NEW p \in Procs, Program(p) \/ Kill(p)
      PROVE  Store!Next \/ UNCHANGED Store!vars
  <2>1. CASE OpenForWrite(p)
    BY <1>1, <2>1, BeginsWrite DEF Store!Next
  <2>2. CASE PutStep(p)
    BY <1>1, <2>2, PutStutters
  <2>3. CASE Fclose(p)
    BY <1>1, <2>3, EndsWrite DEF Store!Next
  <2>4. CASE GivesUp(p, WriteSteps)
    BY <1>1, <2>4, AbortsWrite DEF Store!Next
  <2>5. CASE OpenForRead(p)
    BY <1>1, <2>5, BeginsRead DEF Store!Next
  <2>6. CASE Decode(p) /\ ~ReadFails(p)
    BY <1>1, <2>6, EndsRead DEF Store!Next
  <2>7. CASE GivesUp(p, ReadSteps)
    BY <1>1, <2>7, AbortsRead DEF Store!Next
  <2>8. CASE Stays(p)
    BY <1>1, <2>8, StaysStutters
  <2> QED BY <1>1, <2>1, <2>2, <2>3, <2>4, <2>5, <2>6, <2>7, <2>8, StoreKinds
<1>2. CASE UNCHANGED vars
  BY <1>2, StepUnmoved
     DEF vars, Store!vars, storedBar, writingBar, readingBar, Stored, Writing, Reading, WritersOf
<1> QED BY <1>1, <1>2 DEF Next, Finished

\* As long as the file system takes what is written, the calls of the programs, in any
\* interleaving, with any other failure and any kill, behave as the beginnings and ends
\* of whole reads and writes of registers.
THEOREM ImplementsStore ==
  ASSUME "write" \notin Faults
  PROVE  Spec => StoreSpec
<1>1. Init => StoreInv
  BY InitTInv, InitWInv, InitReadInv, InitWrittenExist DEF StoreInv
<1>2. StoreInv /\ [Next]_vars => StoreInv'
  BY StepTInv, StepWInv, StepReadInv, StepWrittenExist DEF StoreInv
<1> QED BY <1>1, <1>2, StoreInit, StoreNext, PTL DEF Spec, StoreSpec, Store!Spec
-----------------------------------------------------------------------------
\* A program goes on to its next message, to a later call for the one it is at, or
\* to the next chunk, and there are only so many of each: whatever others do to the
\* file between two of its calls, it never starts a message over.
CallOrder ==
  [mkdir |-> 1, wopen |-> 2, encode |-> 3, fwrite |-> 4, fclose |-> 5,
   ropen |-> 6, ftell |-> 7, fread |-> 8, decode |-> 9, done |-> 10]
SameMessage(p) == wrote'[p] = wrote[p] /\ printed'[p] = printed[p]
Forward(p) ==
  \/ SameMessage(p) /\ pc'[p] = pc[p] /\ off'[p] = off[p] /\ buf'[p] = buf[p]
  \/ /\ wrote'[p] = wrote[p] + 1 /\ wrote'[p] <= Len(Writes[p])
     /\ printed'[p] = printed[p]
  \/ /\ Len(printed'[p]) = Len(printed[p]) + 1 /\ Len(printed'[p]) <= Len(Reads[p])
     /\ wrote'[p] = wrote[p]
  \/ SameMessage(p) /\ CallOrder[pc'[p]] > CallOrder[pc[p]]
  \/ /\ SameMessage(p) /\ pc[p] \in {"fwrite", "fclose"} /\ pc'[p] = pc[p]
     /\ off'[p] = off[p] + 1 /\ off'[p] <= Size[Gen(p)]
  \/ /\ SameMessage(p) /\ pc[p] = "fread" /\ pc'[p] = pc[p] /\ want'[p] = want[p]
     /\ Len(buf'[p]) > Len(buf[p]) /\ Len(buf'[p]) <= want[p]
CallsGoForward == [][\A p \in Procs : Forward(p)]_vars

\* To end is to go forward.
LEMMA EndIsForward ==
  ASSUME TInv, NEW p \in Procs, pc[p] # "done", pc'[p] = "done", SameMessage(p)
  PROVE  Forward(p)
BY DEF TInv, TypeOK, WriteSteps, ReadSteps, Forward, CallOrder

LEMMA OwnStepForward ==
  ASSUME TInv, OffOK, NEW p \in Procs, Program(p) \/ Kill(p)
  PROVE  Forward(p)
<1>0. PcTypes /\ TypeOK /\ IndexOK /\ wrote[p] \in Nat /\ Len(printed[p]) \in Nat
  BY DEF TInv, TypeOK, PcTypes
<1> USE DEF fileVars, histVars
<1>1. CASE EnsureDirectory(p)
  <2>1. SameMessage(p) /\ pc[p] = "mkdir"
    BY <1>1 DEF EnsureDirectory, SameMessage
  <2>2. pc'[p] \in {"wopen", "ropen", "done"}
    BY <1>0, <1>1, ContinueTypes, ExitTypes DEF EnsureDirectory
  <2>3. QED
    BY <2>1, <2>2 DEF Forward, CallOrder
<1>2. CASE OpenForWrite(p)
  BY <1>0, <1>2 DEF OpenForWrite, TypeOK, Forward, SameMessage, CallOrder
<1>3. CASE OpenForWriteFails(p) \/ OpenForReadFails(p) \/ Kill(p)
  BY <1>0, <1>3, ExitTypes, EndIsForward DEF OpenForWriteFails, OpenForReadFails, Kill, SameMessage
<1>4. CASE Encode(p)
  <2>1. SameMessage(p) /\ pc[p] = "encode" /\ pc'[p] \in {"fwrite", "done"}
    BY <1>0, <1>4, ExitTypes DEF Encode, SameMessage, TypeOK
  <2>2. QED
    BY <2>1 DEF Forward, CallOrder
<1>5. CASE Fwrite(p)
  <2>0. SameMessage(p) /\ pc[p] = "fwrite" /\ off[p] \in Nat /\ Size[Gen(p)] \in Nat
    BY <1>0, <1>5, StepTypes, SizeAssumption DEF Fwrite, SameMessage, TypeOK, WriteSteps
  <2>1. CASE Size[Gen(p)] - off[p] >= Block /\ PutChunk(p) /\ UNCHANGED <<pc, fds, exit>>
    <3>1. off'[p] = off[p] + 1
      BY <1>0, <2>1 DEF PutChunk, TypeOK
    <3>2. off[p] + 1 <= Size[Gen(p)]
      BY <2>0, <2>1, SizeAssumption
    <3>3. QED
      BY <2>0, <2>1, <3>1, <3>2 DEF Forward
  <2>2. CASE pc' = [pc EXCEPT ![p] = "fclose"]
    <3>1. pc'[p] = "fclose"
      BY <1>0, <2>2 DEF TypeOK
    <3>2. QED
      BY <2>0, <3>1 DEF Forward, CallOrder
  <2>3. CASE Exit(p, "failure")
    BY <1>0, <2>0, <2>3, ExitTypes, EndIsForward
  <2>4. QED
    BY <1>5, <2>1, <2>2, <2>3 DEF Fwrite
<1>6. CASE FlushAtClose(p)
  <2>1. /\ SameMessage(p) /\ pc[p] = "fclose" /\ pc'[p] = pc[p]
        /\ off[p] \in Nat /\ Size[Gen(p)] \in Nat /\ off[p] < Size[Gen(p)]
    BY <1>0, <1>6, StepTypes, SizeAssumption DEF FlushAtClose, SameMessage, TypeOK, WriteSteps
  <2>2. off'[p] = off[p] + 1
    BY <1>0, <1>6 DEF FlushAtClose, PutChunk, TypeOK
  <2>3. QED
    BY <2>1, <2>2 DEF Forward
<1>7. CASE Fclose(p)
  <2>1. wrote'[p] = wrote[p] + 1 /\ printed'[p] = printed[p]
    BY <1>0, <1>7 DEF Fclose, TypeOK
  <2>2. wrote[p] < Len(Writes[p]) /\ Len(Writes[p]) \in Nat
    BY <1>0, <1>7, StepsAssumption DEF Fclose, IndexOK, WriteSteps
  <2>3. QED
    BY <1>0, <2>1, <2>2 DEF Forward
<1>8. CASE OpenForRead(p)
  BY <1>0, <1>8 DEF OpenForRead, TypeOK, Forward, SameMessage, CallOrder
<1>9. ASSUME ReadFails(p), wrote' = wrote, pc[p] # "done"
      PROVE  Forward(p)
  BY <1>0, <1>9, ExitTypes, EndIsForward DEF ReadFails, SameMessage
<1>10. CASE MeasureFile(p)
  <2>1. CASE ReadFails(p)
    BY <1>9, <1>10, <2>1 DEF MeasureFile
  <2>2. CASE pc' = [pc EXCEPT ![p] = "fread"] /\ UNCHANGED <<fds, exit, buf, printed>>
    BY <1>0, <1>10, <2>2 DEF MeasureFile, TypeOK, Forward, SameMessage, CallOrder
  <2>3. QED
    BY <1>10, <2>1, <2>2 DEF MeasureFile
<1>11. CASE ReadBlock(p)
  <2> DEFINE f == RStep(p).path
             upto == IF Len(buf[p]) + Block < want[p] THEN Len(buf[p]) + Block ELSE want[p]
  <2>1. CASE ReadFails(p)
    BY <1>9, <1>11, <2>1 DEF ReadBlock
  <2>2. CASE /\ upto <= Len(data[f])
             /\ buf' = [buf EXCEPT ![p] = ReadUpTo(@, data[f], upto)]
             /\ UNCHANGED <<pc, fds, exit, want, printed>>
    <3>1. /\ pc[p] = "fread" /\ Len(buf[p]) < want[p] /\ wrote' = wrote /\ f \in Paths
          /\ Len(buf[p]) \in Nat /\ want[p] \in Nat /\ Block \in Nat \ {0}
      BY <1>0, <1>11, StepTypes, SizeAssumption DEF ReadBlock, TypeOK, ReadSteps
    <3>2. upto \in Nat /\ Len(buf[p]) < upto /\ upto <= want[p]
      BY <3>1
    <3>3. Len(ReadUpTo(buf[p], data[f], upto)) = upto
      BY <1>0, <2>2, <3>1, <3>2, ReadUpToType DEF TypeOK
    <3>4. Len(buf'[p]) = upto
      BY <1>0, <2>2, <3>3 DEF TypeOK
    <3>. HIDE DEF upto
    <3>5. QED
      BY <2>2, <3>1, <3>2, <3>4 DEF Forward, SameMessage
  <2>3. QED
    BY <1>11, <2>1, <2>2 DEF ReadBlock
<1>12. CASE ReadDone(p)
  BY <1>0, <1>12 DEF ReadDone, TypeOK, Forward, SameMessage, CallOrder
<1>13. CASE Decode(p)
  <2>1. CASE ReadFails(p)
    BY <1>9, <1>13, <2>1 DEF Decode
  <2>2. CASE printed' = [printed EXCEPT ![p] = Append(@, buf[p])]
    <3>1. Len(printed'[p]) = Len(printed[p]) + 1
      BY <1>0, <2>2 DEF TypeOK
    <3>2. Len(printed[p]) < Len(Reads[p]) /\ Len(Reads[p]) \in Nat /\ wrote' = wrote
      BY <1>0, <1>13, StepsAssumption DEF Decode, IndexOK, ReadSteps
    <3>3. QED
      BY <1>0, <3>1, <3>2 DEF Forward
  <2>3. QED
    BY <1>13, <2>1, <2>2 DEF Decode
<1>14. QED
  BY <1>1, <1>2, <1>3, <1>4, <1>5, <1>6, <1>7, <1>8, <1>10, <1>11, <1>12, <1>13 DEF Program

\* The part of Terminates that is not fairness: every step of a program uses up one
\* of finitely many messages, calls or chunks, whatever happens to its files
\* meanwhile (write_message_file and read_message_file, which retry nothing).
THEOREM NoCallIsRepeated == Spec => CallsGoForward
<1>1. Init => TInv /\ WInv
  BY InitTInv, InitWInv
<1>2. TInv /\ WInv /\ [Next]_vars => (TInv /\ WInv)'
  BY StepTInv, StepWInv
<1>3. TInv /\ WInv /\ [Next]_vars => [\A p \in Procs : Forward(p)]_vars
  <2> SUFFICES ASSUME TInv, WInv, Next, NEW q \in Procs PROVE Forward(q) \/ UNCHANGED vars
    BY DEF vars
  <2>1. ASSUME NEW p \in Procs, Program(p) \/ Kill(p) PROVE Forward(q)
    <3>1. CASE p = q
      BY <2>1, <3>1, OwnStepForward DEF WInv
    <3>2. CASE p # q
      BY <2>1, <3>2, StepOfOne DEF OthersSame, Forward, SameMessage
    <3>3. QED
      BY <3>1, <3>2
  <2>2. QED
    BY <2>1 DEF Next, Finished
<1>4. QED
  BY <1>1, <1>2, <1>3, PTL DEF Spec, CallsGoForward
=============================================================================
