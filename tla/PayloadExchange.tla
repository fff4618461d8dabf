-------------------------- MODULE PayloadExchange --------------------------
(***************************************************************************)
(* The embedded C example programs exchange encoded GEISA messages through *)
(* files.  A program p first writes the messages Writes[p], one file each, *)
(* and then decodes the files Reads[p]:                                    *)
(*   - a writer in default or positional mode has Reads[p] = << >>;        *)
(*   - a writer --demo writes its set and then walks through it;           *)
(*   - a reader has Writes[p] = << >>.                                     *)
(* Programs run concurrently: the steps are the calls that touch the file  *)
(* system (fopen, the flushes of stdio's buffer, ftell, fread, fclose).    *)
(*                                                                         *)
(* A file is a sequence of chunks.  Chunk i of the message of kind k that  *)
(* p's binary encodes is <<p, k, i>>; a hole left by a write beyond the    *)
(* end of a truncated file reads as Hole.                                  *)
(***************************************************************************)
EXTENDS Integers, Sequences, FiniteSets

CONSTANTS
  Procs,    \* the programs
  Paths,    \* the payload files
  Kinds,    \* the message types
  Dirs,     \* the directories the files are in
  Writes,   \* Writes[p]: the messages p writes, in order, as [path, kind]
  Reads,    \* Reads[p]: the files p then decodes, in order, as [path, kind]
  OutDir,   \* OutDir[p]: the directory p creates first, or NoDir
  DirOf,    \* DirOf[f]: the directory of file f
  NoDir, NoGen,
  Size,     \* Size[g]: chunks in the encoding g = <<p, k>>
  Block,    \* chunks in stdio's buffer
  Before,   \* Before[f]: the encoding an earlier run left in f, or NoGen
  Faults    \* the calls that may fail

Gens == Procs \X Kinds
Hole == <<>>
Chunks == (Procs \X Kinds \X Nat) \cup {Hole}
Steps == [path: Paths, kind: Kinds]

ASSUME StepsAssumption ==
  Writes \in [Procs -> Seq(Steps)] /\ Reads \in [Procs -> Seq(Steps)]
\* No program writes the same message to the same file twice.
ASSUME WritesAssumption ==
  \A p \in Procs : \A i, j \in 1..Len(Writes[p]) : Writes[p][i] = Writes[p][j] => i = j
ASSUME DirAssumption ==
  /\ OutDir \in [Procs -> Dirs \cup {NoDir}] /\ DirOf \in [Paths -> Dirs]
  /\ NoDir \notin Dirs
ASSUME SizeAssumption == Size \in [Gens -> Nat] /\ Block \in Nat \ {0}
ASSUME BeforeAssumption == NoGen \notin Gens /\ Before \in [Paths -> Gens \cup {NoGen}]
ASSUME FaultsAssumption ==
  Faults \subseteq {"mkdir", "open", "encode", "write", "seek", "read", "kill"}

VARIABLES
  node,     \* node[d]: what is at directory d's path
  exists,   \* the files that exist
  data,     \* data[f]: the chunks of f (none when f does not exist)
  pc,       \* pc[p]: the call p makes next
  fds,      \* fds[p]: the files p holds open
  wrote,    \* wrote[p]: the messages write_message_file returned true for
  off,      \* off[p]: the chunks of the current message in the file
  want,     \* want[p]: the file size ftell returned
  buf,      \* buf[p]: the chunks fread has returned
  printed,  \* printed[p]: the payloads p decoded and printed
  exit,     \* exit[p]: how p ended
  lastw,    \* history: the encoding the last fopen "wb" of f was made for
  mixed,    \* history: files two writers held open since their last lone open
  dirty     \* history: readers whose file was open for writing meanwhile

progVars == <<pc, fds, wrote, off, want, buf, printed, exit>>
fileVars == <<node, exists, data>>
histVars == <<lastw, mixed, dirty>>
vars == <<node, exists, data, pc, fds, wrote, off, want, buf, printed, exit,
          lastw, mixed, dirty>>

WriteSteps == {"encode", "fwrite", "fclose"}
ReadSteps == {"ftell", "fread", "decode"}

\* The message p is writing and the file it is decoding.
WStep(p) == Writes[p][wrote[p] + 1]
RStep(p) == Reads[p][Len(printed[p]) + 1]
Gen(p) == <<p, WStep(p).kind>>
ChunkOf(g, i) == <<g[1], g[2], i>>
Payload(g) == [i \in 1..Size[g] |-> ChunkOf(g, i)]
Content(g) == IF g = NoGen THEN <<>> ELSE Payload(g)

WritersOf(f) == {p \in Procs : pc[p] \in WriteSteps /\ WStep(p).path = f}
ReadersOf(f) == {p \in Procs : pc[p] \in ReadSteps /\ RStep(p).path = f}

\* Mutant of NextPc: the walkthrough stops one file early.
NextPcSkipsLast(p, w, r) ==
  IF w < Len(Writes[p]) THEN "wopen"
  ELSE IF r < Len(Reads[p]) - 1 THEN "ropen" ELSE "done"

\* Where p goes after it has written w messages and printed r of them.
NextPc(p, w, r) ==
  IF w < Len(Writes[p]) THEN "wopen"
  ELSE IF r < Len(Reads[p]) THEN "ropen" ELSE "done"

TypeOK ==
  /\ node \in [Dirs -> {"absent", "directory", "file"}]
  /\ exists \in SUBSET Paths
  /\ data \in [Paths -> Seq(Chunks)]
  /\ pc \in [Procs -> {"mkdir", "wopen", "ropen", "done"} \cup WriteSteps \cup ReadSteps]
  /\ fds \in [Procs -> SUBSET Paths]
  /\ wrote \in [Procs -> Nat]
  /\ off \in [Procs -> Nat]
  /\ want \in [Procs -> Nat]
  /\ buf \in [Procs -> Seq(Chunks)]
  /\ printed \in [Procs -> Seq(Seq(Chunks))]
  /\ exit \in [Procs -> {"running", "success", "failure", "killed"}]
  /\ lastw \in [Paths -> Gens \cup {NoGen}]
  /\ mixed \in SUBSET Paths
  /\ dirty \in SUBSET Procs

FirstPc(p) == IF OutDir[p] # NoDir THEN "mkdir" ELSE NextPc(p, 0, 0)

\* Earlier runs left their encodings behind; no program has started.
Init ==
  /\ node \in [Dirs -> {"absent", "directory", "file"}]
  /\ \A f \in Paths : Before[f] # NoGen => node[DirOf[f]] = "directory"
  /\ exists = {f \in Paths : Before[f] # NoGen}
  /\ data = [f \in Paths |-> Content(Before[f])]
  /\ pc = [p \in Procs |-> FirstPc(p)]
  /\ fds = [p \in Procs |-> {}]
  /\ wrote = [p \in Procs |-> 0]
  /\ off = [p \in Procs |-> 0]
  /\ want = [p \in Procs |-> 0]
  /\ buf = [p \in Procs |-> <<>>]
  /\ printed = [p \in Procs |-> <<>>]
  /\ exit = [p \in Procs |-> IF FirstPc(p) = "done" THEN "success" ELSE "running"]
  /\ lastw = Before
  /\ mixed = {}
  /\ dirty = {}

-----------------------------------------------------------------------------
\* main returns st; every file it holds has been closed on the way out.
Exit(p, st) ==
  /\ pc' = [pc EXCEPT ![p] = "done"]
  /\ exit' = [exit EXCEPT ![p] = st]

Close(p, f) == fds' = [fds EXCEPT ![p] = @ \ {f}]

\* p has written w messages and printed r: the next one, or success.
Continue(p, w, r) ==
  /\ pc' = [pc EXCEPT ![p] = NextPc(p, w, r)]
  /\ exit' = [exit EXCEPT ![p] = IF NextPc(p, w, r) = "done" THEN "success" ELSE @]

\* mkdir(outdir): EEXIST counts as success, whatever is there.
EnsureDirectory(p) ==
  /\ pc[p] = "mkdir"
  /\ \/ /\ node' = [node EXCEPT ![OutDir[p]] = IF @ = "absent" THEN "directory" ELSE @]
        /\ Continue(p, wrote[p], Len(printed[p]))
     \/ /\ "mkdir" \in Faults /\ node[OutDir[p]] = "absent"
        /\ Exit(p, "failure")
        /\ UNCHANGED node
  /\ UNCHANGED <<exists, data, fds, wrote, off, want, buf, printed, histVars>>

\* Mutant of OpenForWrite: the mode does not truncate ("r+b").
OpenForWriteKeepsOld(p) ==
  LET f == WStep(p).path IN
  /\ pc[p] = "wopen" /\ node[DirOf[f]] = "directory"
  /\ exists' = exists \cup {f}
  /\ fds' = [fds EXCEPT ![p] = @ \cup {f}]
  /\ off' = [off EXCEPT ![p] = 0]
  /\ pc' = [pc EXCEPT ![p] = "encode"]
  /\ lastw' = [lastw EXCEPT ![f] = Gen(p)]
  /\ mixed' = IF WritersOf(f) = {} THEN mixed \ {f} ELSE mixed \cup {f}
  /\ dirty' = dirty \cup ReadersOf(f)
  /\ UNCHANGED <<node, data, wrote, want, buf, printed, exit>>

\* fopen(path, "wb") creates or truncates the file before anything is encoded.
OpenForWrite(p) ==
  LET f == WStep(p).path IN
  /\ pc[p] = "wopen" /\ node[DirOf[f]] = "directory"
  /\ exists' = exists \cup {f}
  /\ data' = [data EXCEPT ![f] = <<>>]
  /\ fds' = [fds EXCEPT ![p] = @ \cup {f}]
  /\ off' = [off EXCEPT ![p] = 0]
  /\ pc' = [pc EXCEPT ![p] = "encode"]
  /\ lastw' = [lastw EXCEPT ![f] = Gen(p)]
  /\ mixed' = IF WritersOf(f) = {} THEN mixed \ {f} ELSE mixed \cup {f}
  /\ dirty' = dirty \cup ReadersOf(f)
  /\ UNCHANGED <<node, wrote, want, buf, printed, exit>>

OpenForWriteFails(p) ==
  /\ pc[p] = "wopen"
  /\ "open" \in Faults \/ node[DirOf[WStep(p).path]] # "directory"
  /\ Exit(p, "failure")
  /\ UNCHANGED <<fileVars, fds, wrote, off, want, buf, printed, histVars>>

\* Mutant of Encode: an error path returns without fclose.
EncodeLeaksFile(p) ==
  /\ pc[p] = "encode"
  /\ \/ pc' = [pc EXCEPT ![p] = "fwrite"] /\ UNCHANGED exit
     \/ "encode" \in Faults /\ Exit(p, "failure")
  /\ UNCHANGED <<fileVars, fds, wrote, off, want, buf, printed, histVars>>

\* Mutant of Encode: the caller goes on after a failed message.
EncodeFailureIgnored(p) ==
  /\ pc[p] = "encode"
  /\ \/ pc' = [pc EXCEPT ![p] = "fwrite"] /\ UNCHANGED <<fds, exit, wrote>>
     \/ /\ "encode" \in Faults /\ Close(p, WStep(p).path)
        /\ wrote' = [wrote EXCEPT ![p] = @ + 1]
        /\ Continue(p, wrote[p] + 1, Len(printed[p]))
  /\ UNCHANGED <<fileVars, off, want, buf, printed, histVars>>

\* Sizing pass, malloc and encoding: nothing reaches the file yet.
Encode(p) ==
  /\ pc[p] = "encode"
  /\ \/ pc' = [pc EXCEPT ![p] = "fwrite"] /\ UNCHANGED <<fds, exit>>
     \/ "encode" \in Faults /\ Close(p, WStep(p).path) /\ Exit(p, "failure")
  /\ UNCHANGED <<fileVars, wrote, off, want, buf, printed, histVars>>

\* Content c with chunk x at position n: bytes skipped read as holes.
PutAt(c, n, x) ==
  [i \in 1..(IF n > Len(c) THEN n ELSE Len(c)) |->
     IF i = n THEN x ELSE IF i <= Len(c) THEN c[i] ELSE Hole]

\* One chunk reaches the file at p's own offset.
PutChunk(p) ==
  LET f == WStep(p).path IN
  /\ data' = [data EXCEPT ![f] = PutAt(@, off[p] + 1, ChunkOf(Gen(p), off[p] + 1))]
  /\ off' = [off EXCEPT ![p] = @ + 1]
  /\ UNCHANGED <<node, exists>>

\* fwrite sends full blocks to the file and keeps the rest in stdio's buffer.
Fwrite(p) ==
  LET left == Size[Gen(p)] - off[p] IN
  /\ pc[p] = "fwrite"
  /\ \/ /\ left >= Block
        /\ PutChunk(p)
        /\ UNCHANGED <<pc, fds, exit>>
     \/ /\ left < Block
        /\ pc' = [pc EXCEPT ![p] = "fclose"]
        /\ UNCHANGED <<fileVars, off, fds, exit>>
     \/ /\ left >= Block /\ "write" \in Faults
        /\ Close(p, WStep(p).path) /\ Exit(p, "failure")
        /\ UNCHANGED <<fileVars, off>>
  /\ UNCHANGED <<wrote, want, buf, printed, histVars>>

\* fclose flushes the buffer.
FlushAtClose(p) ==
  /\ pc[p] = "fclose" /\ off[p] < Size[Gen(p)]
  /\ PutChunk(p)
  /\ UNCHANGED <<pc, fds, wrote, want, buf, printed, exit, histVars>>

\* Mutant of Fclose: the descriptor is closed without flushing the buffer.
FcloseDropsBuffer(p) ==
  /\ pc[p] = "fclose"
  /\ Close(p, WStep(p).path)
  /\ wrote' = [wrote EXCEPT ![p] = @ + 1]
  /\ Continue(p, wrote[p] + 1, Len(printed[p]))
  /\ UNCHANGED <<fileVars, off, want, buf, printed, histVars>>

\* fclose has flushed everything, or its flush failed: its result is not read,
\* so write_message_file returns true either way.
Fclose(p) ==
  /\ pc[p] = "fclose"
  /\ off[p] = Size[Gen(p)] \/ "write" \in Faults
  /\ Close(p, WStep(p).path)
  /\ wrote' = [wrote EXCEPT ![p] = @ + 1]
  /\ Continue(p, wrote[p] + 1, Len(printed[p]))
  /\ UNCHANGED <<fileVars, off, want, buf, printed, histVars>>

-----------------------------------------------------------------------------
OpenForRead(p) ==
  LET f == RStep(p).path IN
  /\ pc[p] = "ropen" /\ f \in exists
  /\ fds' = [fds EXCEPT ![p] = @ \cup {f}]
  /\ pc' = [pc EXCEPT ![p] = "ftell"]
  /\ buf' = [buf EXCEPT ![p] = <<>>]
  /\ dirty' = IF WritersOf(f) = {} THEN dirty \ {p} ELSE dirty \cup {p}
  /\ UNCHANGED <<fileVars, wrote, off, want, printed, exit, lastw, mixed>>

OpenForReadFails(p) ==
  /\ pc[p] = "ropen"
  /\ "open" \in Faults \/ RStep(p).path \notin exists
  /\ Exit(p, "failure")
  /\ UNCHANGED <<fileVars, fds, wrote, off, want, buf, printed, histVars>>

\* fclose of the file being read and EXIT_FAILURE.
ReadFails(p) ==
  /\ Close(p, RStep(p).path) /\ Exit(p, "failure")
  /\ UNCHANGED <<want, buf, printed>>

\* Mutant of MeasureFile: the file_size < 0 check is missing.
MeasureFileUnchecked(p) ==
  /\ pc[p] = "ftell"
  /\ want' = [want EXCEPT ![p] = IF "seek" \in Faults THEN -1 ELSE Len(data[RStep(p).path])]
  /\ pc' = [pc EXCEPT ![p] = "fread"]
  /\ UNCHANGED <<fileVars, fds, wrote, off, buf, printed, exit, histVars>>

\* Mutant of MeasureFile: the size is one short.
MeasureFileShort(p) ==
  /\ pc[p] = "ftell"
  /\ \/ /\ want' = [want EXCEPT ![p] =
             IF data[RStep(p).path] = <<>> THEN 0 ELSE Len(data[RStep(p).path]) - 1]
        /\ pc' = [pc EXCEPT ![p] = "fread"]
        /\ UNCHANGED <<fds, exit, buf, printed>>
     \/ "seek" \in Faults /\ ReadFails(p)
  /\ UNCHANGED <<fileVars, wrote, off, histVars>>

\* fseek to the end, ftell, rewind, malloc.
MeasureFile(p) ==
  /\ pc[p] = "ftell"
  /\ \/ /\ want' = [want EXCEPT ![p] = Len(data[RStep(p).path])]
        /\ pc' = [pc EXCEPT ![p] = "fread"]
        /\ UNCHANGED <<fds, exit, buf, printed>>
     \/ "seek" \in Faults /\ ReadFails(p)
  /\ UNCHANGED <<fileVars, wrote, off, histVars>>

\* Bytes b already read, extended to m chunks from content c.
ReadUpTo(b, c, m) == [i \in 1..m |-> IF i <= Len(b) THEN b[i] ELSE c[i]]

\* Mutant of ReadBlock: the count fread returns is not compared with the size.
ReadBlockUnchecked(p) ==
  LET f == RStep(p).path
      upto == IF Len(buf[p]) + Block < want[p] THEN Len(buf[p]) + Block ELSE want[p] IN
  /\ pc[p] = "fread" /\ Len(buf[p]) < want[p]
  /\ buf' = [buf EXCEPT ![p] = [i \in 1..upto |->
       IF i <= Len(buf[p]) THEN buf[p][i]
       ELSE IF i <= Len(data[f]) THEN data[f][i] ELSE Hole]]
  /\ UNCHANGED <<fileVars, pc, fds, wrote, off, want, printed, exit, histVars>>

\* Mutant of ReadBlock: a short read is retried instead of failing.
ReadBlockRetries(p) ==
  LET f == RStep(p).path
      upto == IF Len(buf[p]) + Block < want[p] THEN Len(buf[p]) + Block ELSE want[p] IN
  /\ pc[p] = "fread" /\ Len(buf[p]) < want[p] /\ upto <= Len(data[f])
  /\ buf' = [buf EXCEPT ![p] = ReadUpTo(@, data[f], upto)]
  /\ UNCHANGED <<fileVars, pc, fds, wrote, off, want, printed, exit, histVars>>

\* fread: the next block of the size ftell reported; less is a failure.
ReadBlock(p) ==
  LET f == RStep(p).path
      have == Len(buf[p])
      upto == IF have + Block < want[p] THEN have + Block ELSE want[p] IN
  /\ pc[p] = "fread" /\ have < want[p]
  /\ \/ /\ upto <= Len(data[f])
        /\ buf' = [buf EXCEPT ![p] = ReadUpTo(@, data[f], upto)]
        /\ UNCHANGED <<pc, fds, exit, want, printed>>
     \/ /\ "read" \in Faults \/ upto > Len(data[f])
        /\ ReadFails(p)
  /\ UNCHANGED <<fileVars, wrote, off, histVars>>

ReadDone(p) ==
  /\ pc[p] = "fread" /\ Len(buf[p]) = want[p]
  /\ pc' = [pc EXCEPT ![p] = "decode"]
  /\ UNCHANGED <<fileVars, fds, wrote, off, want, buf, printed, exit, histVars>>

\* What pb_decode certainly accepts: no bytes at all (every field takes its
\* default) and a complete encoding of the expected type.  Of anything else it
\* may accept or reject: that depends on where fields happen to end.
SurelyDecodes(k, c) == c = <<>> \/ \E q \in Procs : c = Payload(<<q, k>>)

Decode(p) ==
  /\ pc[p] = "decode"
  /\ \/ /\ printed' = [printed EXCEPT ![p] = Append(@, buf[p])]
        /\ Close(p, RStep(p).path)
        /\ Continue(p, wrote[p], Len(printed[p]) + 1)
        /\ UNCHANGED <<want, buf>>
     \/ ~SurelyDecodes(RStep(p).kind, buf[p]) /\ ReadFails(p)
  /\ UNCHANGED <<fileVars, wrote, off, histVars>>

\* The process dies: its descriptors close, what stdio buffered is lost.
Kill(p) ==
  /\ "kill" \in Faults /\ pc[p] # "done"
  /\ Exit(p, "killed")
  /\ fds' = [fds EXCEPT ![p] = {}]
  /\ UNCHANGED <<fileVars, wrote, off, want, buf, printed, histVars>>

Program(p) ==
  \/ EnsureDirectory(p)
  \/ OpenForWrite(p) \/ OpenForWriteFails(p) \/ Encode(p) \/ Fwrite(p)
  \/ FlushAtClose(p) \/ Fclose(p)
  \/ OpenForRead(p) \/ OpenForReadFails(p) \/ MeasureFile(p) \/ ReadBlock(p)
  \/ ReadDone(p) \/ Decode(p)

Finished == (\A p \in Procs : pc[p] = "done") /\ UNCHANGED vars

Next == (\E p \in Procs : Program(p) \/ Kill(p)) \/ Finished

\* Each program is a process the operating system keeps scheduling; nothing
\* obliges a fault, so none is fair by itself.
Spec == Init /\ [][Next]_vars /\ \A p \in Procs : WF_vars(Program(p))
-----------------------------------------------------------------------------
\* Content c is the beginning of encoding g.
IsPartOf(c, g) ==
  /\ Len(c) <= Size[g]
  /\ \A i \in 1..Len(c) : c[i] = ChunkOf(g, i)

\* Unless two writers held a file open together, what it holds is the beginning
\* of the one message its last fopen "wb" was made for: no run of
\* write_message_file, failed, killed or out of space, leaves chunks of an older
\* message or of another program behind.
UnmixedIsPrefix ==
  \A f \in Paths : f \notin mixed /\ lastw[f] # NoGen => IsPartOf(data[f], lastw[f])

\* A read that fits stdio's buffer returns chunks of a single encoding even when
\* the file is truncated or rewritten between ftell and fread, as long as no two
\* writers overlapped on it.
ReadsOneGeneration ==
  [][\A p \in Procs :
       LET f == RStep(p).path IN
       /\ buf'[p] # buf[p] /\ buf'[p] # <<>>
       /\ want[p] <= Block /\ f \notin mixed
       => IsPartOf(buf'[p], lastw[f])]_vars

\* A decode during which no program had the file open for writing prints the
\* whole of what the file holds: the size sampled by ftell and the bytes read
\* later belong together.
PrintsWhatIsStored ==
  [][\A p \in Procs :
       printed'[p] # printed[p] /\ p \notin dirty
       => printed'[p][Len(printed'[p])] = data[RStep(p).path]]_vars

\* On every path out of write_message_file and read_message_file the file has
\* been closed; inside them exactly the one file is open.
DescriptorsReturned ==
  \A p \in Procs : fds[p] = IF pc[p] \in WriteSteps THEN {WStep(p).path}
                           ELSE IF pc[p] \in ReadSteps THEN {RStep(p).path} ELSE {}

\* Index i of p's set: its file and encoding.
FileAt(p, i) == Writes[p][i].path
GenAt(p, i) == <<p, Writes[p][i].kind>>
\* p was the last to open its i-th file, and alone.
Holds(p, i) == lastw[FileAt(p, i)] = GenAt(p, i) /\ FileAt(p, i) \notin mixed

\* Once write_message_file has returned true for a message ("wrote <path>"), the
\* file holds all of it until another program opens the file for writing.
WroteMeansStored ==
  \A p \in Procs : \A i \in 1..wrote[p] :
    Holds(p, i) /\ WritersOf(FileAt(p, i)) = {}
    => data[FileAt(p, i)] = Payload(GenAt(p, i))

\* The messages of a set are written in order and the first failure stops the
\* program: wherever a failure or a kill interrupts it, a file that already got
\* its new message has only complete new messages before it in the set.
CrashLeavesPrefixOfSet ==
  \A p \in Procs : \A j \in 1..Len(Writes[p]) : \A i \in 1..(j - 1) :
    Holds(p, j) /\ Holds(p, i) => data[FileAt(p, i)] = Payload(GenAt(p, i))

\* A writer --demo that succeeds, undisturbed, has printed exactly the messages
\* it wrote: it writes the payloads "and then reads them back".
DemoPrintsItsOwn ==
  \A p \in Procs :
    /\ exit[p] = "success" /\ Writes[p] # <<>>
    /\ \A i \in 1..Len(Writes[p]) : Holds(p, i)
    => \A j \in 1..Len(Reads[p]) :
         /\ j <= Len(printed[p])
         /\ \A i \in 1..Len(Writes[p]) :
              FileAt(p, i) = Reads[p][j].path => printed[p][j] = Payload(GenAt(p, i))

\* Every program ends: no interleaving of opens, truncations and reads leaves one
\* waiting for another.
Terminates == \A p \in Procs : <>(pc[p] = "done")
=============================================================================
