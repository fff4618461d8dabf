----------------------- MODULE WaveformReaderProofs ------------------------
(***************************************************************************)
(* Proofs about the programs of waveform_subscribe_and_read.cpp around the *)
(* decoder: what they hold, that the socket is closed, that no reader      *)
(* gives up while a regular file is there, and which frame is printed.     *)
(***************************************************************************)
EXTENDS WaveformReader, TLAPS, SequenceTheorems

Items == Responses \cup Chunks
Conns ==
  {Msg(s, 0) : s \in {"none", "open", "reset", "closed"}} \cup {Msg("sent", n) : n \in SentLens}

\* The steps after a response has been parsed.
AfterRsp == {"stat", "socket", "connect", "recv", "restat", "open_frame", "read_frame", "decode"}

\* The types of what TypeOK leaves out, and that a parsed response stays.
DataOK ==
  /\ data \in [Paths -> Seq(Items)] /\ data[Rsp] \in Seq(Responses)
  /\ rsp \in [Procs -> Responses \cup {Nothing}]
  /\ frame \in [Procs -> Seq(Items)]
  /\ conn \in [Procs -> Conns]
  /\ \A p \in Procs : pc[p] \in AfterRsp => rsp[p] \in Responses

TInv == TypeOK /\ DataOK

LEMMA SeqOfFunction ==
  ASSUME NEW S, NEW n \in Nat, NEW f \in [1..n -> S]
  PROVE  f \in Seq(S) /\ Len(f) = n
  BY SMT

LEMMA FrameOfType ==
  ASSUME NEW g \in Procs \cup {Platform}, NEW n \in Nat
  PROVE  FrameOf(g, n) \in Seq(Items) /\ Len(FrameOf(g, n)) = n
<1>1. FrameOf(g, n) \in [1..n -> Items]
  BY DEF FrameOf, Items, Chunks
<1> QED BY <1>1, SeqOfFunction

LEMMA ReceivedType ==
  ASSUME NEW n \in Nat
  PROVE  Received(n) \in Nat /\ Received(0) = 0
  BY SizeAssumption DEF Received

LEMMA PutAtType ==
  ASSUME NEW c \in Seq(Items), NEW n \in Nat \ {0}, NEW x \in Items
  PROVE  PutAt(c, n, x) \in Seq(Items)
<1> DEFINE m == IF n > Len(c) THEN n ELSE Len(c)
<1>1. m \in Nat /\ Hole \in Items
  BY DEF Items, Chunks
<1>2. PutAt(c, n, x) \in [1..m -> Items]
  BY <1>1, ElementOfSeq DEF PutAt
<1> QED BY <1>1, <1>2, SeqOfFunction

LEMMA ConnTypes ==
  ASSUME NEW c \in Conns
  PROVE  /\ c.len \in Nat
         /\ c.st \in {"closed", "sent"} => c.len \in SentLens \cup {0}
  BY SizeAssumption DEF Conns, Msg

LEMMA InitTInv == Init => TInv
<1> SUFFICES ASSUME Init PROVE TInv
  OBVIOUS
<1>1. PICK s \in Initially : node = s.node /\ data = s.data
  BY DEF Init
<1>2. data \in [Paths -> Seq(Items)] /\ data[Rsp] \in Seq(Responses)
  <2>1. Responses \subseteq Items /\ Chunks \subseteq Items
    BY DEF Items
  <2>2. data[Rsp] \in Seq(Responses) /\ data[Frame] \in Seq(Chunks) /\ data[Socket] \in Seq(Chunks)
    BY <1>1, InitiallyAssumption
  <2>3. \A f \in Paths : data[f] \in Seq(Items)
    BY <2>1, <2>2, SeqMonotonic DEF Paths
  <2>4. data = [f \in Paths |-> data[f]]
    BY <1>1, InitiallyAssumption
  <2> QED BY <2>2, <2>3, <2>4
<1>3. TypeOK
  <2>1. node \in [Paths -> {"absent", "file", "socket"}]
    BY <1>1, InitiallyAssumption
  <2> QED BY <2>1, ModeAssumption, SizeAssumption DEF Init, TypeOK, FirstPc, WriteSteps
<1>4. DataOK
  <2>1. NoConn \in Conns /\ <<>> \in Seq(Items)
    BY DEF NoConn, Conns
  <2>2. \A p \in Procs : pc[p] \notin AfterRsp
    BY DEF Init, FirstPc, AfterRsp
  <2> QED BY <1>2, <2>1, <2>2 DEF Init, DataOK
<1> QED BY <1>3, <1>4 DEF TInv

\* p's step, in what it leaves to others and in what a program that ends is.
OthersSame(p) ==
  \A q \in Procs \ {p} :
    /\ pc'[q] = pc[q] /\ exit'[q] = exit[q] /\ off'[q] = off[q] /\ rsp'[q] = rsp[q]
    /\ frame'[q] = frame[q] /\ fd'[q] = fd[q] /\ conn'[q] = conn[q]

LEMMA StepOfOne ==
  ASSUME TInv, NEW p \in Procs, Program(p) \/ Kill(p) \/ Serve(p)
  PROVE  OthersSame(p)
<1> USE DEF OthersSame, TInv, TypeOK, DataOK, Goto, Exit
<1>1. CASE OpenFails(p)
  BY <1>1 DEF OpenFails
<1>2. CASE OpenRspForWrite(p) \/ CloseRsp(p) \/ OpenFrameForWrite(p)
  BY <1>2 DEF OpenRspForWrite, CloseRsp, OpenFrameForWrite
<1>3. CASE WriteFrame(p)
  BY <1>3 DEF WriteFrame
<1>4. CASE OpenRsp(p) \/ Stat(p) \/ OpenSocket(p) \/ StatAgain(p)
  BY <1>4 DEF OpenRsp, Stat, OpenSocket, StatAgain
<1>5. CASE ReadRsp(p)
  BY <1>5 DEF ReadRsp
<1>6. CASE Connect(p) \/ Recv(p)
  BY <1>6 DEF Connect, Recv, SocketFails
<1>7. CASE OpenFrame(p) \/ ReadFrame(p) \/ Decode(p)
  BY <1>7 DEF OpenFrame, ReadFrame, Decode
<1>8. CASE Kill(p) \/ Serve(p)
  BY <1>8 DEF Kill, Serve
<1> QED BY <1>1, <1>2, <1>3, <1>4, <1>5, <1>6, <1>7, <1>8 DEF Program

-----------------------------------------------------------------------------
\* A program that ends, in whatever way, keeps nothing.
LEMMA ExitTypes ==
  ASSUME TInv, NEW p \in Procs, NEW st \in {"success", "failure", "killed"}, Exit(p, st)
  PROVE  /\ pc' = [pc EXCEPT ![p] = "done"] /\ pc'[p] = "done" /\ exit'[p] = st
         /\ pc' \in [Procs -> WriteSteps \cup {"open_rsp", "done"} \cup {"read_rsp"} \cup AfterRsp]
         /\ exit' \in [Procs -> {"running", "success", "failure", "killed"}]
         /\ off' \in [Procs -> 0..FrameLen] /\ rsp' \in [Procs -> Responses \cup {Nothing}]
         /\ frame' \in [Procs -> Seq(Items)] /\ dirty' \in SUBSET Procs
         /\ \A q \in Procs : pc'[q] \in AfterRsp => pc[q] \in AfterRsp /\ rsp'[q] = rsp[q]
<1>1. /\ pc \in [Procs -> WriteSteps \cup {"open_rsp", "done"} \cup {"read_rsp"} \cup AfterRsp]
      /\ exit \in [Procs -> {"running", "success", "failure", "killed"}]
      /\ off \in [Procs -> 0..FrameLen] /\ rsp \in [Procs -> Responses \cup {Nothing}]
      /\ frame \in [Procs -> Seq(Items)] /\ dirty \in SUBSET Procs
  BY DEF TInv, TypeOK, DataOK, WriteSteps, AfterRsp
<1>2. "done" \notin AfterRsp /\ 0 \in 0..FrameLen /\ <<>> \in Seq(Items)
  BY SizeAssumption DEF AfterRsp
<1> QED BY <1>1, <1>2 DEF Exit, Goto

\* The types once p has ended and the files are as they were.
LEMMA ExitTInv ==
  ASSUME TInv, NEW p \in Procs, NEW st \in {"success", "failure", "killed"}, Exit(p, st),
         UNCHANGED <<node, data, moves>>,
         fd' \in [Procs -> BOOLEAN], conn' \in [Procs -> Conns]
  PROVE  TInv'
  BY ExitTypes DEF TInv, TypeOK, DataOK, WriteSteps, AfterRsp

\* The types once p has gone on to step l, and nothing but its own variables changed.
LEMMA GotoTInv ==
  ASSUME TInv, NEW p \in Procs, NEW l \in WriteSteps \cup {"open_rsp", "read_rsp"} \cup AfterRsp,
         Goto(p, l), l \in AfterRsp => rsp'[p] \in Responses,
         UNCHANGED <<node, exit, moves>>, dirty' \in SUBSET Procs,
         data' \in [Paths -> Seq(Items)], data'[Rsp] \in Seq(Responses),
         off' \in [Procs -> 0..FrameLen],
         rsp' \in [Procs -> Responses \cup {Nothing}], \A q \in Procs \ {p} : rsp'[q] = rsp[q],
         frame' \in [Procs -> Seq(Items)], fd' \in [Procs -> BOOLEAN], conn' \in [Procs -> Conns]
  PROVE  TInv'
<1>1. pc' = [pc EXCEPT ![p] = l] /\ pc'[p] = l /\ \A q \in Procs \ {p} : pc'[q] = pc[q]
  BY DEF Goto, TInv, TypeOK
<1> QED BY <1>1 DEF TInv, TypeOK, DataOK, WriteSteps, AfterRsp

\* The types once p has gone on and no file and none of its own data changed.
LEMMA GoOnTInv ==
  ASSUME TInv, NEW p \in Procs, NEW l \in WriteSteps \cup {"open_rsp", "read_rsp"} \cup AfterRsp,
         Goto(p, l), l \in AfterRsp => rsp[p] \in Responses,
         UNCHANGED <<node, data, exit, off, rsp, moves>>, dirty' \in SUBSET Procs,
         frame' \in [Procs -> Seq(Items)], fd' \in [Procs -> BOOLEAN], conn' \in [Procs -> Conns]
  PROVE  TInv'
  BY GotoTInv DEF TInv, TypeOK, DataOK

LEMMA DisturbType == TInv /\ Disturb => dirty' \in SUBSET Procs
  BY DEF TInv, TypeOK, Disturb

LEMMA WriterTInv ==
  ASSUME TInv, NEW p \in Procs,
         OpenRspForWrite(p) \/ CloseRsp(p) \/ OpenFrameForWrite(p) \/ WriteFrame(p)
  PROVE  TInv'
<1>0. /\ TypeOK /\ DataOK /\ <<>> \in Seq(Items) /\ <<>> \in Seq(Responses) /\ 0 \in 0..FrameLen
      /\ Rsp \in Paths /\ Frame \in Paths /\ Frame # Rsp
  BY SizeAssumption, PathAssumption DEF TInv, Paths
<1>1. CASE OpenRspForWrite(p) \/ OpenFrameForWrite(p)
  <2>1. PICK f \in {Rsp, Frame} : Truncate(f)
    BY <1>1 DEF OpenRspForWrite, OpenFrameForWrite
  <2>2. /\ node' \in [Paths -> {"absent", "file", "socket"}] /\ dirty' \in SUBSET Procs
        /\ data' \in [Paths -> Seq(Items)] /\ data'[Rsp] \in Seq(Responses)
    BY <1>0, <2>1, DisturbType DEF Truncate, TypeOK, DataOK
  <2>3. PICK l \in WriteSteps : Goto(p, l) /\ UNCHANGED <<exit, rsp, frame, fd, conn, moves>>
    BY <1>1 DEF OpenRspForWrite, OpenFrameForWrite, WriteSteps
  <2>4. off' \in [Procs -> 0..FrameLen]
    BY <1>0, <1>1 DEF OpenRspForWrite, OpenFrameForWrite, TypeOK
  <2> QED BY <1>0, <2>2, <2>3, <2>4
          DEF Goto, TInv, TypeOK, DataOK, WriteSteps, AfterRsp
<1>2. CASE CloseRsp(p)
  <2>1. Response(p) \in Responses
    BY DEF Response, Responses, Paths
  <2>2. <<Response(p)>> \in Seq(Responses) /\ <<Response(p)>> \in Seq(Items)
    BY <2>1 DEF Items
  <2>3. /\ data' \in [Paths -> Seq(Items)] /\ data'[Rsp] \in Seq(Responses)
        /\ dirty' \in SUBSET Procs
    BY <1>0, <1>2, <2>2, DisturbType DEF CloseRsp, TypeOK, DataOK
  <2> QED BY <1>0, <1>2, <2>3, GotoTInv DEF CloseRsp, TypeOK, DataOK, WriteSteps, AfterRsp
<1>3. CASE WriteFrame(p)
  <2>1. CASE /\ off[p] < FrameLen
             /\ data' = [data EXCEPT ![Frame] = PutAt(@, off[p] + 1, <<p, off[p] + 1>>)]
             /\ off' = [off EXCEPT ![p] = @ + 1]
             /\ Disturb
             /\ UNCHANGED <<pc, exit, rsp, frame>>
    <3>1. off[p] + 1 \in Nat \ {0} /\ off[p] + 1 \in 0..FrameLen /\ data[Frame] \in Seq(Items)
      BY <1>0, <2>1, SizeAssumption DEF TypeOK, DataOK
    <3>2. <<p, off[p] + 1>> \in Items
      BY <3>1 DEF Items, Chunks
    <3>3. PutAt(data[Frame], off[p] + 1, <<p, off[p] + 1>>) \in Seq(Items)
      BY <3>1, <3>2, PutAtType
    <3>4. /\ data' \in [Paths -> Seq(Items)] /\ data'[Rsp] \in Seq(Responses)
          /\ off' \in [Procs -> 0..FrameLen] /\ dirty' \in SUBSET Procs
      BY <1>0, <2>1, <3>1, <3>3, DisturbType DEF TypeOK, DataOK
    <3> QED BY <1>0, <1>3, <2>1, <3>4 DEF WriteFrame, TInv, TypeOK, DataOK
  <2>2. CASE Goto(p, "open_rsp") /\ UNCHANGED <<exit, off, rsp, frame, dirty, data>>
    BY <1>0, <1>3, <2>2, GoOnTInv DEF WriteFrame, TypeOK, DataOK, AfterRsp
  <2>3. CASE (Exit(p, "success") \/ Exit(p, "failure")) /\ UNCHANGED data
    BY <1>0, <1>3, <2>3, ExitTInv DEF WriteFrame, TypeOK, DataOK
  <2> QED BY <1>3, <2>1, <2>2, <2>3 DEF WriteFrame
<1> QED BY <1>1, <1>2, <1>3

LEMMA ReaderTInv ==
  ASSUME TInv, NEW p \in Procs,
         OpenRsp(p) \/ ReadRsp(p) \/ Stat(p) \/ StatAgain(p) \/ OpenFrame(p) \/ ReadFrame(p)
  PROVE  TInv'
<1> USE DEF AfterRsp
<1>0. TypeOK /\ DataOK /\ <<>> \in Seq(Items)
  BY DEF TInv
<1>1. CASE OpenRsp(p)
  BY <1>0, <1>1, GoOnTInv DEF OpenRsp, TypeOK, DataOK
<1>2. CASE ReadRsp(p)
  <2>1. PICK c \in {data[Rsp], <<>>} :
          IF c = <<>> \/ ~c[1].subscribed THEN Exit(p, "success")
          ELSE rsp' = [rsp EXCEPT ![p] = c[1]] /\ Goto(p, "stat") /\ UNCHANGED <<exit, off, frame, dirty>>
    BY <1>2 DEF ReadRsp
  <2>2. CASE Exit(p, "success")
    BY <1>0, <1>2, <2>2, ExitTInv DEF ReadRsp, TypeOK, DataOK
  <2>3. CASE c # <<>> /\ rsp' = [rsp EXCEPT ![p] = c[1]] /\ Goto(p, "stat")
             /\ UNCHANGED <<exit, off, frame, dirty>>
    <3>1. c[1] \in Responses
      BY <1>0, <2>3 DEF DataOK
    <3>2. rsp' \in [Procs -> Responses \cup {Nothing}] /\ rsp'[p] \in Responses
          /\ \A q \in Procs \ {p} : rsp'[q] = rsp[q]
      BY <1>0, <2>3, <3>1 DEF DataOK
    <3> QED BY <1>0, <1>2, <2>3, <3>2, GotoTInv DEF ReadRsp, TypeOK, DataOK
  <2> QED BY <2>1, <2>2, <2>3
<1>3. CASE Stat(p)
  <2>1. PICK l \in {"open_frame", "socket"} : Goto(p, l)
    BY <1>3 DEF Stat
  <2> QED BY <1>0, <1>3, <2>1, GoOnTInv DEF Stat, TypeOK, DataOK
<1>4. CASE StatAgain(p)
  <2>1. CASE Exit(p, "failure")
    BY <1>0, <1>4, <2>1, ExitTInv DEF StatAgain, TypeOK, DataOK
  <2>2. CASE Goto(p, "open_frame") /\ UNCHANGED <<exit, off, rsp, frame, dirty>>
    BY <1>0, <1>4, <2>2, GoOnTInv DEF StatAgain, TypeOK, DataOK
  <2> QED BY <1>4, <2>1, <2>2 DEF StatAgain
<1>5. CASE OpenFrame(p)
  BY <1>0, <1>5, GoOnTInv DEF OpenFrame, TypeOK, DataOK
<1>6. CASE ReadFrame(p)
  <2>1. CASE Goto(p, "decode") /\ UNCHANGED frame
    BY <1>0, <1>6, <2>1, GoOnTInv DEF ReadFrame, TypeOK, DataOK
  <2>2. CASE /\ Len(frame[p]) < Len(data[Path(p)])
             /\ frame' = [frame EXCEPT ![p] = Append(@, data[Path(p)][Len(frame[p]) + 1])]
             /\ UNCHANGED pc
    <3>1. Path(p) \in Paths /\ data[Path(p)] \in Seq(Items) /\ frame[p] \in Seq(Items)
      BY <1>0, <1>6 DEF ReadFrame, DataOK, Path, Responses
    <3>2. data[Path(p)][Len(frame[p]) + 1] \in Items
      BY <2>2, <3>1
    <3>3. frame' \in [Procs -> Seq(Items)]
      BY <1>0, <2>2, <3>1, <3>2 DEF DataOK
    <3> QED BY <1>0, <1>6, <2>2, <3>3 DEF ReadFrame, TInv, TypeOK, DataOK
  <2> QED BY <1>6, <2>1, <2>2 DEF ReadFrame
<1> QED BY <1>1, <1>2, <1>3, <1>4, <1>5, <1>6

LEMMA SocketTInv ==
  ASSUME TInv, NEW p \in Procs, OpenSocket(p) \/ Connect(p) \/ Recv(p)
  PROVE  TInv'
<1> USE DEF AfterRsp
<1>0. /\ TypeOK /\ DataOK /\ NoConn \in Conns /\ Msg("open", 0) \in Conns
  BY DEF TInv, NoConn, Conns
<1>1. ASSUME SocketFails(p), pc[p] \in AfterRsp, UNCHANGED <<node, data, exit, off, rsp, frame, moves, dirty>>
      PROVE  TInv'
  BY <1>0, <1>1, GoOnTInv DEF SocketFails, TypeOK, DataOK
<1>2. CASE OpenSocket(p)
  <2>1. PICK l \in {"connect", "restat"} : Goto(p, l) /\ fd' \in [Procs -> BOOLEAN]
    BY <1>0, <1>2 DEF OpenSocket, TypeOK
  <2> QED BY <1>0, <1>2, <2>1, GoOnTInv DEF OpenSocket, TypeOK, DataOK
<1>3. CASE Connect(p)
  <2>1. CASE SocketFails(p)
    BY <1>1, <1>3, <2>1 DEF Connect
  <2>2. CASE conn' = [conn EXCEPT ![p] = Msg("open", 0)] /\ Goto(p, "recv") /\ UNCHANGED fd
    BY <1>0, <1>3, <2>2, GoOnTInv DEF Connect, TypeOK, DataOK
  <2> QED BY <1>3, <2>1, <2>2 DEF Connect
<1>4. CASE Recv(p)
  <2>1. CASE SocketFails(p) /\ UNCHANGED frame
    BY <1>1, <1>4, <2>1 DEF Recv
  <2>2. CASE /\ frame' = [frame EXCEPT ![p] = FrameOf(Platform, Received(conn[p].len))]
             /\ fd' = [fd EXCEPT ![p] = FALSE] /\ conn' = [conn EXCEPT ![p] = NoConn]
             /\ Goto(p, "decode")
    <3>1. FrameOf(Platform, Received(conn[p].len)) \in Seq(Items)
      BY <1>0, ConnTypes, ReceivedType, FrameOfType DEF DataOK
    <3>2. /\ frame' \in [Procs -> Seq(Items)] /\ fd' \in [Procs -> BOOLEAN]
          /\ conn' \in [Procs -> Conns]
      BY <1>0, <2>2, <3>1 DEF TypeOK, DataOK
    <3> QED BY <1>0, <1>4, <2>2, <3>2, GoOnTInv DEF Recv, TypeOK, DataOK
  <2> QED BY <1>4, <2>1, <2>2 DEF Recv
<1> QED BY <1>2, <1>3, <1>4

LEMMA EndTInv ==
  ASSUME TInv, NEW p \in Procs, OpenFails(p) \/ Decode(p) \/ Kill(p)
  PROVE  TInv'
<1>1. NoConn \in Conns
  BY DEF NoConn, Conns
<1>2. /\ UNCHANGED <<node, data, moves>> /\ fd' \in [Procs -> BOOLEAN] /\ conn' \in [Procs -> Conns]
      /\ \E st \in {"success", "failure", "killed"} : Exit(p, st)
  BY <1>1 DEF OpenFails, Decode, Kill, TInv, TypeOK, DataOK
<1> QED BY <1>2, ExitTInv

LEMMA PlatformTInv ==
  ASSUME TInv, Listen \/ Leave \/ \E p \in Procs : Serve(p)
  PROVE  TInv'
<1>0. /\ TypeOK /\ DataOK /\ Socket \in Paths /\ Msg("reset", 0) \in Conns
      /\ \A a \in {Msg("closed", 0)} \cup {Msg("sent", n) : n \in SentLens} : a \in Conns
  BY DEF TInv, Paths, Conns
<1>1. moves < MaxMoves => moves + 1 \in 0..MaxMoves
  BY <1>0, SizeAssumption DEF TypeOK
<1>2. CASE Listen
  BY <1>0, <1>1, <1>2, DisturbType DEF Listen, progVars, TInv, TypeOK, DataOK
<1>3. CASE Leave
  BY <1>0, <1>1, <1>3, DisturbType DEF Leave, TInv, TypeOK, DataOK
<1>4. CASE \E p \in Procs : Serve(p)
  BY <1>0, <1>4 DEF Serve, TInv, TypeOK, DataOK
<1> QED BY <1>2, <1>3, <1>4

LEMMA StepTInv == TInv /\ [Next]_vars => TInv'
<1> SUFFICES ASSUME TInv, [Next]_vars PROVE TInv'
  OBVIOUS
<1>1. CASE UNCHANGED vars
  BY <1>1 DEF vars, TInv, TypeOK, DataOK
<1> QED BY <1>1, WriterTInv, ReaderTInv, SocketTInv, EndTInv, PlatformTInv
        DEF Next, Program, Finished

\* Every reachable state is well typed: a writer never sends more chunks than its frame
\* has, whatever shares the files (WriteRspSampleAndFrame and the reader).
THEOREM ReaderTypeCorrect == Spec => []TypeOK
<1>1. TInv => TypeOK
  BY DEF TInv
<1> QED BY <1>1, InitTInv, StepTInv, PTL DEF Spec
-----------------------------------------------------------------------------
LEMMA InitSocketClosed == Init => SocketClosed
  BY DEF Init, SocketClosed, FirstPc

LEMMA StepSocketClosed == TInv /\ SocketClosed /\ [Next]_vars => SocketClosed'
<1> SUFFICES ASSUME TInv, SocketClosed, [Next]_vars, NEW q \in Procs
             PROVE  fd'[q] <=> pc'[q] \in {"connect", "recv"}
  BY DEF SocketClosed
<1> USE DEF SocketClosed, TInv, TypeOK, Goto, Exit
<1>1. ASSUME NEW p \in Procs, Program(p) \/ Kill(p) \/ Serve(p)
      PROVE  fd'[q] <=> pc'[q] \in {"connect", "recv"}
  <2>1. CASE q # p
    BY <1>1, <2>1, StepOfOne DEF OthersSame
  <2>2. CASE q = p
    <3>1. CASE OpenFails(p)
      BY <2>2, <3>1 DEF OpenFails
    <3>2. CASE OpenRspForWrite(p) \/ CloseRsp(p) \/ OpenFrameForWrite(p) \/ WriteFrame(p)
      BY <2>2, <3>2 DEF OpenRspForWrite, CloseRsp, OpenFrameForWrite, WriteFrame
    <3>3. CASE OpenRsp(p) \/ ReadRsp(p) \/ Stat(p) \/ StatAgain(p)
      BY <2>2, <3>3 DEF OpenRsp, ReadRsp, Stat, StatAgain
    <3>4. CASE OpenSocket(p)
      BY <2>2, <3>4 DEF OpenSocket
    <3>5. CASE Connect(p)
      BY <2>2, <3>5 DEF Connect, SocketFails
    <3>6. CASE Recv(p)
      BY <2>2, <3>6 DEF Recv, SocketFails
    <3>7. CASE OpenFrame(p) \/ ReadFrame(p) \/ Decode(p)
      BY <2>2, <3>7 DEF OpenFrame, ReadFrame, Decode
    <3>8. CASE Kill(p) \/ Serve(p)
      BY <2>2, <3>8 DEF Kill, Serve
    <3> QED BY <1>1, <3>1, <3>2, <3>3, <3>4, <3>5, <3>6, <3>7, <3>8 DEF Program
  <2> QED BY <2>1, <2>2
<1>2. CASE Listen \/ Leave \/ UNCHANGED vars
  BY <1>2 DEF Listen, Leave, progVars, vars
<1> QED BY <1>1, <1>2 DEF Next, Finished

\* Whichever call of the socket code fails, and whatever the platform does, the socket is
\* open exactly while the program connects and receives
\* (TryRecvOneFrameFromUnixSeqpacket).
THEOREM SocketIsClosed == Spec => []SocketClosed
  BY InitTInv, StepTInv, InitSocketClosed, StepSocketClosed, PTL DEF Spec
-----------------------------------------------------------------------------
LEMMA StepFailureExplained ==
  ASSUME TInv, [Next]_vars, NEW q \in Procs,
         exit[q] = "running", exit'[q] = "failure", Reading(q), "open" \notin Faults[q]
  PROVE  node[Path(q)] # "file"
<1> USE DEF TInv, TypeOK, Goto, Exit
<1>1. ASSUME NEW p \in Procs, Program(p) \/ Kill(p) \/ Serve(p)
      PROVE  node[Path(q)] # "file"
  <2>0. q = p
    BY <1>1, StepOfOne DEF OthersSame
  <2>1. CASE OpenFails(p)
    BY <2>0, <2>1 DEF OpenFails, Reading, WriteSteps, Path
  <2>2. CASE OpenRspForWrite(p) \/ CloseRsp(p) \/ OpenFrameForWrite(p) \/ WriteFrame(p)
    BY <2>0, <2>2 DEF OpenRspForWrite, CloseRsp, OpenFrameForWrite, WriteFrame, Reading, WriteSteps
  <2>3. CASE OpenRsp(p) \/ ReadRsp(p) \/ Stat(p) \/ OpenSocket(p)
    BY <2>0, <2>3 DEF OpenRsp, ReadRsp, Stat, OpenSocket
  <2>4. CASE StatAgain(p)
    BY <2>0, <2>4 DEF StatAgain
  <2>5. CASE Connect(p) \/ Recv(p)
    BY <2>0, <2>5 DEF Connect, Recv
  <2>6. CASE OpenFrame(p) \/ ReadFrame(p) \/ Decode(p) \/ Kill(p) \/ Serve(p)
    BY <2>0, <2>6 DEF OpenFrame, ReadFrame, Decode, Kill, Serve
  <2> QED BY <1>1, <2>1, <2>2, <2>3, <2>4, <2>5, <2>6 DEF Program
<1>2. CASE Listen \/ Leave \/ UNCHANGED vars
  BY <1>2 DEF Listen, Leave, progVars, vars
<1> QED BY <1>1, <1>2 DEF Next, Finished

\* A reader whose opens work gives up only where there is no regular file: in no
\* interleaving with writers and the platform does it overlook one that is there
\* (ReadRspAndProcessFrame, whose stat, connect and second stat are separate calls).
THEOREM FailureIsExplained == Spec => FailureExplained
<1>1. TInv /\ [Next]_vars =>
        [\A p \in Procs :
           exit[p] = "running" /\ exit'[p] = "failure" /\ Reading(p) /\ "open" \notin Faults[p]
           => node[Path(p)] # "file"]_vars
  BY StepFailureExplained
<1> QED BY <1>1, InitTInv, StepTInv, PTL DEF Spec, FailureExplained
-----------------------------------------------------------------------------
\* What a reader has of the frame file at its path.
HoldsStored(p) ==
  LET stored == data[Path(p)] IN
  Len(frame[p]) <= Len(stored) /\ \A i \in 1..Len(frame[p]) : frame[p][i] = stored[i]

\* What a reader knows, step by step, when no file has changed since it opened the
\* response: the response is still the one it parsed, and the path is still what the
\* last stat or open found there.
KnowsFrame(p) ==
  /\ pc[p] \in AfterRsp => data[Rsp] # <<>> /\ rsp[p] = data[Rsp][1]
  /\ pc[p] \in {"open_frame", "read_frame"} => node[Path(p)] = "file"
  /\ pc[p] = "read_frame" => HoldsStored(p)
  /\ pc[p] \in {"socket", "connect", "recv", "restat"} => node[Path(p)] # "file"
  /\ pc[p] = "decode" =>
       IF node[Path(p)] = "file"
       THEN HoldsStored(p) /\ ("read" \in Faults[p] \/ Len(frame[p]) = Len(data[Path(p)]))
       ELSE frame[p] \in {FrameOf(Platform, Received(m)) : m \in SentLens \cup {0}}

OneFrame == \A p \in Procs : Reading(p) /\ p \notin dirty => KnowsFrame(p)

LEMMA InitOneFrame == Init => OneFrame
  BY DEF Init, OneFrame, Reading, WriteSteps, FirstPc

\* A step of p leaves every file alone or marks all who are reading.
LEMMA FilesOrDisturb ==
  ASSUME TInv, NEW p \in Procs, Program(p) \/ Kill(p) \/ Serve(p)
  PROVE  \/ UNCHANGED <<node, data>> /\ \A q \in Procs \ {p} : q \in dirty' <=> q \in dirty
         \/ Disturb /\ pc[p] \in WriteSteps /\ pc'[p] \in WriteSteps
<1> USE DEF TInv, TypeOK, Goto, Exit
<1>1. CASE OpenFails(p) \/ Decode(p) \/ Kill(p) \/ Serve(p)
  BY <1>1 DEF OpenFails, Decode, Kill, Serve
<1>2. CASE OpenRspForWrite(p) \/ CloseRsp(p) \/ OpenFrameForWrite(p)
  BY <1>2 DEF OpenRspForWrite, CloseRsp, OpenFrameForWrite, Truncate, WriteSteps
<1>3. CASE WriteFrame(p)
  BY <1>3 DEF WriteFrame, WriteSteps
<1>4. CASE OpenRsp(p) \/ ReadRsp(p) \/ Stat(p) \/ OpenSocket(p)
  BY <1>4 DEF OpenRsp, ReadRsp, Stat, OpenSocket
<1>5. CASE Connect(p) \/ Recv(p) \/ StatAgain(p) \/ OpenFrame(p) \/ ReadFrame(p)
  BY <1>5 DEF Connect, Recv, StatAgain, OpenFrame, ReadFrame
<1> QED BY <1>1, <1>2, <1>3, <1>4, <1>5 DEF Program

\* The others: what a reader knows stays true while no file changes.
LEMMA OthersKnow ==
  ASSUME TInv, OneFrame, NEW q \in Procs, Reading(q)', q \notin dirty',
         pc'[q] = pc[q], rsp'[q] = rsp[q], frame'[q] = frame[q],
         UNCHANGED <<node, data>>, q \notin dirty
  PROVE  KnowsFrame(q)'
<1>1. Reading(q) /\ KnowsFrame(q)
  BY DEF Reading, OneFrame
<1>2. Path(q)' = Path(q)
  BY DEF Path
<1> QED BY <1>1, <1>2 DEF KnowsFrame, HoldsStored

LEMMA AppendStored ==
  ASSUME NEW s \in Seq(Items), NEW t \in Seq(Items), Len(t) < Len(s),
         \A i \in 1..Len(t) : t[i] = s[i]
  PROVE  LET u == Append(t, s[Len(t) + 1]) IN
         Len(u) <= Len(s) /\ \A i \in 1..Len(u) : u[i] = s[i]
<1> DEFINE x == s[Len(t) + 1]
           u == Append(t, x)
<1>1. Len(s) \in Nat /\ Len(t) \in Nat /\ x \in Items
  BY ElementOfSeq
<1>2. Len(u) = Len(t) + 1 /\ u[Len(t) + 1] = x /\ \A i \in 1..Len(t) : u[i] = t[i]
  BY <1>1, AppendProperties
<1>3. \A i \in 1..Len(u) : i \in 1..Len(t) \/ i = Len(t) + 1
  BY <1>1, <1>2
<1> QED BY <1>1, <1>2, <1>3

\* The reader itself.
LEMMA ReaderKnows ==
  ASSUME TInv, OneFrame, NEW p \in Procs, Program(p) \/ Kill(p) \/ Serve(p),
         Reading(p)', p \notin dirty', UNCHANGED <<node, data>>
  PROVE  KnowsFrame(p)'
<1> USE DEF TInv, TypeOK, DataOK, Goto, Exit
<1>0. pc \in [Procs -> WriteSteps \cup {"open_rsp", "read_rsp", "done"} \cup AfterRsp]
  BY DEF WriteSteps, AfterRsp
<1>1. CASE OpenFails(p) \/ Decode(p) \/ Kill(p)
  BY <1>1 DEF OpenFails, Decode, Kill, Reading
<1>2. CASE OpenRspForWrite(p) \/ CloseRsp(p) \/ OpenFrameForWrite(p) \/ WriteFrame(p)
  BY <1>2 DEF OpenRspForWrite, CloseRsp, OpenFrameForWrite, WriteFrame, Reading, WriteSteps
<1>3. CASE OpenRsp(p)
  BY <1>3 DEF OpenRsp, KnowsFrame, AfterRsp
<1>4. CASE Serve(p)
  BY <1>4, OthersKnow DEF Serve
<1>5. CASE ReadRsp(p)
  <2>1. /\ pc'[p] = "stat" /\ rsp'[p] = data[Rsp][1] /\ data[Rsp] # <<>>
    BY <1>5 DEF ReadRsp, Reading
  <2> QED BY <2>1 DEF KnowsFrame
<1>6. ASSUME pc[p] \in AfterRsp, dirty' = dirty PROVE KnowsFrame(p)
  BY <1>6 DEF OneFrame, Reading, AfterRsp, WriteSteps
<1>7. CASE Stat(p)
  <2>1. KnowsFrame(p) /\ Path(p)' = Path(p)
    BY <1>6, <1>7 DEF Stat, AfterRsp, Path
  <2>2. pc'[p] = IF node[Path(p)] = "file" THEN "open_frame" ELSE "socket"
    BY <1>7 DEF Stat
  <2> QED BY <1>7, <2>1, <2>2 DEF Stat, KnowsFrame, AfterRsp
<1>8. CASE OpenSocket(p) \/ Connect(p)
  <2>1. KnowsFrame(p) /\ Path(p)' = Path(p) /\ node[Path(p)] # "file"
    BY <1>6, <1>8 DEF OpenSocket, Connect, AfterRsp, Path, KnowsFrame
  <2>2. pc'[p] \in {"connect", "restat", "recv"} /\ rsp'[p] = rsp[p] /\ pc[p] \in AfterRsp
    BY <1>8 DEF OpenSocket, Connect, SocketFails, AfterRsp
  <2> QED BY <2>1, <2>2 DEF KnowsFrame, AfterRsp
<1>9. CASE Recv(p)
  <2>1. /\ KnowsFrame(p) /\ Path(p)' = Path(p) /\ node[Path(p)] # "file"
        /\ rsp'[p] = rsp[p] /\ pc[p] \in AfterRsp
    BY <1>6, <1>9 DEF Recv, AfterRsp, Path, KnowsFrame
  <2>2. CASE SocketFails(p)
    <3>1. pc'[p] = "restat"
      BY <2>2 DEF SocketFails
    <3> QED BY <2>1, <3>1 DEF KnowsFrame
  <2>3. CASE /\ conn[p].st \in {"closed", "sent"}
             /\ frame' = [frame EXCEPT ![p] = FrameOf(Platform, Received(conn[p].len))]
             /\ Goto(p, "decode")
    <3>1. pc'[p] = "decode" /\ frame'[p] = FrameOf(Platform, Received(conn[p].len))
      BY <2>3
    <3>2. conn[p].len \in SentLens \cup {0}
      BY <2>3, ConnTypes
    <3> QED BY <2>1, <3>1, <3>2 DEF KnowsFrame
  <2> QED BY <1>9, <2>2, <2>3 DEF Recv
<1>10. CASE StatAgain(p)
  <2>1. KnowsFrame(p) /\ Path(p)' = Path(p) /\ node[Path(p)] # "file"
    BY <1>6, <1>10 DEF StatAgain, AfterRsp, Path, KnowsFrame, Reading
  <2> QED BY <1>10, <2>1 DEF StatAgain, Reading
<1>11. CASE OpenFrame(p)
  <2>1. KnowsFrame(p) /\ Path(p)' = Path(p) /\ node[Path(p)] = "file"
    BY <1>6, <1>11 DEF OpenFrame, AfterRsp, Path
  <2>2. pc'[p] = "read_frame" /\ frame'[p] = <<>> /\ rsp'[p] = rsp[p] /\ pc[p] \in AfterRsp
    BY <1>11 DEF OpenFrame, AfterRsp
  <2>3. Path(p) \in Paths /\ data[Path(p)] \in Seq(Items)
    BY <2>2 DEF Path, Responses
  <2>4. HoldsStored(p)'
    BY <2>1, <2>2, <2>3 DEF HoldsStored
  <2> QED BY <2>1, <2>2, <2>4 DEF KnowsFrame
<1>12. CASE ReadFrame(p)
  <2>1. /\ KnowsFrame(p) /\ Path(p)' = Path(p) /\ rsp'[p] = rsp[p] /\ pc[p] = "read_frame"
        /\ pc[p] \in AfterRsp /\ frame[p] \in Seq(Items)
    BY <1>6, <1>12 DEF ReadFrame, AfterRsp, Path
  <2>2. HoldsStored(p) /\ node[Path(p)] = "file"
    BY <2>1 DEF KnowsFrame
  <2>3. Path(p) \in Paths /\ data[Path(p)] \in Seq(Items)
    BY <2>1 DEF Path, Responses
  <2>4. CASE /\ Len(frame[p]) < Len(data[Path(p)])
             /\ frame' = [frame EXCEPT ![p] = Append(@, data[Path(p)][Len(frame[p]) + 1])]
             /\ UNCHANGED pc
    <3>1. frame'[p] = Append(frame[p], data[Path(p)][Len(frame[p]) + 1])
      BY <2>4
    <3>2. \A i \in 1..Len(frame[p]) : frame[p][i] = data[Path(p)][i]
      BY <2>2 DEF HoldsStored
    <3>3. HoldsStored(p)'
      BY <2>1, <2>3, <2>4, <3>1, <3>2, AppendStored DEF HoldsStored
    <3> QED BY <2>1, <2>2, <2>4, <3>3 DEF KnowsFrame
  <2>5. CASE /\ Len(frame[p]) >= Len(data[Path(p)]) \/ "read" \in Faults[p]
             /\ Goto(p, "decode")
             /\ UNCHANGED frame
    <3>1. pc'[p] = "decode" /\ frame'[p] = frame[p]
      BY <2>5
    <3>2. HoldsStored(p)'
      BY <2>1, <2>2, <3>1 DEF HoldsStored
    <3>3. "read" \in Faults[p] \/ Len(frame'[p]) = Len(data[Path(p)])
      <4>1. Len(frame[p]) \in Nat /\ Len(data[Path(p)]) \in Nat /\ Len(frame[p]) <= Len(data[Path(p)])
        BY <2>1, <2>2, <2>3 DEF HoldsStored
      <4> QED BY <2>5, <3>1, <4>1
    <3> QED BY <2>1, <2>2, <3>1, <3>2, <3>3 DEF KnowsFrame
  <2> QED BY <1>12, <2>4, <2>5 DEF ReadFrame
<1> QED BY <1>1, <1>2, <1>3, <1>4, <1>5, <1>7, <1>8, <1>9, <1>10, <1>11, <1>12 DEF Program

LEMMA StepOneFrame == TInv /\ OneFrame /\ [Next]_vars => OneFrame'
<1> SUFFICES ASSUME TInv, OneFrame, [Next]_vars, NEW q \in Procs, Reading(q)', q \notin dirty'
             PROVE  KnowsFrame(q)'
  BY DEF OneFrame
<1>1. ASSUME NEW p \in Procs, Program(p) \/ Kill(p) \/ Serve(p)
      PROVE  KnowsFrame(q)'
  <2>1. CASE Disturb /\ pc[p] \in WriteSteps /\ pc'[p] \in WriteSteps
    <3>1. q # p
      BY <2>1 DEF Reading
    <3>2. Reading(q)
      BY <1>1, <3>1, StepOfOne DEF OthersSame, Reading
    <3> QED BY <2>1, <3>2 DEF Disturb
  <2>2. CASE UNCHANGED <<node, data>> /\ \A r \in Procs \ {p} : r \in dirty' <=> r \in dirty
    <3>1. CASE q = p
      BY <1>1, <2>2, <3>1, ReaderKnows
    <3>2. CASE q # p
      BY <1>1, <2>2, <3>2, StepOfOne, OthersKnow DEF OthersSame
    <3> QED BY <3>1, <3>2
  <2> QED BY <1>1, <2>1, <2>2, FilesOrDisturb
<1>2. CASE Listen \/ Leave
  <2>1. Disturb /\ pc' = pc
    BY <1>2 DEF Listen, Leave, progVars
  <2> QED BY <2>1 DEF Disturb, Reading
<1>3. CASE UNCHANGED vars
  BY <1>3, OthersKnow DEF vars
<1> QED BY <1>1, <1>2, <1>3 DEF Next, Finished

LEMMA PrefixOf ==
  ASSUME NEW s \in Seq(Items), NEW t \in Seq(Items), Len(t) <= Len(s),
         \A i \in 1..Len(t) : t[i] = s[i]
  PROVE  t = SubSeq(s, 1, Len(t))
<1>1. Len(s) \in Nat /\ Len(t) \in Nat /\ Len(t) <= Len(s)
  OBVIOUS
<1>2. SubSeq(s, 1, Len(t)) \in Seq(Items) /\ Len(SubSeq(s, 1, Len(t))) = Len(t)
  BY <1>1, SubSeqProperties
<1>3. \A i \in 1..Len(t) : SubSeq(s, 1, Len(t))[i] = s[i]
  BY <1>1, SubSeqProperties
<1> QED BY <1>2, <1>3, SeqEqual

LEMMA FrameOfNone == FrameOf(Platform, Received(0)) = <<>>
<1>1. FrameOf(Platform, 0) \in Seq(Items) /\ Len(FrameOf(Platform, 0)) = 0
  BY FrameOfType
<1> QED BY <1>1, ReceivedType, EmptySeq

LEMMA PrintsWhatItKnows ==
  ASSUME TInv, NEW p \in Procs, pc[p] = "decode", KnowsFrame(p), frame[p] # <<>>
  PROVE  LET stored == data[Path(p)]
             n == Len(frame[p]) IN
         IF node[Path(p)] = "file"
         THEN n <= Len(stored) /\ frame[p] = SubSeq(stored, 1, n)
              /\ ("read" \in Faults[p] \/ n = Len(stored))
         ELSE frame[p] \in {FrameOf(Platform, Received(m)) : m \in SentLens}
<1>1. frame[p] \in Seq(Items) /\ Path(p) \in Paths /\ data[Path(p)] \in Seq(Items)
  BY DEF TInv, DataOK, AfterRsp, Path, Responses
<1>2. CASE node[Path(p)] = "file"
  BY <1>1, <1>2, PrefixOf DEF KnowsFrame, HoldsStored
<1>3. CASE node[Path(p)] # "file"
  BY <1>3, FrameOfNone DEF KnowsFrame
<1> QED BY <1>2, <1>3

\* A reader under whom no file changed prints what its path holds: all of a frame file,
\* or a beginning of it when a read failed, or else one message of the platform as far
\* as it fits the buffer (ReadRspAndProcessFrame).
THEOREM PrintsAStoredFrame == Spec => PrintsStoredFrame
<1>1. ASSUME TInv, OneFrame, NEW p \in Procs, Prints(p) /\ p \notin dirty
      PROVE  LET stored == data[Path(p)]
                 n == Len(frame[p]) IN
             IF node[Path(p)] = "file"
             THEN n <= Len(stored) /\ frame[p] = SubSeq(stored, 1, n)
                  /\ ("read" \in Faults[p] \/ n = Len(stored))
             ELSE frame[p] \in {FrameOf(Platform, Received(m)) : m \in SentLens}
  <2>1. pc[p] = "decode" /\ frame[p] # <<>> /\ p \notin dirty
    BY <1>1 DEF Prints
  <2>2. KnowsFrame(p)
    BY <1>1, <2>1 DEF OneFrame, Reading, WriteSteps
  <2> QED BY <1>1, <2>1, <2>2, PrintsWhatItKnows
<1>2. TInv /\ OneFrame /\ [Next]_vars =>
        [\A p \in Procs :
           Prints(p) /\ p \notin dirty =>
             LET stored == data[Path(p)]
                 n == Len(frame[p]) IN
             IF node[Path(p)] = "file"
             THEN n <= Len(stored) /\ frame[p] = SubSeq(stored, 1, n)
                  /\ ("read" \in Faults[p] \/ n = Len(stored))
             ELSE frame[p] \in {FrameOf(Platform, Received(m)) : m \in SentLens}]_vars
  BY <1>1
<1> QED BY <1>2, InitTInv, StepTInv, InitOneFrame, StepOneFrame, PTL DEF Spec, PrintsStoredFrame
-----------------------------------------------------------------------------
\* Only a regular file holds anything, and a writer that is to put data into a file has
\* a regular file there.
OnlyFilesHold ==
  /\ \A f \in Paths : data[f] # <<>> => node[f] = "file"
  /\ \A p \in Procs : /\ pc[p] = "close_rsp" => node[Rsp] = "file"
                      /\ pc[p] = "put_frame" => node[Frame] = "file"

LEMMA InitOnlyFilesHold == Init => OnlyFilesHold
<1> SUFFICES ASSUME Init PROVE OnlyFilesHold
  OBVIOUS
<1>1. PICK s \in Initially : node = s.node /\ data = s.data
  BY DEF Init
<1>2. \A f \in Paths : data[f] # <<>> => node[f] = "file"
  BY <1>1, InitiallyAssumption
<1> QED BY <1>2 DEF Init, OnlyFilesHold, FirstPc

LEMMA StepOnlyFilesHold == TInv /\ OnlyFilesHold /\ [Next]_vars => OnlyFilesHold'
<1> SUFFICES ASSUME TInv, OnlyFilesHold, [Next]_vars PROVE OnlyFilesHold'
  OBVIOUS
<1> USE DEF TInv, TypeOK, DataOK, OnlyFilesHold, Goto, Exit
<1>0. Rsp \in Paths /\ Frame \in Paths /\ Socket \in Paths /\ Rsp # Socket /\ Frame # Socket
  BY PathAssumption DEF Paths
<1>1. ASSUME NEW p \in Procs, OpenRspForWrite(p) \/ OpenFrameForWrite(p)
      PROVE  OnlyFilesHold'
  <2>1. PICK f \in {Rsp, Frame} :
          node' = [node EXCEPT ![f] = "file"] /\ data' = [data EXCEPT ![f] = <<>>]
    BY <1>1 DEF OpenRspForWrite, OpenFrameForWrite, Truncate
  <2>2. \A g \in Paths : node[g] = "file" => node'[g] = "file"
    BY <2>1
  <2>3. \A g \in Paths : data'[g] # <<>> => node'[g] = "file"
    BY <2>1, <2>2
  <2>4. \A q \in Procs \ {p} : pc'[q] = pc[q]
    BY <1>1 DEF OpenRspForWrite, OpenFrameForWrite
  <2>5. /\ pc'[p] = "close_rsp" => node'[Rsp] = "file"
        /\ pc'[p] = "put_frame" => node'[Frame] = "file"
    BY <1>0, <1>1 DEF OpenRspForWrite, OpenFrameForWrite, Truncate
  <2> QED BY <1>0, <2>2, <2>3, <2>4, <2>5
<1>2. ASSUME NEW p \in Procs, CloseRsp(p) PROVE OnlyFilesHold'
  BY <1>0, <1>2 DEF CloseRsp
<1>3. ASSUME NEW p \in Procs, WriteFrame(p) PROVE OnlyFilesHold'
  <2>1. CASE UNCHANGED data
    BY <1>3, <2>1 DEF WriteFrame
  <2>2. CASE \E x : data' = [data EXCEPT ![Frame] = x] /\ UNCHANGED pc
    BY <1>0, <1>3, <2>2 DEF WriteFrame
  <2> QED BY <1>3, <2>1, <2>2 DEF WriteFrame
<1>4. ASSUME NEW p \in Procs, Program(p) \/ Kill(p) \/ Serve(p),
             UNCHANGED <<node, data>>, pc'[p] \notin {"close_rsp", "put_frame"}
      PROVE  OnlyFilesHold'
  BY <1>4, StepOfOne DEF OthersSame
<1>5. ASSUME NEW p \in Procs, OpenFails(p) \/ Decode(p) \/ Kill(p) \/ OpenRsp(p) \/ ReadRsp(p)
      PROVE  OnlyFilesHold'
  <2>1. UNCHANGED <<node, data>> /\ pc'[p] \notin {"close_rsp", "put_frame"}
    BY <1>5 DEF OpenFails, Decode, Kill, OpenRsp, ReadRsp
  <2> QED BY <1>4, <1>5, <2>1 DEF Program
<1>6. ASSUME NEW p \in Procs, Stat(p) \/ OpenSocket(p) \/ Connect(p) \/ Recv(p)
      PROVE  OnlyFilesHold'
  <2>1. UNCHANGED <<node, data>> /\ pc'[p] \notin {"close_rsp", "put_frame"}
    BY <1>6 DEF Stat, OpenSocket, Connect, Recv, SocketFails
  <2> QED BY <1>4, <1>6, <2>1 DEF Program
<1>7. ASSUME NEW p \in Procs, StatAgain(p) \/ OpenFrame(p) \/ ReadFrame(p)
      PROVE  OnlyFilesHold'
  <2>1. UNCHANGED <<node, data>> /\ pc'[p] \notin {"close_rsp", "put_frame"}
    BY <1>7 DEF StatAgain, OpenFrame, ReadFrame
  <2> QED BY <1>4, <1>7, <2>1 DEF Program
<1>8. CASE Listen \/ Leave
  BY <1>0, <1>8 DEF Listen, Leave, progVars
<1>9. CASE UNCHANGED vars \/ \E p \in Procs : Serve(p)
  BY <1>9 DEF vars, Serve
<1> QED BY <1>1, <1>2, <1>3, <1>5, <1>6, <1>7, <1>8, <1>9 DEF Next, Program, Finished

LEMMA DemoStep ==
  ASSUME TInv, OneFrame, OnlyFilesHold, [Next]_vars, NEW q \in Procs,
         Mode[q] = "demo", exit[q] = "running", exit'[q] = "success",
         q \notin dirty, "read" \notin Faults[q],
         data[Rsp] = <<Response(q)>>, data[Frame] = FrameOf(q, FrameLen)
  PROVE  Prints(q) /\ frame[q] = FrameOf(q, FrameLen)
<1>0. exit \in [Procs -> {"running", "success", "failure", "killed"}]
  BY DEF TInv, TypeOK
<1>1. FrameLen \in Nat \ {0} /\ FrameOf(q, FrameLen) \in Seq(Items) /\ Len(FrameOf(q, FrameLen)) = FrameLen
  BY SizeAssumption, FrameOfType
<1>2. ASSUME Decode(q) PROVE Prints(q) /\ frame[q] = FrameOf(q, FrameLen)
  <2>1. pc[q] = "decode" /\ KnowsFrame(q)
    BY <1>2 DEF Decode, OneFrame, Reading, WriteSteps
  <2>2. rsp[q] = Response(q)
    BY <2>1 DEF KnowsFrame, AfterRsp
  <2>3. Path(q) = Frame
    BY <2>2 DEF Path, Response
  <2>4. FrameOf(q, FrameLen) # <<>>
    BY <1>1
  <2>5. node[Path(q)] = "file"
    BY <2>3, <2>4 DEF OnlyFilesHold, Paths
  <2>6. HoldsStored(q) /\ Len(frame[q]) = FrameLen /\ frame[q] \in Seq(Items)
    BY <1>1, <2>1, <2>3, <2>5 DEF KnowsFrame, TInv, DataOK
  <2>7. \A i \in 1..Len(frame[q]) : frame[q][i] = FrameOf(q, FrameLen)[i]
    BY <2>3, <2>6 DEF HoldsStored
  <2>8. frame[q] = FrameOf(q, FrameLen)
    BY <1>1, <2>6, <2>7, SeqEqual
  <2> QED BY <2>1, <2>4, <2>8 DEF Prints
<1>3. ASSUME NEW p \in Procs, Program(p) \/ Kill(p) \/ Serve(p) PROVE Decode(q)
  <2> USE <1>0 DEF Goto, Exit
  <2>0. q = p
    BY <1>3, StepOfOne DEF OthersSame
  <2>1. CASE OpenFails(p) \/ Kill(p) \/ Serve(p)
    BY <2>0, <2>1 DEF OpenFails, Kill, Serve
  <2>2. CASE OpenRspForWrite(p) \/ CloseRsp(p) \/ OpenFrameForWrite(p) \/ WriteFrame(p)
    BY <2>0, <2>2 DEF OpenRspForWrite, CloseRsp, OpenFrameForWrite, WriteFrame
  <2>3. CASE OpenRsp(p) \/ Stat(p) \/ OpenSocket(p) \/ StatAgain(p)
    BY <2>0, <2>3 DEF OpenRsp, Stat, OpenSocket, StatAgain
  <2>4. CASE ReadRsp(p)
    <3>1. <<Response(q)>> # <<>> /\ <<Response(q)>>[1].subscribed
      BY DEF Response
    <3> QED BY <2>0, <2>4, <3>1 DEF ReadRsp
  <2>5. CASE Connect(p) \/ Recv(p)
    BY <2>0, <2>5 DEF Connect, Recv
  <2>6. CASE OpenFrame(p) \/ ReadFrame(p)
    BY <2>0, <2>6 DEF OpenFrame, ReadFrame
  <2> QED BY <1>3, <2>0, <2>1, <2>2, <2>3, <2>4, <2>5, <2>6 DEF Program
<1>4. CASE Listen \/ Leave \/ UNCHANGED vars
  BY <1>4 DEF Listen, Leave, progVars, vars
<1> QED BY <1>2, <1>3, <1>4 DEF Next, Finished

\* --demo, left alone while it reads and with its own files in place, succeeds in one way:
\* by decoding the whole frame it wrote (RunDemo: WriteRspSampleAndFrame, then
\* ReadRspAndProcessFrame).
THEOREM DemoDecodesItsOwn == Spec => DemoDecodesItsFrame
<1>1. TInv /\ OneFrame /\ OnlyFilesHold /\ [Next]_vars =>
        [\A p \in Procs :
           /\ Mode[p] = "demo" /\ exit[p] = "running" /\ exit'[p] = "success"
           /\ p \notin dirty /\ "read" \notin Faults[p]
           /\ data[Rsp] = <<Response(p)>> /\ data[Frame] = FrameOf(p, FrameLen)
           => Prints(p) /\ frame[p] = FrameOf(p, FrameLen)]_vars
  BY DemoStep
<1> QED BY <1>1, InitTInv, StepTInv, InitOneFrame, StepOneFrame, InitOnlyFilesHold,
           StepOnlyFilesHold, PTL DEF Spec, DemoDecodesItsFrame
-----------------------------------------------------------------------------
\* No call is made a second time, whatever fails and whoever changes what lies at a
\* path in between: a program goes on to a later call, or to the next chunk of a
\* frame, of which there are only so many as its own frame or the file has.
CallOrder ==
  [write_rsp |-> 1, close_rsp |-> 2, write_frame |-> 3, put_frame |-> 4, open_rsp |-> 5,
   read_rsp |-> 6, stat |-> 7, socket |-> 8, connect |-> 9, recv |-> 10, restat |-> 11,
   open_frame |-> 12, read_frame |-> 13, decode |-> 14, done |-> 15]
Forward(p) ==
  \/ pc'[p] = pc[p] /\ off'[p] = off[p] /\ frame'[p] = frame[p]
  \/ CallOrder[pc'[p]] > CallOrder[pc[p]]
  \/ pc[p] = "put_frame" /\ pc'[p] = pc[p] /\ off'[p] = off[p] + 1 /\ off'[p] <= FrameLen
  \/ /\ pc[p] = "read_frame" /\ pc'[p] = pc[p]
     /\ Len(frame'[p]) = Len(frame[p]) + 1 /\ Len(frame'[p]) <= Len(data[Path(p)])
CallsGoForward == [][\A p \in Procs : Forward(p)]_vars

LEMMA StepGoesForward ==
  ASSUME TInv, [Next]_vars, NEW q \in Procs
  PROVE  Forward(q)
<1> USE DEF TInv, TypeOK, Goto, Exit, Forward
<1>1. ASSUME NEW p \in Procs, Program(p) \/ Kill(p) \/ Serve(p)
      PROVE  Forward(q)
  <2>1. CASE q # p
    BY <1>1, <2>1, StepOfOne DEF OthersSame
  <2>2. CASE q = p
    <3>1. CASE OpenFails(p)
      BY <2>2, <3>1 DEF OpenFails, CallOrder
    <3>2. CASE OpenRspForWrite(p) \/ CloseRsp(p) \/ OpenFrameForWrite(p)
      BY <2>2, <3>2 DEF OpenRspForWrite, CloseRsp, OpenFrameForWrite, CallOrder
    <3>3. CASE WriteFrame(p)
      <4>1. CASE off[p] < FrameLen /\ off' = [off EXCEPT ![p] = @ + 1] /\ UNCHANGED <<pc, frame>>
        BY <2>2, <3>3, <4>1, SizeAssumption DEF WriteFrame
      <4>2. CASE pc'[p] \in {"open_rsp", "done"}
        BY <2>2, <3>3, <4>2 DEF WriteFrame, CallOrder
      <4> QED BY <3>3, <4>1, <4>2 DEF WriteFrame
    <3>4. CASE OpenRsp(p) \/ ReadRsp(p) \/ Stat(p) \/ OpenSocket(p) \/ StatAgain(p) \/ OpenFrame(p) \/ Decode(p)
      BY <2>2, <3>4 DEF OpenRsp, ReadRsp, Stat, OpenSocket, StatAgain, OpenFrame, Decode, CallOrder
    <3>5. CASE Connect(p) \/ Recv(p)
      BY <2>2, <3>5 DEF Connect, Recv, SocketFails, CallOrder
    <3>6. CASE ReadFrame(p)
      <4>1. CASE /\ Len(frame[p]) < Len(data[Path(p)]) /\ UNCHANGED pc
                 /\ frame' = [frame EXCEPT ![p] = Append(@, data[Path(p)][Len(frame[p]) + 1])]
        <5>1. Path(p) \in Paths /\ data[Path(p)] \in Seq(Items) /\ frame[p] \in Seq(Items)
          BY <3>6 DEF ReadFrame, DataOK, Path, Responses, AfterRsp
        <5>2. frame'[p] = Append(frame[p], data[Path(p)][Len(frame[p]) + 1])
          BY <4>1 DEF DataOK
        <5>3. Len(frame'[p]) = Len(frame[p]) + 1 /\ Len(frame[p]) \in Nat /\ Len(data[Path(p)]) \in Nat
          BY <5>1, <5>2
        <5> QED BY <2>2, <3>6, <4>1, <5>3 DEF ReadFrame
      <4>2. CASE pc'[p] = "decode"
        BY <2>2, <3>6, <4>2 DEF ReadFrame, CallOrder
      <4> QED BY <3>6, <4>1, <4>2 DEF ReadFrame
    <3>7. CASE Kill(p)
      BY <2>2, <3>7 DEF Kill, CallOrder, WriteSteps
    <3>8. CASE Serve(p)
      BY <2>2, <3>8 DEF Serve
    <3> QED BY <1>1, <3>1, <3>2, <3>3, <3>4, <3>5, <3>6, <3>7, <3>8 DEF Program
  <2> QED BY <2>1, <2>2
<1>2. CASE Listen \/ Leave \/ UNCHANGED vars
  BY <1>2 DEF Listen, Leave, progVars, vars
<1> QED BY <1>1, <1>2 DEF Next, Finished

\* The part of OnlyRecvWaits that is not fairness: no call of the program is made twice,
\* so that, with a platform that answers, there is nothing it could do for ever.  A stat
\* that is answered differently the second time sends it on, never back to the socket.
THEOREM NoCallIsRepeated == Spec => CallsGoForward
<1>1. TInv /\ [Next]_vars => [\A p \in Procs : Forward(p)]_vars
  BY StepGoesForward
<1> QED BY <1>1, InitTInv, StepTInv, PTL DEF Spec, CallsGoForward
=============================================================================
