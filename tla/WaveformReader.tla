--------------------------- MODULE WaveformReader ---------------------------
(***************************************************************************)
(* examples/waveform_subscribe_and_read.cpp around the decoder: programs   *)
(* that write the sample response and its frame file (--write-rsp-sample), *)
(* that read a response and one frame, from a file or from the platform's  *)
(* SOCK_SEQPACKET socket (--read-rsp), or both (--demo).  Several run at   *)
(* once, on one response path; the platform comes and goes.                *)
(*                                                                         *)
(* A response fits stdio's buffer: it reaches the file when that is        *)
(* closed.  A frame does not: it is written and read in chunks.  Chunk i   *)
(* of the frame of program g is <<g, i>>; only the first has the header.   *)
(***************************************************************************)
EXTENDS Integers, Sequences, FiniteSets

CONSTANTS
  Procs,       \* the programs
  Mode,        \* Mode[p]: "write" (--write-rsp-sample), "read" or "demo"
  Faults,      \* Faults[p]: the calls of p that may fail
  Platform,    \* who sends the frames that come through the socket
  Rsp, Frame, Socket, \* paths: the response, <rsp>.frame, the platform's socket
  SocketTooLong, \* Socket does not fit sockaddr_un
  Initially,   \* the sets of [node, data] the file system may be in at first
  FrameLen,    \* chunks in a sample frame
  SentLens,    \* chunks in the frames the platform may send
  Capacity,    \* chunks that fit the 1 MiB buffer given to recv
  Nothing,     \* in place of a response not read
  MaxMoves     \* bound on the platform's coming and going

Paths == {Rsp, Frame, Socket}
Writers == {p \in Procs : Mode[p] # "read"}
Response(p) == [by |-> p, subscribed |-> TRUE, socket_path |-> Frame]
FrameOf(g, n) == [i \in 1..n |-> <<g, i>>]
Hole == <<>>
Msg(st, n) == [st |-> st, len |-> n]   \* a connection, and the chunks sent on it
NoConn == Msg("none", 0)

ASSUME ModeAssumption ==
  /\ Mode \in [Procs -> {"write", "read", "demo"}] /\ Platform \notin Procs
  /\ Faults \in [Procs -> SUBSET {"open", "flush", "write", "read", "socket", "recv", "kill"}]
ASSUME SizeAssumption ==
  FrameLen \in Nat \ {0} /\ Capacity \in Nat \ {0} /\ MaxMoves \in Nat
  /\ SentLens \subseteq Nat \ {0}
ASSUME PathAssumption == Rsp # Frame /\ Rsp # Socket /\ Frame # Socket

Responses == [by: Procs \cup {Platform}, subscribed: BOOLEAN, socket_path: Paths]
Chunks == ((Procs \cup {Platform}) \X Nat) \cup {Hole}

\* At first too a response is a response, a frame is chunks, and only a file holds any.
ASSUME InitiallyAssumption ==
  \A s \in Initially :
    /\ s.node \in [Paths -> {"absent", "file", "socket"}]
    /\ s.data = [f \in Paths |-> s.data[f]]
    /\ s.data[Rsp] \in Seq(Responses)
    /\ s.data[Frame] \in Seq(Chunks) /\ s.data[Socket] \in Seq(Chunks)
    /\ \A f \in Paths : s.data[f] # <<>> => s.node[f] = "file"

VARIABLES
  node,      \* node[f]: "absent", "file", or "socket" with a listener behind it
  data,      \* data[f]: what file f holds: a response, or chunks of a frame
  pc, exit,
  off,       \* off[p]: chunks of its frame p has written
  rsp,       \* rsp[p]: the response p parsed, or Nothing
  frame,     \* frame[p]: the chunks of the frame p has read
  fd,        \* fd[p]: p has a socket open
  conn,      \* conn[p]: p's connection: "open" until the platform answers, then "sent",
             \* "closed" or "reset"
  moves,
  dirty      \* history: those reading since whose first call a file has changed

progVars == <<pc, exit, off, rsp, frame, fd, conn>>
vars == <<node, data, pc, exit, off, rsp, frame, fd, conn, moves, dirty>>

FirstPc(p) == IF Mode[p] = "read" THEN "open_rsp" ELSE "write_rsp"

Init ==
  /\ \E s \in Initially : node = s.node /\ data = s.data
  /\ pc = [p \in Procs |-> FirstPc(p)]
  /\ exit = [p \in Procs |-> "running"]
  /\ off = [p \in Procs |-> 0]
  /\ rsp = [p \in Procs |-> Nothing]
  /\ frame = [p \in Procs |-> <<>>]
  /\ fd = [p \in Procs |-> FALSE]
  /\ conn = [p \in Procs |-> NoConn]
  /\ moves = 0 /\ dirty = {}

WriteSteps == {"write_rsp", "close_rsp", "write_frame", "put_frame"}
Reading(p) == pc[p] \notin WriteSteps \cup {"open_rsp", "done"}

Goto(p, l) == pc' = [pc EXCEPT ![p] = l]
\* main returns, and its memory goes.
Exit(p, st) ==
  /\ Goto(p, "done") /\ exit' = [exit EXCEPT ![p] = st]
  /\ off' = [off EXCEPT ![p] = 0] /\ rsp' = [rsp EXCEPT ![p] = Nothing]
  /\ frame' = [frame EXCEPT ![p] = <<>>] /\ dirty' = dirty \ {p}
\* A file changed under everyone who is reading.
Disturb == dirty' = dirty \cup {p \in Procs : Reading(p)}

-----------------------------------------------------------------------------
\* ofstream truncates or creates the file.
Truncate(f) ==
  /\ node[f] # "socket"
  /\ node' = [node EXCEPT ![f] = "file"]
  /\ data' = [data EXCEPT ![f] = <<>>]
  /\ Disturb

OpenFails(p) ==
  /\ \/ pc[p] = "write_rsp" /\ ("open" \in Faults[p] \/ node[Rsp] = "socket")
     \/ pc[p] = "write_frame" /\ ("open" \in Faults[p] \/ node[Frame] = "socket")
     \/ pc[p] = "open_rsp" /\ ("open" \in Faults[p] \/ node[Rsp] # "file")
     \/ pc[p] = "open_frame" /\ ("open" \in Faults[p] \/ node[rsp[p].socket_path] # "file")
  /\ Exit(p, "failure")
  /\ UNCHANGED <<node, data, fd, conn, moves>>

OpenRspForWrite(p) ==
  /\ pc[p] = "write_rsp"
  /\ Truncate(Rsp)
  /\ Goto(p, "close_rsp")
  /\ UNCHANGED <<exit, off, rsp, frame, fd, conn, moves>>

\* The stream is good before it is closed: a flush that fails then is not seen.
CloseRsp(p) ==
  /\ pc[p] = "close_rsp"
  /\ \/ /\ data' = [data EXCEPT ![Rsp] = <<Response(p)>>]
        /\ Disturb
     \/ "flush" \in Faults[p] /\ UNCHANGED <<data, dirty>>
  /\ Goto(p, "write_frame")
  /\ UNCHANGED <<node, exit, off, rsp, frame, fd, conn, moves>>

OpenFrameForWrite(p) ==
  /\ pc[p] = "write_frame"
  /\ Truncate(Frame)
  /\ off' = [off EXCEPT ![p] = 0]
  /\ Goto(p, "put_frame")
  /\ UNCHANGED <<exit, rsp, frame, fd, conn, moves>>

\* Content c with chunk x at position n.
PutAt(c, n, x) ==
  [i \in 1..(IF n > Len(c) THEN n ELSE Len(c)) |->
     IF i = n THEN x ELSE IF i <= Len(c) THEN c[i] ELSE Hole]

\* Mutant of WriteFrame: one chunk more than the frame has.
WriteFrameOneMore(p) ==
  /\ pc[p] = "put_frame"
  /\ \/ /\ off[p] <= FrameLen
        /\ data' = [data EXCEPT ![Frame] = PutAt(@, off[p] + 1, <<p, off[p] + 1>>)]
        /\ off' = [off EXCEPT ![p] = @ + 1]
        /\ Disturb
        /\ UNCHANGED <<pc, exit, rsp, frame>>
     \/ off[p] > FrameLen /\ Exit(p, "success") /\ UNCHANGED data
  /\ UNCHANGED <<node, fd, conn, moves>>

WriteFrame(p) ==
  /\ pc[p] = "put_frame"
  /\ \/ /\ off[p] < FrameLen
        /\ data' = [data EXCEPT ![Frame] = PutAt(@, off[p] + 1, <<p, off[p] + 1>>)]
        /\ off' = [off EXCEPT ![p] = @ + 1]
        /\ Disturb
        /\ UNCHANGED <<pc, exit, rsp, frame>>
     \/ /\ off[p] = FrameLen
        /\ IF Mode[p] = "demo" THEN Goto(p, "open_rsp") /\ UNCHANGED <<exit, off, rsp, frame, dirty>>
           ELSE Exit(p, "success")
        /\ UNCHANGED data
     \/ /\ off[p] < FrameLen /\ "write" \in Faults[p]
        /\ Exit(p, "failure")
        /\ UNCHANGED data
  /\ UNCHANGED <<node, fd, conn, moves>>

-----------------------------------------------------------------------------
OpenRsp(p) ==
  /\ pc[p] = "open_rsp" /\ node[Rsp] = "file"
  /\ Goto(p, "read_rsp")
  /\ dirty' = dirty \ {p}
  /\ UNCHANGED <<node, data, exit, off, rsp, frame, fd, conn, moves>>

\* Mutant of ReadRsp: the test for "not subscribed" is inverted.
ReadRspInverted(p) ==
  /\ pc[p] = "read_rsp"
  /\ LET c == data[Rsp] IN
       IF c = <<>> \/ c[1].subscribed
       THEN Exit(p, "success")
       ELSE rsp' = [rsp EXCEPT ![p] = c[1]] /\ Goto(p, "stat") /\ UNCHANGED <<exit, off, frame, dirty>>
  /\ UNCHANGED <<node, data, fd, conn, moves>>

\* Read and parse.  A read that fails looks like the end of the file, and no bytes
\* at all parse as a response whose every field is default: not subscribed.
ReadRsp(p) ==
  /\ pc[p] = "read_rsp"
  /\ \E c \in {data[Rsp]} \cup (IF "read" \in Faults[p] THEN {<<>>} ELSE {}) :
       IF c = <<>> \/ ~c[1].subscribed
       THEN Exit(p, "success")
       ELSE rsp' = [rsp EXCEPT ![p] = c[1]] /\ Goto(p, "stat") /\ UNCHANGED <<exit, off, frame, dirty>>
  /\ UNCHANGED <<node, data, fd, conn, moves>>

Path(p) == rsp[p].socket_path

\* IsRegularFile(rsp.socket_path()), before the socket is tried.
Stat(p) ==
  /\ pc[p] = "stat"
  /\ Goto(p, IF node[Path(p)] = "file" THEN "open_frame" ELSE "socket")
  /\ UNCHANGED <<node, data, exit, off, rsp, frame, fd, conn, moves, dirty>>

OpenSocket(p) ==
  /\ pc[p] = "socket"
  /\ \/ fd' = [fd EXCEPT ![p] = TRUE] /\ Goto(p, "connect")
     \/ "socket" \in Faults[p] /\ Goto(p, "restat") /\ UNCHANGED fd
  /\ UNCHANGED <<node, data, exit, off, rsp, frame, conn, moves, dirty>>

\* Mutant of SocketFails: the descriptor is not closed on the error path.
SocketFailsLeaks(p) ==
  /\ Goto(p, "restat")
  /\ conn' = [conn EXCEPT ![p] = NoConn]
  /\ UNCHANGED fd

\* close(fd) and return false.
SocketFails(p) ==
  /\ Goto(p, "restat")
  /\ fd' = [fd EXCEPT ![p] = FALSE]
  /\ conn' = [conn EXCEPT ![p] = NoConn]

TooLong(f) == f = Socket /\ SocketTooLong

Connect(p) ==
  /\ pc[p] = "connect"
  /\ IF node[Path(p)] = "socket" /\ ~TooLong(Path(p))
     THEN conn' = [conn EXCEPT ![p] = Msg("open", 0)] /\ Goto(p, "recv") /\ UNCHANGED fd
     ELSE SocketFails(p)
  /\ UNCHANGED <<node, data, exit, off, rsp, frame, moves, dirty>>

\* The part of a message of n chunks that fits the buffer.
Received(n) == IF n < Capacity THEN n ELSE Capacity

\* Mutant of Recv: nothing received is taken for "not yet" and recv is called again.
RecvAgain(p) ==
  /\ pc[p] = "recv" /\ conn[p].st \notin {"open", "closed"}
  /\ IF conn[p].st = "reset" THEN SocketFails(p) /\ UNCHANGED frame
     ELSE /\ frame' = [frame EXCEPT ![p] = FrameOf(Platform, conn[p].len)]
          /\ fd' = [fd EXCEPT ![p] = FALSE] /\ conn' = [conn EXCEPT ![p] = NoConn]
          /\ Goto(p, "decode")
  /\ UNCHANGED <<node, data, exit, off, rsp, moves, dirty>>

\* recv returns one message, as much of it as fits the buffer, or nothing when the
\* platform has closed the connection; it has no timeout.
Recv(p) ==
  /\ pc[p] = "recv"
  /\ \/ /\ conn[p].st \in {"closed", "sent"}
        /\ frame' = [frame EXCEPT ![p] = FrameOf(Platform, Received(conn[p].len))]
        /\ fd' = [fd EXCEPT ![p] = FALSE] /\ conn' = [conn EXCEPT ![p] = NoConn]
        /\ Goto(p, "decode")
     \/ /\ conn[p].st = "reset" \/ "recv" \in Faults[p]
        /\ SocketFails(p)
        /\ UNCHANGED frame
  /\ UNCHANGED <<node, data, exit, off, rsp, moves, dirty>>

\* Mutant of StatAgain: the error is thrown without another look at the path.
StatAgainGivesUp(p) ==
  /\ pc[p] = "restat"
  /\ Exit(p, "failure")
  /\ UNCHANGED <<node, data, fd, conn, moves>>

\* The socket failed: a regular file may be there by now, otherwise throw.
StatAgain(p) ==
  /\ pc[p] = "restat"
  /\ IF node[Path(p)] = "file" THEN Goto(p, "open_frame") /\ UNCHANGED <<exit, off, rsp, frame, dirty>>
     ELSE Exit(p, "failure")
  /\ UNCHANGED <<node, data, fd, conn, moves>>

OpenFrame(p) ==
  /\ pc[p] = "open_frame" /\ node[Path(p)] = "file"
  /\ frame' = [frame EXCEPT ![p] = <<>>]
  /\ Goto(p, "read_frame")
  /\ UNCHANGED <<node, data, exit, off, rsp, fd, conn, moves, dirty>>

\* Mutant of ReadFrame: only the first buffer full is read.
ReadFrameOnce(p) ==
  LET have == Len(frame[p]) IN
  /\ pc[p] = "read_frame"
  /\ IF have = 0 /\ have < Len(data[Path(p)])
     THEN frame' = [frame EXCEPT ![p] = Append(@, data[Path(p)][have + 1])] /\ UNCHANGED pc
     ELSE Goto(p, "decode") /\ UNCHANGED frame
  /\ UNCHANGED <<node, data, exit, off, rsp, fd, conn, moves, dirty>>

\* The next chunk; the end of the file, or a read that fails, ends the frame.
ReadFrame(p) ==
  LET have == Len(frame[p]) IN
  /\ pc[p] = "read_frame"
  /\ \/ /\ have < Len(data[Path(p)])
        /\ frame' = [frame EXCEPT ![p] = Append(@, data[Path(p)][have + 1])]
        /\ UNCHANGED pc
     \/ /\ have >= Len(data[Path(p)]) \/ "read" \in Faults[p]
        /\ Goto(p, "decode")
        /\ UNCHANGED frame
  /\ UNCHANGED <<node, data, exit, off, rsp, fd, conn, moves, dirty>>

\* DecodeAndPrintFrame prints frame[p]; "Frame too small" is no failure.
Decode(p) ==
  /\ pc[p] = "decode"
  /\ Exit(p, "success")
  /\ UNCHANGED <<node, data, fd, conn, moves>>

Kill(p) ==
  /\ "kill" \in Faults[p] /\ pc[p] # "done"
  /\ Exit(p, "killed")
  /\ fd' = [fd EXCEPT ![p] = FALSE] /\ conn' = [conn EXCEPT ![p] = NoConn]
  /\ UNCHANGED <<node, data, moves>>

-----------------------------------------------------------------------------
\* The platform starts to listen, or goes: connections nobody served are reset.
Listen ==
  /\ moves < MaxMoves /\ node[Socket] = "absent"
  /\ node' = [node EXCEPT ![Socket] = "socket"]
  /\ moves' = moves + 1 /\ Disturb
  /\ UNCHANGED <<data, progVars>>
Leave ==
  /\ moves < MaxMoves /\ node[Socket] = "socket"
  /\ node' = [node EXCEPT ![Socket] = "absent"]
  /\ conn' = [p \in Procs |-> IF conn[p].st = "open" THEN Msg("reset", 0) ELSE conn[p]]
  /\ moves' = moves + 1 /\ Disturb
  /\ UNCHANGED <<data, pc, exit, off, rsp, frame, fd>>
\* It sends a frame to a connected application, or closes the connection.
Serve(p) ==
  /\ conn[p].st = "open"
  /\ \E a \in {Msg("closed", 0)} \cup {Msg("sent", n) : n \in SentLens} :
       conn' = [conn EXCEPT ![p] = a]
  /\ UNCHANGED <<node, data, pc, exit, off, rsp, frame, fd, moves, dirty>>

Program(p) ==
  \/ OpenFails(p) \/ OpenRspForWrite(p) \/ CloseRsp(p) \/ OpenFrameForWrite(p) \/ WriteFrame(p)
  \/ OpenRsp(p) \/ ReadRsp(p) \/ Stat(p) \/ OpenSocket(p) \/ Connect(p) \/ Recv(p)
  \/ StatAgain(p) \/ OpenFrame(p) \/ ReadFrame(p) \/ Decode(p)

Finished == (\A p \in Procs : pc[p] = "done") /\ UNCHANGED vars
Next == (\E p \in Procs : Program(p) \/ Kill(p) \/ Serve(p)) \/ Listen \/ Leave \/ Finished

\* The programs are scheduled; nothing obliges the platform to answer.
Spec == Init /\ [][Next]_vars /\ \A p \in Procs : WF_vars(Program(p))
-----------------------------------------------------------------------------
TypeOK ==
  /\ node \in [Paths -> {"absent", "file", "socket"}]
  /\ pc \in [Procs -> WriteSteps \cup {"open_rsp", "read_rsp", "stat", "socket", "connect",
               "recv", "restat", "open_frame", "read_frame", "decode", "done"}]
  /\ exit \in [Procs -> {"running", "success", "failure", "killed"}]
  /\ off \in [Procs -> 0..FrameLen]
  /\ fd \in [Procs -> BOOLEAN]
  /\ moves \in 0..MaxMoves
  /\ dirty \in SUBSET Procs

\* A reader that no file changed under prints the frame the response's path holds,
\* and all of it unless a read failed, when that path is a regular file; otherwise
\* one frame the platform sent, as far as it fits the buffer: never part of one
\* and part of another.
Prints(p) == pc[p] = "decode" /\ exit'[p] = "success" /\ frame[p] # <<>>
PrintsStoredFrame ==
  [][\A p \in Procs :
       Prints(p) /\ p \notin dirty =>
         LET stored == data[Path(p)]
             n == Len(frame[p]) IN
         IF node[Path(p)] = "file"
         THEN n <= Len(stored) /\ frame[p] = SubSeq(stored, 1, n)
              /\ ("read" \in Faults[p] \/ n = Len(stored))
         ELSE frame[p] \in {FrameOf(Platform, Received(m)) : m \in SentLens}]_vars

\* --demo, when no other program changes a file while it reads and its own flush
\* was not lost, succeeds only by decoding the whole frame it wrote: "decode
\* exactly as an integrator would".
DemoDecodesItsFrame ==
  [][\A p \in Procs :
       /\ Mode[p] = "demo" /\ exit[p] = "running" /\ exit'[p] = "success"
       /\ p \notin dirty /\ "read" \notin Faults[p]
       /\ data[Rsp] = <<Response(p)>> /\ data[Frame] = FrameOf(p, FrameLen)
       => Prints(p) /\ frame[p] = FrameOf(p, FrameLen)]_vars

\* No path through the socket code, however it fails, leaves the socket open:
\* it is open exactly while p connects and receives.
SocketClosed == \A p \in Procs : fd[p] <=> pc[p] \in {"connect", "recv"}

\* A reader fails only when the response file could not be opened or when it found
\* no regular file at the path and the socket failed too: while a regular file is
\* there it never gives up, whatever the socket does.
FailureExplained ==
  [][\A p \in Procs :
       exit[p] = "running" /\ exit'[p] = "failure" /\ Reading(p) /\ "open" \notin Faults[p]
       => node[Path(p)] # "file"]_vars

\* A program ends, or waits for a platform that never answers: recv is the only
\* call it can wait in for ever.
OnlyRecvWaits ==
  \A p \in Procs : <>[](pc[p] = "done" \/ (pc[p] = "recv" /\ conn[p].st = "open"))
=============================================================================
