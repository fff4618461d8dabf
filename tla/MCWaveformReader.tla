-------------------------- MODULE MCWaveformReader --------------------------
(* An instance of WaveformReader for TLC: --demo, --write-rsp-sample and    *)
(* --read-rsp on the standard path at once.  At first there is nothing, or  *)
(* a captured response (subscribed, or not), with the platform listening or *)
(* not, or with a frame file where its socket would be.                     *)
EXTENDS WaveformReader, TLC

CONSTANTS dm, wr, rd

MCMode == (dm :> "demo") @@ (wr :> "write") @@ (rd :> "read")
MCFaults == (dm :> {"write"}) @@ (wr :> {"kill", "flush"}) @@ (rd :> {"read", "socket"})

Captured(s) == [by |-> Platform, subscribed |-> s, socket_path |-> Socket]
Files(r, s) ==
  [node |-> (Rsp :> IF r = <<>> THEN "absent" ELSE "file") @@ (Frame :> "absent") @@ (Socket :> s),
   data |-> (Rsp :> r) @@ (Frame :> <<>>)
            @@ (Socket :> IF s = "file" THEN FrameOf(Platform, 2) ELSE <<>>)]
MCInitially ==
  {Files(<<>>, "file"), Files(<<Captured(FALSE)>>, "file")}
  \cup {Files(<<Captured(TRUE)>>, s) : s \in {"absent", "file", "socket"}}
=============================================================================
