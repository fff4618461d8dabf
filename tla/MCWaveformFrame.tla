-------------------------- MODULE MCWaveformFrame --------------------------
(* Instances of WaveformFrame for TLC.  Bytes are counted in units of the   *)
(* smallest sample: the header is 2 long, an int16 1, a float32 2.  There   *)
(* are frames shorter than the header, with an odd tail, with a time step   *)
(* cut short, with no, one or three channels, one step and more steps than  *)
(* the preview shows; floats include NaN and both infinities.               *)
EXTENDS WaveformFrame

Limit(n) == [ty \in Types |-> IF ty = "INT16" THEN n ELSE 2 * n]
MCMaxOf == Limit(1)
MCLowestOf == Limit(-2)
MCSizes == [ty \in Types |-> CASE ty = "INT16" -> 1 [] ty = "UNSPECIFIED" -> 0
                              [] ty = "FLOAT64" -> 4 [] OTHER -> 2]
Values(ty) == IF ty = "INT16" THEN {-2, 0, 1} ELSE {NaN, -5, 0, 3}

Frame(size, ty, c, s) ==
  [size |-> size, type |-> ty, channels |-> c, voltage |-> IF c = 3 THEN 1 ELSE c, samples |-> s]
FramesOf(ty, sizes, counts) ==
  UNION {{Frame(n, ty, c, s) : s \in [1..((n - 2) \div MCSizes[ty]) -> Values(ty)]} :
         n \in sizes, c \in counts}

MCFrames ==
  {Frame(1, "INT16", 1, <<>>), Frame(4, "UNSPECIFIED", 1, <<>>)} \cup
  FramesOf("INT16", {2, 4, 7}, {0, 1, 2, 3}) \cup
  FramesOf("FLOAT32", {5, 8, 10}, {1, 2})

\* The streams of the repository's own example have one voltage channel; a
\* three-phase meter has three.
ScaleFrames == {[f EXCEPT !.voltage = v] : f \in FramesOf("INT16", {8}, {3}), v \in {1, 2, 3}}
=============================================================================
