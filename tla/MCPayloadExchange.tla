------------------------- MODULE MCPayloadExchange -------------------------
(* Instances of PayloadExchange for TLC.  Two binaries of a writer (an old *)
(* and a new build, say) share the files of one family with a reader.      *)
EXTENDS PayloadExchangeStore, TLC

CONSTANTS new, old, rd, f1, f2, k1, k2, tmp

Msg(f, k) == [path |-> f, kind |-> k]
MCDirOf == [f \in Paths |-> tmp]
MCSize == [g \in Gens |-> IF g = <<new, k1>> THEN 2 ELSE 1]

\* new --demo, old in default mode and rd --demo, over files an earlier run of
\* the old binary left behind.
OverlapWrites == (new :> <<Msg(f1, k1), Msg(f2, k2)>>) @@ (old :> <<Msg(f1, k1)>>) @@ (rd :> <<>>)
OverlapReads == (new :> <<Msg(f1, k1)>>) @@ (old :> <<>>) @@ (rd :> <<Msg(f1, k1)>>)
OverlapBefore == (f1 :> NoGen) @@ (f2 :> <<old, k2>>)
NoOutDir == [p \in Procs |-> NoDir]

\* The metered writers: each creates the output directory, which may be missing
\* or be a plain file, and writes its set of two; new --demo then walks the set.
SetWrites == [p \in Procs |-> <<Msg(f1, k1), Msg(f2, k2)>>]
SetReads == (new :> <<Msg(f1, k1), Msg(f2, k2)>>) @@ (old :> <<>>)
SetOutDir == [p \in Procs |-> tmp]
NothingBefore == [f \in Paths |-> NoGen]
=============================================================================
