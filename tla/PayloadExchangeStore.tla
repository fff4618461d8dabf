------------------------ MODULE PayloadExchangeStore ------------------------
(***************************************************************************)
(* PayloadExchange as an implementation of PayloadStore.  A path's         *)
(* register holds a message when nobody writes the file and it holds the   *)
(* whole of the message it was last opened for, and nothing when the file  *)
(* does not exist; a program is writing between fopen "wb" and fclose, and *)
(* reading between fopen "rb" and fclose.                                  *)
(***************************************************************************)
EXTENDS PayloadExchange

CONSTANTS Nothing, Torn, Idle

ASSUME StoreAssumption ==
  /\ Idle \notin Paths
  /\ Torn # Nothing
  /\ \A g \in Gens \cup {NoGen} : Content(g) # Nothing

Stored(f) ==
  IF f \notin exists THEN Nothing
  ELSE IF WritersOf(f) = {} /\ f \notin mixed /\ data[f] = Content(lastw[f])
       THEN data[f] ELSE Torn
Writing(p) == IF pc[p] \in WriteSteps THEN WStep(p).path ELSE Idle
Reading(p) == IF pc[p] \in ReadSteps THEN RStep(p).path ELSE Idle

storedBar == [f \in Paths |-> Stored(f)]
writingBar == [p \in Procs |-> Writing(p)]
readingBar == [p \in Procs |-> Reading(p)]

\* The messages p's plan writes to f.
MessagesOf == [p \in Procs |-> [f \in Paths |->
  {Payload(GenAt(p, i)) : i \in {j \in 1..Len(Writes[p]) : FileAt(p, j) = f}}]]
InitiallyOf == [f \in Paths |-> IF Before[f] = NoGen THEN Nothing ELSE Content(Before[f])]

Store == INSTANCE PayloadStore WITH
  Messages <- MessagesOf, Initially <- InitiallyOf,
  stored <- storedBar, writing <- writingBar, reading <- readingBar,
  shared <- mixed, stale <- dirty, reported <- wrote, got <- printed

\* The calls on files behave as whole reads and writes of registers whose writes
\* are not atomic (the programs of PayloadExchange when no write to a file fails).
StoreSpec == Store!Spec
=============================================================================
