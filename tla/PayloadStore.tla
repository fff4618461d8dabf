---------------------------- MODULE PayloadStore ----------------------------
(***************************************************************************)
(* What exchanging messages through files promises, without calls, chunks  *)
(* or buffers: each path is a register that is not written atomically.     *)
(* A write that returns true, alone on its path, leaves its message; while *)
(* a write is under way, after one that was cut short, and after writes    *)
(* that overlapped, the path is torn and promises nothing.  A read that no *)
(* write touched returns the message the path holds.                       *)
(***************************************************************************)
EXTENDS Integers, Sequences

CONSTANTS Procs, Paths,
  Messages,   \* Messages[p][f]: the messages p may write to f
  Initially,  \* Initially[f]: the message in f at first, or Nothing
  Nothing, Torn, Idle

VARIABLES
  stored,     \* stored[f]: the message in f, Nothing or Torn
  writing,    \* writing[p]: the path p is writing, or Idle
  reading,    \* reading[p]: the path p is reading, or Idle
  shared,     \* the paths whose last writes overlapped
  stale,      \* the programs whose last read overlapped a write
  reported,   \* reported[p]: how many writes have returned true
  got         \* got[p]: the messages p's reads returned

vars == <<stored, writing, reading, shared, stale, reported, got>>

Init ==
  /\ stored = Initially
  /\ writing = [p \in Procs |-> Idle]
  /\ reading = [p \in Procs |-> Idle]
  /\ shared = {} /\ stale = {}
  /\ reported = [p \in Procs |-> 0]
  /\ got = [p \in Procs |-> <<>>]

Writers(f) == {p \in Procs : writing[p] = f}
Readers(f) == {p \in Procs : reading[p] = f}

BeginWrite(p, f) ==
  /\ writing[p] = Idle /\ reading[p] = Idle
  /\ writing' = [writing EXCEPT ![p] = f]
  /\ stored' = [stored EXCEPT ![f] = Torn]
  /\ shared' = IF Writers(f) = {} THEN shared \ {f} ELSE shared \cup {f}
  /\ stale' = stale \cup Readers(f)
  /\ UNCHANGED <<reading, reported, got>>

\* The write returns true; alone on its path, it has stored its message.
EndWrite(p) ==
  /\ writing[p] # Idle
  /\ writing' = [writing EXCEPT ![p] = Idle]
  /\ reported' = [reported EXCEPT ![p] = @ + 1]
  /\ \E v \in IF writing[p] \in shared THEN {Torn} ELSE Messages[p][writing[p]] :
       stored' = [stored EXCEPT ![writing[p]] = v]
  /\ UNCHANGED <<reading, shared, stale, got>>

\* The write fails or the program dies in it.
AbortWrite(p) ==
  /\ writing[p] # Idle
  /\ writing' = [writing EXCEPT ![p] = Idle]
  /\ \E v \in {Torn} \cup
         IF writing[p] \in shared THEN {} ELSE Messages[p][writing[p]] :
       stored' = [stored EXCEPT ![writing[p]] = v]
  /\ UNCHANGED <<reading, shared, stale, reported, got>>

BeginRead(p, f) ==
  /\ writing[p] = Idle /\ reading[p] = Idle /\ stored[f] # Nothing
  /\ reading' = [reading EXCEPT ![p] = f]
  /\ stale' = IF Writers(f) = {} THEN stale \ {p} ELSE stale \cup {p}
  /\ UNCHANGED <<stored, writing, shared, reported, got>>

EndRead(p) ==
  LET v == got'[p][Len(got'[p])] IN
  /\ reading[p] # Idle
  /\ reading' = [reading EXCEPT ![p] = Idle]
  /\ Len(got'[p]) = Len(got[p]) + 1
  /\ got' = [got EXCEPT ![p] = Append(@, v)]
  /\ p \notin stale /\ stored[reading[p]] # Torn => v = stored[reading[p]]
  /\ UNCHANGED <<stored, writing, shared, stale, reported>>

AbortRead(p) ==
  /\ reading[p] # Idle
  /\ reading' = [reading EXCEPT ![p] = Idle]
  /\ UNCHANGED <<stored, writing, shared, stale, reported, got>>

Next ==
  \E p \in Procs :
    \/ \E f \in Paths : BeginWrite(p, f) \/ BeginRead(p, f)
    \/ EndWrite(p) \/ AbortWrite(p) \/ EndRead(p) \/ AbortRead(p)

Spec == Init /\ [][Next]_vars
=============================================================================
