------------------------------- MODULE JsonText -------------------------------
(***************************************************************************)
(* Reading a sequence of JSON tokens: whether it is one JSON document, and *)
(* what the document says.  A pushdown automaton over the tokens of        *)
(* MessagePrinters, with the grammar of RFC 8259: it knows what may come   *)
(* next, which arrays and objects are open, and where it is in them.       *)
(*                                                                         *)
(* What a document says is the sequence of its leaves: each value with the *)
(* names and positions that lead to it, and each object or array with its  *)
(* own.                                                                    *)
(***************************************************************************)
EXTENDS Naturals, Sequences, TLC, SequencesExt

\* What the printers may write that is neither a JSON string nor a number: a string with
\* raw quotes or a raw control character, and printf's "nan" (or "inf").
NotJson == {"quotes", "control character", "nan"}

\* The value that a JSON string or number stands for.
Meant(v) == IF v = "escaped quotes" THEN "quotes" ELSE v

\* next: "value", "item" (or ]), "member" (or }), "name", "more" (or a closing bracket),
\* "end" or "error".  An open object is 0, an open array the position reached in it.
Reading == [next |-> "value", open |-> <<>>, path |-> <<>>, leaves |-> <<>>]

Error(r) == [r EXCEPT !.next = "error"]

Note(r, v) == Append(r.leaves, <<r.path, v>>)

Closed(r, open, path) ==
  [r EXCEPT !.next = IF open = <<>> THEN "end" ELSE "more", !.open = open, !.path = path]

ReadValue(r, v) == [Closed(r, r.open, r.path) EXCEPT !.leaves = Note(r, Meant(v))]

OpenObject(r) ==
  [r EXCEPT !.next = "member", !.open = Append(@, 0), !.leaves = Note(r, "{")]

OpenArray(r) ==
  [r EXCEPT !.next = "item", !.open = Append(@, 1), !.path = Append(@, "1"),
            !.leaves = Note(r, "[")]

ReadName(r, n) == [r EXCEPT !.next = "value", !.path = Append(@, n)]

Another(r) ==
  LET i == Last(r.open)
  IN IF i = 0 THEN [r EXCEPT !.next = "name", !.path = Front(@)]
     ELSE [r EXCEPT !.next = "value", !.open = Append(Front(@), i + 1),
                    !.path = Append(Front(@), ToString(i + 1))]

CloseObject(r) ==
  Closed(r, Front(r.open), IF r.next = "member" THEN r.path ELSE Front(r.path))

CloseArray(r) == Closed(r, Front(r.open), Front(r.path))

ReadToken(r, t) ==
  CASE t[1] = "value" /\ r.next \in {"value", "item"} /\ t[2] \notin NotJson -> ReadValue(r, t[2])
    [] t[1] = "{" /\ r.next \in {"value", "item"} -> OpenObject(r)
    [] t[1] = "[" /\ r.next \in {"value", "item"} -> OpenArray(r)
    [] t[1] = "name" /\ r.next \in {"member", "name"} -> ReadName(r, t[2])
    [] t[1] = "," /\ r.next = "more" -> Another(r)
    [] t[1] = "}" /\ r.next = "member" -> CloseObject(r)
    [] t[1] = "}" /\ r.next = "more" /\ Last(r.open) = 0 -> CloseObject(r)
    [] t[1] = "]" /\ r.next = "item" -> CloseArray(r)
    [] t[1] = "]" /\ r.next = "more" /\ Last(r.open) > 0 -> CloseArray(r)
    [] OTHER -> Error(r)

\* Tokens first to last, by halves: the automaton stops at the first error.
RECURSIVE ReadOn(_, _, _, _)
ReadOn(r, tokens, first, last) ==
  IF first = last THEN ReadToken(r, tokens[first])
  ELSE LET middle == (first + last) \div 2
           half == ReadOn(r, tokens, first, middle)
       IN IF half.next = "error" THEN half ELSE ReadOn(half, tokens, middle + 1, last)

Read(tokens) == IF tokens = <<>> THEN Reading ELSE ReadOn(Reading, tokens, 1, Len(tokens))

\* One document, no object of which has two members of one name.
IsDocument(tokens) ==
  LET r == Read(tokens)
  IN /\ r.next = "end"
     /\ Cardinality({leaf[1] : leaf \in ToSet(r.leaves)}) = Len(r.leaves)

Says(tokens) == ToSet(Read(tokens).leaves)
=============================================================================
