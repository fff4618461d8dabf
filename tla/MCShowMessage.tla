----------------------------- MODULE MCShowMessage -----------------------------
(***************************************************************************)
(* Messages for ShowMessage.  Of each type: one that is full, every choice *)
(* of at most two fields, and of all but one; the full one with a single   *)
(* field changed - a scalar with presence sent as zero, a string to one    *)
(* with quotes or a control character, a double to NaN, a uint64 to 2^63   *)
(* or more, an enumeration to each of its members and to one no header     *)
(* knows, an array to 0, 1, 2, as many elements as fit and one more, a     *)
(* submessage or the last element of an array to each message of its own   *)
(* type.  Every scalar's value tells where it belongs.                     *)
(***************************************************************************)
EXTENDS ShowMessage

Fields(T) ==
  Types[T].plain \cup Types[T].optional \cup DOMAIN Types[T].sub \cup DOMAIN Types[T].many

\* A scalar's value: the path of names that leads to it.
At(p, f) == p \o "." \o f

RECURSIVE Full(_, _)
Full(T, p) ==
  LET ty == Types[T]
      fields == IF T \in Oneofs THEN {"string_value"} ELSE Fields(T)
  IN [f \in fields |->
        CASE f \in DOMAIN ty.sub -> Full(ty.sub[f], At(p, f))
          [] f \in DOMAIN ty.many ->
               [i \in 1 .. 2 |-> Full(ty.many[f], At(p, f) \o ToString(i))]
          [] <<T, f>> \in DOMAIN Enums -> CHOOSE e \in Enums[<<T, f>>] : TRUE
          [] OTHER -> At(p, f)]

SomeFields(T) ==
  {{}} \cup {{f, g} : f, g \in Fields(T)} \cup {Fields(T) \ {f} : f \in Fields(T)}

\* The special values of a scalar.
Special(T, f) ==
  (IF f \in Types[T].optional THEN {Zero} ELSE {})
  \cup (IF <<T, f>> \in Texts THEN {Quotes, Control} ELSE {})
  \cup (IF <<T, f>> \in Doubles THEN {NaN} ELSE {})
  \cup (IF <<T, f>> \in Unsigned64 THEN {Big} ELSE {})

RECURSIVE Variants(_, _)
Variants(T, p) ==
  LET ty == Types[T]
      full == Full(T, p)
      Changed(f, v) == (f :> v) @@ full
      Elements(f, n) == [i \in 1 .. n |-> Full(ty.many[f], At(p, f) \o ToString(i))]
      Unequal(f) == {Changed(f, v) : v \in Variants(ty.sub[f], At(p, f))}
      LastUnequal(f) == {Changed(f, <<full[f][1], v>>) : v \in Variants(ty.many[f], At(p, f) \o "2")}
  IN IF T \in Oneofs
     THEN {Empty} \cup UNION {{f :> v : v \in {At(p, "value")} \cup Special(T, f)}
                                : f \in ty.optional}
     ELSE {full}
       \cup {[f \in c |-> full[f]] : c \in SomeFields(T)}
       \cup UNION {{Changed(f, v) : v \in Special(T, f)} : f \in ty.plain \cup ty.optional}
       \cup UNION {{Changed(f, e) : e \in Enums[<<T, f>>] \cup {"from a later version"}}
                     : f \in {g \in ty.plain : <<T, g>> \in DOMAIN Enums}}
       \cup UNION {{Changed(f, Elements(f, n)) : n \in {1, MaxCount[f], MaxCount[f] + 1}}
                     : f \in DOMAIN ty.many}
       \cup UNION {Unequal(f) : f \in DOMAIN ty.sub}
       \cup UNION {LastUnequal(f) : f \in DOMAIN ty.many}

MCSent(T) == Variants(T, T)
=============================================================================
