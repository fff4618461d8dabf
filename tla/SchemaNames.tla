----------------------------- MODULE SchemaNames -----------------------------
(***************************************************************************)
(* How scripts/validate-example-schemas.mjs names schema files: a name is  *)
(* <<directory, base>>, the root directory is "".  A $ref is a record: dir *)
(* and base as it writes the file (base "" for none), hash, whether it has *)
(* a "#", and, in JsonSchema, what follows the "#".                        *)
(***************************************************************************)

EXTENDS Sequences

\* path.normalize(path.join(path.dirname(n), file)).
Join(n, r) ==
  IF n[1] = "" THEN <<r.dir, r.base>>
  ELSE IF r.dir = ".." THEN <<"", r.base>>
  ELSE IF r.dir = "" THEN <<n[1], r.base>> ELSE <<n[1] \o "/" \o r.dir, r.base>>

AsWritten(r) == <<r.dir, r.base>>

\* The schema resolveRef finds for a $ref of schema n, {} if none: without a
\* "#" the name as it is written; with one the normalised name, and if that is
\* not loaded the name as it is written.
Lookup(loaded, n, r) ==
  IF ~r.hash THEN {AsWritten(r)} \cap loaded
  ELSE IF r.base = "" THEN {n} \cap loaded
  ELSE IF Join(n, r) \in loaded THEN {Join(n, r)} ELSE {AsWritten(r)} \cap loaded
=============================================================================
