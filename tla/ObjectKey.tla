------------------------------ MODULE ObjectKey ------------------------------
(***************************************************************************)
(* s3_get_object_id_xattr_value of src/app/s3_ops.c: the key under which   *)
(* upload_file stores a file, made from its path.  Tiering takes for       *)
(* granted that two files never share an object; this module says for      *)
(* which paths the code sees to it.                                        *)
(*                                                                         *)
(* A character is a member of a set: only '/' and '-' matter.              *)
(***************************************************************************)
EXTENDS Integers, Sequences

CONSTANTS
  Characters,      \* what a path is made of
  Slash, Dash,     \* '/' and '-'
  S3_MAX_KEY_SIZE,
  Paths            \* the files of the mount point

ASSUME KeyAssumption ==
  /\ Slash \in Characters /\ Dash \in Characters /\ Slash # Dash
  /\ S3_MAX_KEY_SIZE \in Nat \ {0}
  /\ Paths \subseteq Seq(Characters)

\* Mutant: room for the terminating zero is left twice.
key_len_short(path) == IF Len(path) >= S3_MAX_KEY_SIZE THEN S3_MAX_KEY_SIZE - 1 ELSE Len(path)

\* How many characters of the path the key has room for.
key_len(path) == IF Len(path) > S3_MAX_KEY_SIZE THEN S3_MAX_KEY_SIZE ELSE Len(path)

key_char(c) == IF c = Slash THEN Dash ELSE c

\* Mutant: it begins at the end of the path.
key_of_end(path) == [pos \in 1..key_len(path) |-> key_char(path[Len(path) - pos + 1])]

\* The first characters of the path, back to front.
s3_get_object_id_xattr_value(path) ==
  [pos \in 1..key_len(path) |-> key_char(path[key_len(path) - pos + 1])]

\* What the key keeps of a path: its beginning, '/' and '-' being one.
SameBeginning(p, q) ==
  /\ key_len(p) = key_len(q)
  /\ \A i \in 1..key_len(p) : p[i] = q[i] \/ {p[i], q[i]} = {Slash, Dash}

\* The paths that the key tells apart from each other.
Plain(path) == Len(path) <= S3_MAX_KEY_SIZE /\ \A i \in 1..Len(path) : path[i] # Dash

-----------------------------------------------------------------------------
(* Properties *)

\* Two files share an object exactly when their paths begin alike: the end of a long
\* path, where files of one directory differ, never gets into the key.
KeysShared ==
  \A p, q \in Paths :
    s3_get_object_id_xattr_value(p) = s3_get_object_id_xattr_value(q) <=> SameBeginning(p, q)

\* Short paths without '-' never share an object.
PlainApart ==
  \A p, q \in Paths :
    Plain(p) /\ Plain(q)
      /\ s3_get_object_id_xattr_value(p) = s3_get_object_id_xattr_value(q) => p = q
=============================================================================
