------------------------------ MODULE MCTiering ------------------------------
(* Small instances of Tiering for TLC. *)
EXTENDS Tiering, TLC

CONSTANTS f1, f2, u1, u2, d1, c1, c2, v1, v2

MCObjectIds == {"o1", "o2"}
MCObjectIdOf == [f \in Files |-> IF f = f1 THEN "o1" ELSE "o2"]

\* Every fault under which the code keeps the content of files.
MCSafeFaults == FaultKinds \ {"is_local", "extend"}
\* Faults after which upload_file, download_file and clear_xattrs leave both attributes
\* or none, or the file locked.
MCRepairedFaults == FaultKinds \ {"remove_xattr", "lib_clear", "kill"}

MCSymmetry == Permutations(Values) \cup Permutations(Clients)
=============================================================================
