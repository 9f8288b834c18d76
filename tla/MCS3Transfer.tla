---------------------------- MODULE MCS3Transfer ----------------------------
(* Small instances of S3Transfer, and of ObjectKey, for TLC. *)
EXTENDS S3Transfer, ObjectKey

CONSTANTS b1, b2, slash, dash, letter

MCPhases == Phases
MCTransientPhases == Phases \ {"local"}

\* Paths shorter than a key, as long as one, and longer.
MCPaths == UNION {[1..n -> Characters] : n \in 1..S3_MAX_KEY_SIZE + 1}
=============================================================================
