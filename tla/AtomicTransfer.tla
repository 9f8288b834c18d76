--------------------------- MODULE AtomicTransfer ---------------------------
(***************************************************************************)
(* What upload_file and download_file take s3_upload and s3_download for   *)
(* (src/app/ops.c, the comments on both in src/app/s3_ops.c), and what     *)
(* upload_put and the chunks of a download are in Tiering: calls that move *)
(* a whole file or report an error.                                        *)
(***************************************************************************)
CONSTANTS
  Contents,  \* what a file may hold
  Absent     \* the object of a file never stored

VARIABLES
  file,    \* the file
  object,  \* its object, or Absent
  call,    \* the call under way, or none
  done,    \* whether it has moved everything
  result   \* what the last call returned

Init ==
  /\ file \in Contents
  /\ object = Absent
  /\ call = "none" /\ done = FALSE /\ result = "-1"

Begin(function) ==
  /\ call = "none"
  /\ \/ call' = function /\ result' = "pending"
     \/ call' = "none" /\ result' = "-1"
  /\ UNCHANGED <<object, done>>

Upload(f) == Begin("upload") /\ file' = f

\* The file is a stub, whatever there is in it.
Download == Begin("download") /\ object # Absent

\* An error may hide that the object was stored, and the request is repeated.
Store ==
  /\ call = "upload" /\ ~done
  /\ object' = file /\ done' \in BOOLEAN
  /\ UNCHANGED <<file, call, result>>

\* The file is torn until the last block has come.
Fetch ==
  /\ call = "download" /\ ~done
  /\ done' \in BOOLEAN /\ (done' => file' = object)
  /\ UNCHANGED <<object, call, result>>

Succeed ==
  /\ call # "none" /\ done
  /\ call' = "none" /\ done' = FALSE /\ result' = "0"
  /\ UNCHANGED <<file, object>>

Fail ==
  /\ call # "none"
  /\ call' = "none" /\ done' = FALSE /\ result' = "-1"
  /\ call = "upload" => UNCHANGED file
  /\ UNCHANGED object

Next ==
  \/ \E f \in Contents : Upload(f)
  \/ Download \/ Store \/ Fetch \/ Succeed \/ Fail

Spec == Init /\ [][Next]_<<file, object, call, done, result>>
=============================================================================
