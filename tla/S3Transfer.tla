----------------------------- MODULE S3Transfer -----------------------------
(***************************************************************************)
(* s3_upload and s3_download of src/app/s3_ops.c: a whole file or object   *)
(* moves through a stdio stream, block by block, from and to libs3, whose  *)
(* request the code repeats while its status is retryable.                 *)
(*                                                                         *)
(* A block is what one call of a data callback moves.  The daemon calls    *)
(* one of the two functions at a time on a file it has locked.             *)
(***************************************************************************)
EXTENDS Integers, Sequences

CONSTANTS
  Blocks,       \* what a block may hold
  MaxBlocks,    \* the longest file, in blocks
  Retries,      \* s3_operation_retries
  TransientAt,  \* phases of a request in which a retryable error may hit it
  FatalAt       \* phases in which another error may

Zeros  == "zeros"
Absent == <<"absent">>
Phases == {"local", "connect", "body", "answer"}

ASSUME TransferAssumption ==
  /\ MaxBlocks \in Nat
  /\ Retries \in Int
  /\ {Zeros, "absent"} \cap Blocks = {}
  /\ TransientAt \subseteq Phases \ {"local"}
  /\ FatalAt \subseteq Phases

VARIABLES
  file,           \* the blocks of the local file
  object,         \* the blocks of its object in the store, or Absent
  op,             \* the function that runs, or ran last
  pc,             \* its next step
  pos,            \* offset of its stdio stream
  contentLength,  \* put_object_data.content_length: blocks still to send
  body,           \* blocks the current request has moved
  retries,        \* its local counter
  attempts,       \* history: requests made, up to Retries + 2
  status,         \* callback_data.status
  result          \* what the last call returned

stream  == <<pos, contentLength>>
control == <<op, pc, retries, attempts, status, result>>
vars    == <<file, object, stream, body, control>>

Contents == UNION {[1..n -> Blocks] : n \in 0..MaxBlocks}
ZerosOf(n) == [i \in 1..n |-> Zeros]

Init ==
  /\ file \in Contents
  /\ object = Absent
  /\ op = "none" /\ pc = "idle" /\ pos = 0 /\ contentLength = 0 /\ body = <<>>
  /\ retries = 0 /\ attempts = 0 /\ status = "OK" /\ result = "-1"

At(s) == pc = s

\* dup, fdopen and, for an upload, fstat: the stream begins at offset 0 of the
\* descriptor that upload_file or download_file has just opened.
Begin(function, length) ==
  /\ op' = function
  /\ pos' = 0 /\ contentLength' = length /\ body' = <<>>
  /\ retries' = Retries /\ attempts' = 0 /\ status' = "OK"
  /\ \/ pc' = "request" /\ result' = "pending"
     \/ "local" \in FatalAt /\ pc' = "idle" /\ result' = "-1"

\* Mutant: the last block of the file is not counted.
s3_upload_short(f) ==
  /\ At("idle")
  /\ file' = f
  /\ Begin("upload", IF f = <<>> THEN 0 ELSE Len(f) - 1)
  /\ UNCHANGED object

\* The application has written the file since.
s3_upload(f) ==
  /\ At("idle")
  /\ file' = f
  /\ Begin("upload", Len(f))
  /\ UNCHANGED object

\* The file is a stub: upload_file has left zeros of the original length.
s3_download ==
  /\ At("idle") /\ object # Absent
  /\ file' = ZerosOf(Len(object))
  /\ Begin("download", 0)
  /\ UNCHANGED object

-----------------------------------------------------------------------------
(* One request of libs3.  s3_response_complete_callback stores its status. *)

FailsAt(phase) ==
  /\ pc' = "retry"
  /\ \/ phase \in TransientAt /\ status' = "retryable"
     \/ phase \in FatalAt /\ status' = "error"

\* S3_put_object with what content_length is by now, or S3_get_object.
request ==
  /\ At("request")
  /\ attempts' = IF attempts < Retries + 2 THEN attempts + 1 ELSE attempts
  /\ body' = <<>>
  /\ \/ pc' = op /\ UNCHANGED status
     \/ FailsAt("connect")
  /\ UNCHANGED <<file, object, stream, op, retries, result>>

\* Mutant: content_length goes down by the size of the buffer.
s3_put_object_data_callback_overcounting ==
  /\ At("upload")
  /\ contentLength' = contentLength - 1
  /\ \/ /\ contentLength > 0
        /\ pos' = pos + 1 /\ body' = Append(body, file[pos + 1]) /\ UNCHANGED pc
     \/ contentLength <= 0 /\ pc' = "answer" /\ UNCHANGED <<pos, body>>
  /\ UNCHANGED <<file, object, op, retries, attempts, status, result>>

\* It reads on from the current offset of the stream, and ends the data when
\* content_length has come down to 0.
s3_put_object_data_callback ==
  /\ At("upload")
  /\ \/ /\ contentLength > 0
        /\ contentLength' = contentLength - 1
        /\ pos' = pos + 1
        /\ body' = Append(body, file[pos + 1])
        /\ UNCHANGED pc
     \/ contentLength = 0 /\ pc' = "answer" /\ UNCHANGED <<stream, body>>
  /\ UNCHANGED <<file, object, op, retries, attempts, status, result>>

\* fwrite at the current offset of the stream.
Write(blocks, i, b) ==
  [k \in 1..(IF i > Len(blocks) THEN i ELSE Len(blocks)) |-> IF k = i THEN b ELSE blocks[k]]

\* Mutant of s3_get_object_data_callback: an object that ends early is not an error.
s3_get_object_data_callback_short ==
  /\ At("download")
  /\ \/ /\ Len(body) < Len(object)
        /\ file' = Write(file, pos + 1, object[Len(body) + 1])
        /\ pos' = pos + 1
        /\ body' = Append(body, object[Len(body) + 1])
        /\ UNCHANGED <<pc, status>>
     \/ /\ pc' = "retry" /\ status' = "OK"
        /\ UNCHANGED <<file, pos, body>>
  /\ UNCHANGED <<object, contentLength, op, retries, attempts, result>>

s3_get_object_data_callback ==
  /\ At("download")
  /\ \/ /\ Len(body) < Len(object)
        /\ file' = Write(file, pos + 1, object[Len(body) + 1])
        /\ pos' = pos + 1
        /\ body' = Append(body, object[Len(body) + 1])
        /\ UNCHANGED <<pc, status>>
     \/ /\ body = object /\ pc' = "retry" /\ status' = "OK"
        /\ UNCHANGED <<file, pos, body>>
  /\ UNCHANGED <<object, contentLength, op, retries, attempts, result>>

\* The connection breaks, or a callback gives up, after some blocks have moved.
request_breaks ==
  /\ At("upload") \/ At("download")
  /\ body # <<>>
  /\ FailsAt("body")
  /\ UNCHANGED <<file, object, stream, body, op, retries, attempts, result>>

\* The store has the whole body.  An error may hide that it was stored.
store_answers ==
  /\ At("answer")
  /\ \/ object' = body /\ pc' = "retry" /\ status' = "OK"
     \/ object' \in {object, body} /\ FailsAt("answer")
  /\ UNCHANGED <<file, stream, body, op, retries, attempts, result>>

-----------------------------------------------------------------------------
\* Mutant: the counter is tested and never counted down.
retry_uncounted ==
  /\ At("retry")
  /\ pc' = IF status = "retryable" /\ retries # 0 THEN "request" ELSE "close"
  /\ UNCHANGED <<file, object, stream, body, op, retries, attempts, status, result>>

\* while (S3_status_is_retryable(status) && --retries): neither the offset of the
\* stream nor content_length is what it was before the first request.
retry ==
  /\ At("retry")
  /\ \/ /\ status = "retryable"
        /\ retries' = retries - 1
        /\ pc' = IF retries' # 0 THEN "request" ELSE "close"
     \/ status # "retryable" /\ pc' = "close" /\ UNCHANGED retries
  /\ UNCHANGED <<file, object, stream, body, op, attempts, status, result>>

\* Mutant: only the result of fclose is looked at.
close_ignoring_status ==
  /\ At("close")
  /\ pc' = "idle"
  /\ \/ result' = "0" /\ UNCHANGED file
     \/ /\ "local" \in FatalAt /\ result' = "-1"
        /\ \/ UNCHANGED file
           \/ op = "download" /\ body # <<>> /\ file' = [file EXCEPT ![pos] = Zeros]
  /\ UNCHANGED <<object, stream, body, op, retries, attempts, status>>

\* fclose writes out the last block of a download, which may fail.
close ==
  /\ At("close")
  /\ pc' = "idle"
  /\ \/ result' = (IF status = "OK" THEN "0" ELSE "-1") /\ UNCHANGED file
     \/ /\ "local" \in FatalAt /\ result' = "-1"
        /\ \/ UNCHANGED file
           \/ op = "download" /\ body # <<>> /\ file' = [file EXCEPT ![pos] = Zeros]
  /\ UNCHANGED <<object, stream, body, op, retries, attempts, status>>

transfer ==
  \/ request \/ s3_put_object_data_callback \/ s3_get_object_data_callback
  \/ request_breaks \/ store_answers \/ retry \/ close

Next ==
  \/ \E f \in Contents : s3_upload(f)
  \/ s3_download
  \/ transfer

Spec == Init /\ [][Next]_vars

\* A request ends: libs3 gives up a connection that moves no data.
FairSpec == Spec /\ WF_vars(transfer)

-----------------------------------------------------------------------------
(* Properties *)

TypeOK ==
  /\ file \in Seq(Blocks \cup {Zeros})
  /\ object = Absent \/ object \in Seq(Blocks \cup {Zeros})
  /\ op \in {"none", "upload", "download"}
  /\ pc \in {"idle", "request", "upload", "download", "answer", "retry", "close"}
  /\ pos \in Nat
  /\ contentLength \in Nat
  /\ body \in Seq(Blocks \cup {Zeros})
  /\ retries \in Int
  /\ attempts \in Nat
  /\ status \in {"OK", "retryable", "error"}
  /\ result \in {"0", "-1", "pending"}

\* "0: file's data has been successfully uploaded to s3 remote storage" (s3_upload),
\* "0: file's data has been successfully downloaded" (s3_download): upload_file
\* evicts the file and download_file hands it out on the strength of this result.
TransferWhole == At("idle") /\ result = "0" => file = object

\* An object is only ever replaced by the whole file, also when the call fails: a
\* later upload of the same file must not find its old object cut short.
ObjectWhole == [][object' # object => object' = file]_vars

\* "maximum number of retries of s3 requests" (conf.h): with a positive value a call
\* makes at most s3_operation_retries requests, the first one among them.
RetriesBounded == attempts <= Retries

\* Every call returns, however often the store answers with a retryable error.
CallReturns == [](pc # "idle" => <>(pc = "idle"))

-----------------------------------------------------------------------------
(* The contract of both functions *)

Call == IF pc = "idle" THEN "none" ELSE op
Done == pc \in {"retry", "close"} /\ status = "OK"

Contract == INSTANCE AtomicTransfer WITH call <- Call, done <- Done

\* upload_file and download_file go by one bit: 0 means that this very call has moved the
\* whole file, -1 that the old object is there or the new one, and the file torn at worst.
Atomic == Contract!Spec
=============================================================================
