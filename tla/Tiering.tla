------------------------------- MODULE Tiering -------------------------------
(***************************************************************************)
(* The file tiering protocol of CloudTieringFS: what the transfer threads  *)
(* of the daemon (upload_file and download_file of src/app/ops.c) and the  *)
(* open() wrapper of the preloaded library (src/lib) do to a file, one     *)
(* system call or storage request per step.                                *)
(*                                                                         *)
(* A file is its content and three extended attributes: stub (the content  *)
(* is in the object store), locked (a transfer is in progress) and         *)
(* object_id (the key of the object).  Contents are abstract: a member of  *)
(* Values is what an application wrote, all of one non-zero length.        *)
(***************************************************************************)
EXTENDS FiniteSets

CONSTANTS
  Files,        \* regular files below the mount point
  Uploaders,    \* threads that run upload_file
  Downloaders,  \* threads that run download_file
  Clients,      \* application threads that open files through the library
  Values,       \* contents an application writes
  ObjectIds,    \* keys of the object store
  ObjectIdOf,   \* s3_get_object_id_xattr_value: the key made from a path
  Faults        \* calls that may fail although their arguments are right, crash and kill

Empty  == "empty"   \* length zero
Hole   == "hole"    \* the original length, all zeros
Torn   == "torn"    \* an incomplete download
NoId   == "no object_id"
Absent == "absent"
Spoiled == "spoiled"  \* a content that nothing is promised of
NoFile == "no file"

FaultKinds == {"try_lock", "is_local", "upload", "set_xattr", "fstat", "truncate", "extend",
               "get_xattr", "download", "remove_xattr", "lib_is_local", "lib_push", "lib_clear",
               "crash", "kill"}

Workers == Uploaders \cup Downloaders
Content == Values \cup {Empty, Hole, Torn}
Modes   == {"read", "write", "trunc"}

ASSUME ConstantsAssumption ==
  /\ Uploaders \cap Downloaders = {}
  /\ {Empty, Hole, Torn, Absent, Spoiled} \cap Values = {}
  /\ NoFile \notin Files
  /\ NoId \notin ObjectIds
  /\ Faults \subseteq FaultKinds

ASSUME KeysAssumption == ObjectIdOf \in [Files -> ObjectIds]

\* When the content of files is safe: no two files share a key, which
\* s3_get_object_id_xattr_value does not guarantee, and the two calls whose
\* failure the code answers wrongly succeed.
Protected ==
  /\ \A f, g \in Files : ObjectIdOf[f] = ObjectIdOf[g] => f = g
  /\ {"is_local", "extend"} \cap Faults = {}

VARIABLES
  data,      \* local content of each file
  stub,      \* whether user.cloudtiering.stub is set
  locked,    \* whether user.cloudtiering.locked is set
  objectId,  \* value of user.cloudtiering.object_id, or NoId
  store,     \* the object store: content of each key, or Absent
  pc,        \* the next call of each transfer thread
  target,    \* the file a transfer thread has open
  key,       \* its object_id buffer
  seen,      \* what it has read: bytes to send, stat_buf, bytes received
  cpc,       \* where each client is in open(), or that it has the file open
  cfile,     \* the file a client opens
  cmode,     \* the flags it opens it with
  expected,  \* history: contents an application may find in each file
  overlapped \* history: files a client could modify during a transfer

disk    == <<data, stub, locked, objectId>>
worker  == <<pc, target, key, seen>>
client  == <<cpc, cfile, cmode>>
history == <<expected, overlapped>>
vars    == <<disk, store, worker, client, history>>

\* Steps of a transfer that read or change the content or its location; after
\* them (rm_oid, unlock) a client cannot disturb the transfer any more.
DataSteps == {"check", "read", "put", "set_oid", "set_stub", "fstat", "truncate", "extend",
              "undo_oid", "undo_stub", "get_oid", "fetch", "write", "rm_stub"}
LockSteps == DataSteps \cup {"rm_oid", "unlock"}
Steps     == LockSteps \cup {"idle", "lock"}
OpenSteps == {"closed", "check", "clear_stub", "clear_oid", "clear_oid_eio", "wait", "open"}

Transferring(f) == \E w \in Workers : target[w] = f /\ pc[w] \in DataSteps

\* A client can change f: it truncates it while opening it, or has it open for writing.
Modifying(f) ==
  \E c \in Clients :
    /\ cfile[c] = f
    /\ \/ cmode[c] = "trunc" /\ cpc[c] # "closed"
       \/ cmode[c] = "write" /\ cpc[c] = "open"

Init ==
  /\ data \in [Files -> Values]
  /\ stub = [f \in Files |-> FALSE]
  /\ locked = [f \in Files |-> FALSE]
  /\ objectId = [f \in Files |-> NoId]
  /\ store = [o \in ObjectIds |-> Absent]
  /\ pc = [w \in Workers |-> "idle"]
  /\ target = [w \in Workers |-> NoFile]
  /\ key = [w \in Workers |-> NoId]
  /\ seen = [w \in Workers |-> Empty]
  /\ cpc = [c \in Clients |-> "closed"]
  /\ cfile = [c \in Clients |-> NoFile]
  /\ cmode = [c \in Clients |-> "read"]
  /\ expected = [f \in Files |-> {data[f]}]
  /\ overlapped = {}

-----------------------------------------------------------------------------
(* Shared steps of the transfer threads *)

At(w, s) == pc[w] = s
Goto(w, s) == pc' = [pc EXCEPT ![w] = s]
Fault(k) == k \in Faults
Return(w) ==
  /\ pc' = [pc EXCEPT ![w] = "idle"]
  /\ target' = [target EXCEPT ![w] = NoFile]
  /\ key' = [key EXCEPT ![w] = NoId]
  /\ seen' = [seen EXCEPT ![w] = Empty]

\* open(path, O_RDWR) succeeds.
Start(w, f) ==
  /\ At(w, "idle")
  /\ Goto(w, "lock")
  /\ target' = [target EXCEPT ![w] = f]
  /\ UNCHANGED <<disk, store, key, seen, client, history>>

\* Mutant of try_lock_file: fsetxattr(locked) without XATTR_CREATE.
try_lock_file_replacing(w) ==
  /\ At(w, "lock")
  /\ locked' = [locked EXCEPT ![target[w]] = TRUE]
  /\ Goto(w, "check")
  /\ overlapped' = IF Modifying(target[w]) THEN overlapped \cup {target[w]} ELSE overlapped
  /\ UNCHANGED <<data, stub, objectId, store, target, key, seen, client, expected>>

\* fsetxattr(locked, XATTR_CREATE) is atomic: it fails when the attribute is there.
try_lock_file(w) ==
  /\ At(w, "lock")
  /\ ~locked[target[w]]
  /\ locked' = [locked EXCEPT ![target[w]] = TRUE]
  /\ Goto(w, "check")
  /\ overlapped' = IF Modifying(target[w]) THEN overlapped \cup {target[w]} ELSE overlapped
  /\ UNCHANGED <<data, stub, objectId, store, target, key, seen, client, expected>>

try_lock_file_fails(w) ==
  /\ At(w, "lock")
  /\ locked[target[w]] \/ Fault("try_lock")
  /\ Return(w)
  /\ UNCHANGED <<disk, store, client, history>>

\* A failing fremovexattr(locked) is logged and ignored: the lock stays.
unlock_file(w) ==
  /\ At(w, "unlock")
  /\ \/ locked' = [locked EXCEPT ![target[w]] = FALSE]
     \/ Fault("remove_xattr") /\ UNCHANGED locked
  /\ Return(w)
  /\ UNCHANGED <<data, stub, objectId, store, client, history>>

\* remove_xattr(object_id), the last call before unlocking: the clean-up of a
\* failed set_xattr(stub) in upload_file, the end of download_file.
remove_object_id(w) ==
  /\ At(w, "rm_oid")
  /\ \/ objectId' = [objectId EXCEPT ![target[w]] = NoId]
     \/ Fault("remove_xattr") /\ UNCHANGED objectId
  /\ Goto(w, "unlock")
  /\ UNCHANGED <<data, stub, locked, store, target, key, seen, client, history>>

\* The answers is_local_file may give the daemon: 1 without the stub attribute, 0
\* with it, -1 when the attribute cannot be read.
is_local_file_fd(f) ==
  {IF stub[f] THEN "0" ELSE "1"} \cup {a \in {"-1"} : Fault("is_local")}

-----------------------------------------------------------------------------
(* upload_file *)

\* Mutant of upload_is_local: the location of the file is not looked at.
upload_is_local_ignored(w) ==
  /\ w \in Uploaders /\ At(w, "check")
  /\ Goto(w, "read")
  /\ UNCHANGED <<disk, store, target, key, seen, client, history>>

\* `if (!is_local_file(fd))` takes -1 for local.
upload_is_local(w) ==
  /\ w \in Uploaders /\ At(w, "check")
  /\ \E answer \in is_local_file_fd(target[w]) :
       \/ answer # "0" /\ Goto(w, "read")
       \/ answer = "0" /\ Goto(w, "unlock")
  /\ UNCHANGED <<disk, store, target, key, seen, client, history>>

\* s3_upload reads the file while it sends it; dup, fstat or fdopen may fail before.
upload_read(w) ==
  /\ At(w, "read")
  /\ \/ /\ Goto(w, "put")
        /\ key' = [key EXCEPT ![w] = ObjectIdOf[target[w]]]
        /\ seen' = [seen EXCEPT ![w] = data[target[w]]]
     \/ Fault("upload") /\ Goto(w, "unlock") /\ UNCHANGED <<key, seen>>
  /\ UNCHANGED <<disk, store, target, client, history>>

\* Mutant of upload_put: the status of the request is not looked at.
upload_put_unchecked(w) ==
  /\ At(w, "put") /\ Goto(w, "set_oid")
  /\ \/ store' = [store EXCEPT ![key[w]] = seen[w]]
     \/ Fault("upload") /\ UNCHANGED store
  /\ UNCHANGED <<disk, target, key, seen, client, history>>

\* S3_put_object replaces the object at once.  An error may hide a request
\* that the store executed.
upload_put(w) ==
  /\ At(w, "put")
  /\ \/ store' = [store EXCEPT ![key[w]] = seen[w]] /\ Goto(w, "set_oid")
     \/ /\ Fault("upload") /\ Goto(w, "unlock")
        /\ store' \in {store, [store EXCEPT ![key[w]] = seen[w]]}
  /\ UNCHANGED <<disk, target, key, seen, client, history>>

\* XATTR_CREATE fails when the attribute is already there.
upload_set_object_id(w) ==
  /\ At(w, "set_oid")
  /\ \/ /\ objectId[target[w]] = NoId
        /\ objectId' = [objectId EXCEPT ![target[w]] = key[w]]
        /\ Goto(w, "set_stub")
     \/ /\ objectId[target[w]] # NoId \/ Fault("set_xattr")
        /\ Goto(w, "unlock") /\ UNCHANGED objectId
  /\ UNCHANGED <<data, stub, locked, store, target, key, seen, client, history>>

\* Mutant of upload_set_stub: its failure path is the one of ftruncate.
upload_set_stub_undoing(w) ==
  /\ At(w, "set_stub")
  /\ \/ ~stub[target[w]] /\ stub' = [stub EXCEPT ![target[w]] = TRUE] /\ Goto(w, "fstat")
     \/ /\ stub[target[w]] \/ Fault("set_xattr")
        /\ Goto(w, "undo_oid") /\ UNCHANGED stub
  /\ UNCHANGED <<data, locked, objectId, store, target, key, seen, client, history>>

upload_set_stub(w) ==
  /\ At(w, "set_stub")
  /\ \/ ~stub[target[w]] /\ stub' = [stub EXCEPT ![target[w]] = TRUE] /\ Goto(w, "fstat")
     \/ /\ stub[target[w]] \/ Fault("set_xattr")
        /\ Goto(w, "rm_oid") /\ UNCHANGED stub
  /\ UNCHANGED <<data, locked, objectId, store, target, key, seen, client, history>>

\* Mutant of upload_fstat: its failure path returns at once.
upload_fstat_returning(w) ==
  /\ At(w, "fstat")
  /\ \/ /\ seen' = [seen EXCEPT ![w] = data[target[w]]] /\ Goto(w, "truncate")
        /\ UNCHANGED <<target, key>>
     \/ Fault("fstat") /\ Return(w)
  /\ UNCHANGED <<disk, store, client, history>>

\* The failure path unlocks and removes no attribute.
upload_fstat(w) ==
  /\ At(w, "fstat")
  /\ \/ seen' = [seen EXCEPT ![w] = data[target[w]]] /\ Goto(w, "truncate")
     \/ Fault("fstat") /\ Goto(w, "unlock") /\ UNCHANGED seen
  /\ UNCHANGED <<disk, store, target, key, client, history>>

upload_truncate(w) ==
  /\ At(w, "truncate")
  /\ \/ data' = [data EXCEPT ![target[w]] = Empty] /\ Goto(w, "extend")
     \/ Fault("truncate") /\ Goto(w, "undo_oid") /\ UNCHANGED data
  /\ UNCHANGED <<stub, locked, objectId, store, target, key, seen, client, history>>

\* ftruncate to a length the file already has changes nothing.
Extended(old, size) == IF old = Empty /\ size # Empty THEN Hole ELSE old

upload_extend(w) ==
  /\ At(w, "extend")
  /\ \/ /\ data' = [data EXCEPT ![target[w]] = Extended(@, seen[w])]
        /\ Goto(w, "unlock")
     \/ Fault("extend") /\ Goto(w, "undo_oid") /\ UNCHANGED data
  /\ UNCHANGED <<stub, locked, objectId, store, target, key, seen, client, history>>

upload_undo_object_id(w) ==
  /\ At(w, "undo_oid")
  /\ \/ objectId' = [objectId EXCEPT ![target[w]] = NoId]
     \/ Fault("remove_xattr") /\ UNCHANGED objectId
  /\ Goto(w, "undo_stub")
  /\ UNCHANGED <<data, stub, locked, store, target, key, seen, client, history>>

upload_undo_stub(w) ==
  /\ At(w, "undo_stub")
  /\ \/ stub' = [stub EXCEPT ![target[w]] = FALSE]
     \/ Fault("remove_xattr") /\ UNCHANGED stub
  /\ Goto(w, "unlock")
  /\ UNCHANGED <<data, locked, objectId, store, target, key, seen, client, history>>

-----------------------------------------------------------------------------
(* download_file *)

\* Here -1 is taken for local too, and the download is not done.
download_is_local(w) ==
  /\ w \in Downloaders /\ At(w, "check")
  /\ \E answer \in is_local_file_fd(target[w]) :
       \/ answer = "0" /\ Goto(w, "get_oid")
       \/ answer # "0" /\ Goto(w, "unlock")
  /\ UNCHANGED <<disk, store, target, key, seen, client, history>>

\* Mutant of download_get_object_id: a missing attribute is not an error.
download_get_any_object_id(w) ==
  /\ At(w, "get_oid")
  /\ \/ key' = [key EXCEPT ![w] = objectId[target[w]]] /\ Goto(w, "fetch")
     \/ Fault("get_xattr") /\ Goto(w, "unlock") /\ UNCHANGED key
  /\ UNCHANGED <<disk, store, target, seen, client, history>>

download_get_object_id(w) ==
  /\ At(w, "get_oid")
  /\ \/ /\ objectId[target[w]] # NoId
        /\ key' = [key EXCEPT ![w] = objectId[target[w]]]
        /\ Goto(w, "fetch")
     \/ /\ objectId[target[w]] = NoId \/ Fault("get_xattr")
        /\ Goto(w, "unlock") /\ UNCHANGED key
  /\ UNCHANGED <<disk, store, target, seen, client, history>>

\* The object is written over the file from its start, chunk by chunk as it
\* arrives: the file is torn after the first chunk.  An empty object writes nothing.
\* The last chunk may be in the file although the call reports an error (fclose).
Written(old, object, new) == IF object = Empty THEN old ELSE new

download_first_chunk(w) ==
  /\ At(w, "fetch")
  /\ \/ /\ store[key[w]] # Absent
        /\ seen' = [seen EXCEPT ![w] = store[key[w]]]
        /\ data' = [data EXCEPT ![target[w]] = Written(@, store[key[w]], Torn)]
        /\ Goto(w, "write")
     \/ /\ store[key[w]] = Absent \/ Fault("download")
        /\ Goto(w, "unlock") /\ UNCHANGED <<data, seen>>
  /\ UNCHANGED <<stub, locked, objectId, store, target, key, client, history>>

\* Mutant of download_last_chunk: the result of download() is not looked at.
download_last_chunk_unchecked(w) ==
  /\ At(w, "write")
  /\ \/ data' = [data EXCEPT ![target[w]] = Written(@, seen[w], seen[w])]
     \/ Fault("download") /\ UNCHANGED data
  /\ Goto(w, "rm_stub")
  /\ UNCHANGED <<stub, locked, objectId, store, target, key, seen, client, history>>

download_last_chunk(w) ==
  /\ At(w, "write")
  /\ \/ /\ data' = [data EXCEPT ![target[w]] = Written(@, seen[w], seen[w])]
        /\ Goto(w, "rm_stub")
     \/ /\ Fault("download") /\ Goto(w, "unlock")
        /\ data' \in {data, [data EXCEPT ![target[w]] = Written(@, seen[w], seen[w])]}
  /\ UNCHANGED <<stub, locked, objectId, store, target, key, seen, client, history>>

\* Mutant of download_remove_stub: object_id is left behind.
download_remove_stub_only(w) ==
  /\ At(w, "rm_stub")
  /\ \/ stub[target[w]] /\ stub' = [stub EXCEPT ![target[w]] = FALSE]
     \/ (~stub[target[w]] \/ Fault("remove_xattr")) /\ UNCHANGED stub
  /\ Goto(w, "unlock")
  /\ UNCHANGED <<data, locked, objectId, store, target, key, seen, client, history>>

\* fremovexattr of an attribute that is not there is an error here.
download_remove_stub(w) ==
  /\ At(w, "rm_stub")
  /\ \/ stub[target[w]] /\ stub' = [stub EXCEPT ![target[w]] = FALSE] /\ Goto(w, "rm_oid")
     \/ /\ ~stub[target[w]] \/ Fault("remove_xattr")
        /\ Goto(w, "unlock") /\ UNCHANGED stub
  /\ UNCHANGED <<data, locked, objectId, store, target, key, seen, client, history>>

\* The daemon is killed or its machine stops between two calls: the threads are
\* gone, the attributes persist.  The clients of a stopped machine exit as well.
\* After a failed ftruncate upload_file itself may bring the daemon down: its
\* message formats a descriptor by %s.
Crash ==
  /\ \/ Fault("crash") /\ \E w \in Workers : ~At(w, "idle")
     \/ \E w \in Uploaders : At(w, "undo_oid")
  /\ pc' = [w \in Workers |-> "idle"]
  /\ target' = [w \in Workers |-> NoFile]
  /\ key' = [w \in Workers |-> NoId]
  /\ seen' = [w \in Workers |-> Empty]
  /\ UNCHANGED <<disk, store, client, history>>

-----------------------------------------------------------------------------
(* The library's open() and the application that calls it *)

CAt(c, s) == cpc[c] = s
CGoto(c, s) == cpc' = [cpc EXCEPT ![c] = s]
CReturn(c) ==
  /\ cpc' = [cpc EXCEPT ![c] = "closed"]
  /\ cfile' = [cfile EXCEPT ![c] = NoFile]
  /\ cmode' = [cmode EXCEPT ![c] = "read"]

\* The history of a file that c gains the power to modify.
Overlap(f, modifies) ==
  overlapped' = IF modifies /\ Transferring(f) THEN overlapped \cup {f} ELSE overlapped

\* open() hands the descriptor to the application.
Opened(c) == CGoto(c, "open") /\ Overlap(cfile[c], cmode[c] = "write")

\* The wrapper makes the real call first: O_TRUNC is in force before the library
\* knows where the content is.  Until open() returns both contents are legal.
real_open(c, f, m) ==
  /\ CAt(c, "closed")
  /\ CGoto(c, "check")
  /\ cfile' = [cfile EXCEPT ![c] = f]
  /\ cmode' = [cmode EXCEPT ![c] = m]
  /\ \/ /\ m = "trunc"
        /\ data' = [data EXCEPT ![f] = Empty]
        /\ expected' = [expected EXCEPT ![f] = IF stub[f] THEN @ \cup {Empty} ELSE {Empty}]
     \/ m # "trunc" /\ UNCHANGED <<data, expected>>
  /\ Overlap(f, m = "trunc")
  /\ UNCHANGED <<stub, locked, objectId, store, worker>>

\* The answers is_local_file may give the library; it asks by fsetxattr for a
\* descriptor that is write-only, and again by path when that is not permitted.
is_local_file(f) ==
  {IF stub[f] THEN "0" ELSE "1"} \cup {a \in {"-1"} : Fault("lib_is_local")}

\* schedule_download maps the queue, if that is not done, and waits for room in it.
schedule_download(c) ==
  \/ CGoto(c, "wait") /\ UNCHANGED <<cfile, cmode>>
  \/ Fault("lib_push") /\ CReturn(c)

\* Mutant of finish_open_common: `if (ret)` takes -1 for local, as upload_file does.
finish_open_common_boolean(c) ==
  /\ CAt(c, "check")
  /\ \E answer \in is_local_file(cfile[c]) :
       \/ answer # "0" /\ Opened(c) /\ UNCHANGED <<cfile, cmode>>
       \/ /\ answer = "0" /\ cmode[c] = "trunc" /\ CGoto(c, "clear_stub")
          /\ UNCHANGED <<cfile, cmode, overlapped>>
       \/ answer = "0" /\ cmode[c] # "trunc" /\ schedule_download(c) /\ UNCHANGED overlapped
  /\ UNCHANGED <<disk, store, worker, expected>>

\* finish_open_common up to its first change.  Its error returns do not close
\* the descriptor, which the application never learns of.
finish_open_common(c) ==
  /\ CAt(c, "check")
  /\ \E answer \in is_local_file(cfile[c]) :
       \/ answer = "1" /\ Opened(c) /\ UNCHANGED <<cfile, cmode>>
       \/ /\ answer = "0" /\ cmode[c] = "trunc" /\ CGoto(c, "clear_stub")
          /\ UNCHANGED <<cfile, cmode, overlapped>>
       \/ answer = "0" /\ cmode[c] # "trunc" /\ schedule_download(c) /\ UNCHANGED overlapped
       \/ answer = "-1" /\ CReturn(c) /\ UNCHANGED overlapped
  /\ UNCHANGED <<disk, store, worker, expected>>

\* Mutant of poll_file_location: it asks once, as `while (ret == 0)` left out would.
poll_file_location_once(c) ==
  /\ CAt(c, "wait") /\ Opened(c)
  /\ UNCHANGED <<disk, store, worker, expected, cfile, cmode>>

\* poll_file_location calls is_local_file until it answers something else than remote.
poll_file_location(c) ==
  /\ CAt(c, "wait")
  /\ \E answer \in is_local_file(cfile[c]) :
       \/ answer = "1" /\ Opened(c) /\ UNCHANGED <<cfile, cmode>>
       \/ answer = "-1" /\ CReturn(c) /\ UNCHANGED overlapped
  /\ UNCHANGED <<disk, store, worker, expected>>

\* clear_xattrs ignores ENOATTR; after another failure it goes on and reports
\* EIO.  A stub that goes leaves the truncated content as the only one.
clear_stub(c) ==
  /\ CAt(c, "clear_stub")
  /\ \/ /\ stub' = [stub EXCEPT ![cfile[c]] = FALSE]
        /\ expected' = [expected EXCEPT ![cfile[c]] = IF stub[cfile[c]] THEN {Empty} ELSE @]
        /\ CGoto(c, "clear_oid")
     \/ Fault("lib_clear") /\ CGoto(c, "clear_oid_eio") /\ UNCHANGED <<stub, expected>>
  /\ UNCHANGED <<data, locked, objectId, store, worker, cfile, cmode, overlapped>>

clear_object_id(c) ==
  /\ cpc[c] \in {"clear_oid", "clear_oid_eio"}
  /\ \/ /\ objectId' = [objectId EXCEPT ![cfile[c]] = NoId]
        /\ \/ CAt(c, "clear_oid") /\ Opened(c) /\ UNCHANGED <<cfile, cmode>>
           \/ CAt(c, "clear_oid_eio") /\ CReturn(c) /\ UNCHANGED overlapped
     \/ Fault("lib_clear") /\ CReturn(c) /\ UNCHANGED <<objectId, overlapped>>
  /\ UNCHANGED <<data, stub, locked, store, worker, expected>>

\* The application replaces the content through a descriptor it may write to.
app_write(c, v) ==
  /\ CAt(c, "open") /\ cmode[c] # "read"
  /\ data' = [data EXCEPT ![cfile[c]] = v]
  /\ expected' = [expected EXCEPT ![cfile[c]] = {v}]
  /\ UNCHANGED <<stub, locked, objectId, store, worker, client, overlapped>>

\* close(), or the process is killed wherever it is.
app_exit(c) ==
  /\ CAt(c, "open") \/ (~CAt(c, "closed") /\ Fault("kill"))
  /\ CReturn(c)
  /\ UNCHANGED <<disk, store, worker, history>>

-----------------------------------------------------------------------------
upload_file(w) ==
  \/ upload_is_local(w) \/ upload_read(w) \/ upload_put(w)
  \/ upload_set_object_id(w) \/ upload_set_stub(w)
  \/ upload_fstat(w) \/ upload_truncate(w) \/ upload_extend(w)
  \/ upload_undo_object_id(w) \/ upload_undo_stub(w)

download_file(w) ==
  \/ download_is_local(w) \/ download_get_object_id(w)
  \/ download_first_chunk(w) \/ download_last_chunk(w) \/ download_remove_stub(w)

transfer(w) ==
  \/ try_lock_file(w) \/ try_lock_file_fails(w)
  \/ upload_file(w) \/ download_file(w)
  \/ remove_object_id(w) \/ unlock_file(w)

open(c) ==
  \/ finish_open_common(c) \/ poll_file_location(c)
  \/ clear_stub(c) \/ clear_object_id(c)

Next ==
  \/ \E w \in Workers, f \in Files : Start(w, f)
  \/ \E w \in Workers : transfer(w)
  \/ \E c \in Clients, f \in Files, m \in Modes : real_open(c, f, m)
  \/ \E c \in Clients : open(c)
  \/ \E c \in Clients, v \in Values : app_write(c, v)
  \/ \E c \in Clients : app_exit(c)
  \/ Crash

Spec == Init /\ [][Next]_vars

-----------------------------------------------------------------------------
(* Properties *)

\* Every variable has its type, a thread past open() has a file, and a key is
\* an object_id whenever upload_file or download_file passes one on.
TypeOK ==
  /\ data \in [Files -> Content]
  /\ stub \in [Files -> BOOLEAN]
  /\ locked \in [Files -> BOOLEAN]
  /\ objectId \in [Files -> ObjectIds \cup {NoId}]
  /\ store \in [ObjectIds -> Content \cup {Absent}]
  /\ pc \in [Workers -> Steps]
  /\ target \in [Workers -> Files \cup {NoFile}]
  /\ key \in [Workers -> ObjectIds \cup {NoId}]
  /\ seen \in [Workers -> Content]
  /\ cpc \in [Clients -> OpenSteps]
  /\ cfile \in [Clients -> Files \cup {NoFile}]
  /\ cmode \in [Clients -> Modes]
  /\ expected \in [Files -> SUBSET Content]
  /\ overlapped \in SUBSET Files
  /\ \A w \in Workers : pc[w] # "idle" => target[w] \in Files
  /\ \A w \in Workers : pc[w] \in {"put", "set_oid", "fetch"} => key[w] \in ObjectIds
  /\ \A c \in Clients : cpc[c] # "closed" => cfile[c] \in Files

Holding(w) == pc[w] \in LockSteps

\* The extended attribute user.cloudtiering.locked is a lock: no two transfer
\* threads are ever past try_lock_file on one file, and the attribute is there
\* until its owner removes it, whatever call fails and wherever the daemon dies.
LockExclusive ==
  \A w \in Workers : Holding(w) =>
    /\ locked[target[w]]
    /\ \A v \in Workers \ {w} : Holding(v) => target[v] # target[w]

\* No content is lost: what an application last wrote is in the file, or in the
\* object its object_id names, at every instant of upload_file and download_file,
\* after every failed call and every crash.
NoLoss ==
  \A f \in Files \ overlapped :
    \/ data[f] \in expected[f]
    \/ objectId[f] # NoId /\ store[objectId[f]] \in expected[f]

\* A file without the stub attribute, which open() hands out without a download,
\* is whole: never the zeros of an upload nor a torn download.
LocalIntact ==
  \A f \in Files \ overlapped : ~stub[f] => data[f] \in expected[f]

\* "failures in the cleanup functions are impossible as long as the program's
\* logic is correct" (upload_file, download_file): the attribute that a clean-up
\* or the end of a download removes is there.
CleanupPossible ==
  \A w \in Workers : target[w] \notin overlapped =>
    /\ At(w, "unlock") => locked[target[w]]
    /\ pc[w] \in {"rm_oid", "undo_oid"} => objectId[target[w]] # NoId
    /\ pc[w] \in {"rm_stub", "undo_stub"} => stub[target[w]]

\* upload_file evicts the content of a file only when the store has that very
\* content under the object_id of the file and the file is marked remote.
EvictOnlyStored ==
  [][\A w \in Workers : At(w, "truncate") /\ pc'[w] = "extend" =>
       \/ target[w] \in overlapped
       \/ /\ stub[target[w]] /\ objectId[target[w]] # NoId
          /\ store[objectId[target[w]]] = data[target[w]]]_vars

\* upload_file gives up a file that "is already in the remote storage": what the
\* store has for a remote file stays, however often the scanner finds the file again.
RemoteObjectKept ==
  [][\A f \in Files :
       stub[f] /\ objectId[f] # NoId => store'[objectId[f]] = store[objectId[f]]]_vars

\* open() returns a descriptor only for a file whose content is there, although
\* the daemon fetched it meanwhile or is about to evict it again.
OpenReturnsContent ==
  [][\A c \in Clients : cpc[c] # "open" /\ cpc'[c] = "open" =>
       \/ cfile[c] \in overlapped'
       \/ ~stub'[cfile[c]] /\ data'[cfile[c]] \in expected'[cfile[c]]]_vars

\* When nobody transfers a file or clears its attributes, stub and object_id are
\* both there or both absent: a left-over object_id would make every later
\* upload fail at XATTR_CREATE, a stub without one every later download.
AttributesAgree ==
  \A f \in Files \ overlapped :
    \/ locked[f]
    \/ \E c \in Clients : cfile[c] = f /\ cpc[c] \in {"clear_oid", "clear_oid_eio"}
    \/ stub[f] <=> objectId[f] # NoId

\* A transfer that returns has unlocked its file, on whichever of its failure paths: a
\* file that stays locked can be neither evicted nor opened once it is remote.
LockReleased ==
  [][\A w \in Workers :
       Holding(w) /\ pc'[w] = "idle" => ~locked'[target[w]] \/ Crash]_vars

\* "-1: file has not been upload due to error or access to file has happen during
\* eviction" (ops.h): a write during the eviction must keep upload_file from
\* truncating it away: what the application wrote must be what the store has.
AccessStopsEviction ==
  [][\A w \in Workers :
       At(w, "truncate") /\ pc'[w] = "extend" /\ data[target[w]] \in Values
         => store[key[w]] = data[target[w]]]_vars

-----------------------------------------------------------------------------
(* What applications see of all this: the content of a remote file is in the    *)
(* object that its object_id names, and open(O_TRUNC) of one has taken effect   *)
(* when it is not remote any more.                                              *)

Remote(f) == stub[f] /\ objectId[f] # NoId

ContentOf(f) ==
  IF f \in overlapped THEN Spoiled ELSE IF Remote(f) THEN store[objectId[f]] ELSE data[f]

PhaseOf(c) ==
  IF cpc[c] \in {"closed", "open"} THEN cpc[c]
  ELSE IF cmode[c] = "trunc" /\ cfile[c] \notin overlapped /\ Remote(cfile[c]) THEN "truncating"
  ELSE "opening"

View  == [f \in Files |-> ContentOf(f)]
Here  == [f \in Files |-> ~stub[f]]
Phase == [c \in Clients |-> PhaseOf(c)]

Applications == INSTANCE TieredFiles WITH content <- View, here <- Here, phase <- Phase

\* Tiering "while maintaining the POSIX semantics" (README.md): whatever the daemon does
\* with a file, applications find in it what they wrote last, and O_TRUNC takes effect at
\* one instant of its open() or, when that fails, perhaps not at all.
Transparent == Applications!Spec
=============================================================================
