------------------------------ MODULE Pipeline ------------------------------
(***************************************************************************)
(* The way of a file through the daemon: open() in a client queues a       *)
(* download and polls (src/lib), the scanner queues files for upload       *)
(* (src/app/policy.c), and two transfer threads drain the queues           *)
(* (src/app/daemon.c).                                                     *)
(*                                                                         *)
(* Of upload_file and download_file remains what the others see: the       *)
(* lock, the stub attribute and the result.  Tiering has the rest.  A      *)
(* queue is the bounded FIFO that BoundedFifo promises.  Each transfer     *)
(* thread has one: nobody pushes on the secondary download queue, and      *)
(* there is no primary upload queue.                                       *)
(***************************************************************************)
EXTENDS Naturals, Sequences

CONSTANTS
  Files, Clients,
  MaxSize,   \* the size of each queue
  Faults     \* "download", "upload" and "kill", where they may happen

NoFile   == "none"
Free     == "free"
Uploader == "upload"
Downloader == "download"
Workers  == {Uploader, Downloader}

ASSUME PipelineAssumption ==
  /\ MaxSize \in Nat \ {0}
  /\ NoFile \notin Files \cup Clients
  /\ Faults \subseteq {"download", "upload", "kill"}

VARIABLES
  remote,   \* the stub attribute of each file
  owner,    \* the thread whose locked attribute a file has, or Free
  queue,    \* paths: files for the uploader, /proc/<pid>/fd/<n> of clients for the downloader
  pc,       \* the next step of each transfer thread
  path,     \* what it has popped
  target,   \* the file it has open
  cpc,      \* where each client is: "closed", in open() at "push" or "wait", "open"
  cfile,    \* the file its descriptor is for
  walk,     \* files nftw has not visited yet on this walk
  found,    \* the file the scanner is pushing
  lost      \* history: clients that wait although nothing works for them any more

transfers == <<pc, path, target>>
client    == <<cpc, cfile>>
scanner   == <<walk, found>>
vars      == <<remote, owner, queue, transfers, client, scanner, lost>>

Init ==
  /\ remote \in [Files -> BOOLEAN]
  /\ owner = [f \in Files |-> Free]
  /\ queue = [w \in Workers |-> <<>>]
  /\ pc = [w \in Workers |-> "pop"]
  /\ path = [w \in Workers |-> NoFile]
  /\ target = [w \in Workers |-> NoFile]
  /\ cpc = [c \in Clients |-> "closed"]
  /\ cfile = [c \in Clients |-> NoFile]
  /\ walk = Files /\ found = NoFile
  /\ lost = [c \in Clients |-> FALSE]

Queued(w) == {queue[w][i] : i \in DOMAIN queue[w]}
HasRoom(w) == Len(queue[w]) < MaxSize

\* queue_push waits for room.
queue_push(w, p) == HasRoom(w) /\ queue' = [queue EXCEPT ![w] = Append(@, p)]

-----------------------------------------------------------------------------
(* transfer_files_loop with upload_file or download_file *)

At(w, s) == pc[w] = s
Goto(w, s) == pc' = [pc EXCEPT ![w] = s]

\* Whatever the action returned, the loop goes on with the next path.
NextPath(w) ==
  /\ Goto(w, "pop")
  /\ path' = [path EXCEPT ![w] = NoFile]
  /\ target' = [target EXCEPT ![w] = NoFile]

\* Mutant: the loop ends with the first action that fails.
drop_stopping(w) ==
  /\ Goto(w, "stopped") /\ UNCHANGED <<path, target>>
  /\ lost' = [c \in Clients |-> \/ lost[c]
                                \/ w = Downloader /\ path[w] = c /\ c \notin Queued(w)]

\* The action failed: its path is not queued again.
drop(w) ==
  /\ NextPath(w)
  /\ lost' = [c \in Clients |-> \/ lost[c]
                                \/ w = Downloader /\ path[w] = c /\ c \notin Queued(w)]

\* queue_try_pop fails on an empty queue and the loop tries again.
transfer_files_loop(w) ==
  /\ At(w, "pop") /\ queue[w] # <<>>
  /\ path' = [path EXCEPT ![w] = Head(queue[w])]
  /\ queue' = [queue EXCEPT ![w] = Tail(@)]
  /\ Goto(w, "open")
  /\ UNCHANGED <<remote, owner, target, client, scanner, lost>>

\* The file a path leads to by now: the descriptor of a client may be closed.
Resolved(w) == IF w = Uploader THEN path[w] ELSE cfile[path[w]]

\* Mutant: the result of open() is not looked at.
open_path_unchecked(w) ==
  /\ At(w, "open")
  /\ target' = [target EXCEPT ![w] = Resolved(w)] /\ Goto(w, "lock")
  /\ UNCHANGED <<remote, owner, queue, path, client, scanner, lost>>

open_path(w) ==
  /\ At(w, "open")
  /\ \/ /\ Resolved(w) # NoFile
        /\ target' = [target EXCEPT ![w] = Resolved(w)] /\ Goto(w, "lock")
        /\ UNCHANGED <<path, lost>>
     \/ (Resolved(w) = NoFile \/ w \in Faults) /\ drop(w)
  /\ UNCHANGED <<remote, owner, queue, client, scanner>>

lock(w) ==
  /\ At(w, "lock")
  /\ \/ /\ owner[target[w]] = Free
        /\ owner' = [owner EXCEPT ![target[w]] = w] /\ Goto(w, "check")
        /\ UNCHANGED <<path, target, lost>>
     \/ (owner[target[w]] # Free \/ w \in Faults) /\ drop(w) /\ UNCHANGED owner
  /\ UNCHANGED <<remote, queue, client, scanner>>

\* A file that is where it is to go needs nothing.
check_location(w) ==
  /\ At(w, "check")
  /\ Goto(w, IF remote[target[w]] = (w = Uploader) THEN "unlock" ELSE "move")
  /\ UNCHANGED <<remote, owner, queue, path, target, client, scanner, lost>>

Waits(c, f) == cpc[c] = "wait" /\ cfile[c] = f

\* upload_file sets stub, download_file removes it.  A client that has not seen a
\* file local before it is evicted again waits on, and its request is gone.
move(w) ==
  /\ At(w, "move")
  /\ remote' = [remote EXCEPT ![target[w]] = (w = Uploader)]
  /\ Goto(w, "moved")
  /\ lost' = [c \in Clients |->
       \/ lost[c]
       \/ /\ w = Uploader /\ Waits(c, target[w])
          /\ c \notin Queued(Downloader) /\ path[Downloader] # c]
  /\ UNCHANGED <<owner, queue, path, target, client, scanner>>

\* The transfer fails and the file stays where it is.  A location that cannot be
\* read ends download_file as if the file were local, and upload_file at
\* XATTR_CREATE if it is remote.
move_fails(w) ==
  /\ w \in Faults /\ pc[w] \in {"check", "move"}
  /\ Goto(w, "unlock_failed")
  /\ UNCHANGED <<remote, owner, queue, path, target, client, scanner, lost>>

\* What follows the change of stub: the truncation in upload_file, which removes
\* stub when it fails, the removal of object_id in download_file.
complete(w) ==
  /\ At(w, "moved")
  /\ \/ Goto(w, "unlock") /\ UNCHANGED remote
     \/ /\ w \in Faults /\ Goto(w, "unlock_failed")
        /\ \/ UNCHANGED remote
           \/ w = Uploader /\ remote' = [remote EXCEPT ![target[w]] = FALSE]
  /\ UNCHANGED <<owner, queue, path, target, client, scanner, lost>>

\* A lock that cannot be removed stays.
unlock(w) ==
  /\ pc[w] \in {"unlock", "unlock_failed"}
  /\ \/ owner' = [owner EXCEPT ![target[w]] = Free]
     \/ w \in Faults /\ UNCHANGED owner
  /\ \/ At(w, "unlock") /\ NextPath(w) /\ UNCHANGED lost
     \/ At(w, "unlock_failed") /\ drop(w)
  /\ UNCHANGED <<remote, queue, client, scanner>>

work(w) ==
  \/ transfer_files_loop(w) \/ open_path(w) \/ lock(w) \/ check_location(w)
  \/ move(w) \/ move_fails(w) \/ complete(w) \/ unlock(w)

-----------------------------------------------------------------------------
(* open() in a client *)

\* A local file is handed out, a remote one is to be downloaded.
open(c, f) ==
  /\ cpc[c] = "closed"
  /\ cfile' = [cfile EXCEPT ![c] = f]
  /\ cpc' = [cpc EXCEPT ![c] = IF remote[f] THEN "push" ELSE "open"]
  /\ lost' = [lost EXCEPT ![c] = FALSE]
  /\ UNCHANGED <<remote, owner, queue, transfers, scanner>>

\* Mutant: the push does not wait for room, and its result is ignored.
schedule_download_trying(c) ==
  /\ cpc[c] = "push"
  /\ \/ queue_push(Downloader, c)
     \/ ~HasRoom(Downloader) /\ UNCHANGED queue
  /\ cpc' = [cpc EXCEPT ![c] = "wait"]
  /\ UNCHANGED <<remote, owner, transfers, cfile, scanner, lost>>

schedule_download(c) ==
  /\ cpc[c] = "push"
  /\ queue_push(Downloader, c)
  /\ cpc' = [cpc EXCEPT ![c] = "wait"]
  /\ UNCHANGED <<remote, owner, transfers, cfile, scanner, lost>>

poll_file_location(c) ==
  /\ cpc[c] = "wait" /\ ~remote[cfile[c]]
  /\ cpc' = [cpc EXCEPT ![c] = "open"]
  /\ UNCHANGED <<remote, owner, queue, transfers, cfile, scanner, lost>>

\* close(), the end of the process, or an error of open().  The next open() may get the same descriptor.
close(c) ==
  /\ cpc[c] = "open" \/ (cpc[c] \in {"push", "wait"} /\ "kill" \in Faults)
  /\ cpc' = [cpc EXCEPT ![c] = "closed"]
  /\ cfile' = [cfile EXCEPT ![c] = NoFile]
  /\ UNCHANGED <<remote, owner, queue, transfers, scanner, lost>>

-----------------------------------------------------------------------------
(* scan_fs *)

\* A local file is queued when its last access is old enough; a file that cannot
\* be opened is passed over as well.
update_evict_queue(f) ==
  /\ found = NoFile /\ f \in walk
  /\ walk' = walk \ {f}
  /\ found' \in {NoFile} \cup {g \in {f} : ~remote[g]}
  /\ UNCHANGED <<remote, owner, queue, transfers, client, lost>>

evict_push ==
  /\ found # NoFile
  /\ queue_push(Uploader, found)
  /\ found' = NoFile
  /\ UNCHANGED <<remote, owner, transfers, client, walk, lost>>

scan_fs_routine ==
  /\ walk = {} /\ found = NoFile
  /\ walk' = Files
  /\ UNCHANGED <<remote, owner, queue, transfers, client, found, lost>>

scan == (\E f \in Files : update_evict_queue(f)) \/ evict_push \/ scan_fs_routine

-----------------------------------------------------------------------------
Next ==
  \/ \E w \in Workers : work(w)
  \/ \E c \in Clients, f \in Files : open(c, f)
  \/ \E c \in Clients : schedule_download(c) \/ poll_file_location(c) \/ close(c)
  \/ scan

Spec == Init /\ [][Next]_vars

\* The scheduler runs the three threads of the daemon and the polling clients.
FairSpec ==
  /\ Spec
  /\ \A w \in Workers : WF_vars(work(w))
  /\ \A c \in Clients : WF_vars(poll_file_location(c))
  /\ WF_vars(scan)

-----------------------------------------------------------------------------
(* Properties *)

TypeOK ==
  /\ remote \in [Files -> BOOLEAN]
  /\ owner \in [Files -> Workers \cup {Free}]
  /\ queue \in [Workers -> Seq(Files \cup Clients)]
  /\ queue[Uploader] \in Seq(Files) /\ queue[Downloader] \in Seq(Clients)
  /\ \A w \in Workers : Len(queue[w]) <= MaxSize
  /\ pc \in [Workers -> {"pop", "open", "lock", "check", "move", "moved", "unlock",
                       "unlock_failed"}]
  /\ path \in [Workers -> Files \cup Clients \cup {NoFile}]
  /\ target \in [Workers -> Files \cup {NoFile}]
  /\ \A w \in Workers : pc[w] \notin {"pop", "open"} => target[w] \in Files
  /\ cpc \in [Clients -> {"closed", "push", "wait", "open"}]
  /\ cfile \in [Clients -> Files \cup {NoFile}]
  /\ walk \in SUBSET Files /\ found \in Files \cup {NoFile}
  /\ lost \in [Clients -> BOOLEAN]

\* A client that polls a remote file has its request in the queue or in work, and
\* when it has not, that is because download_file gave the request up or the file
\* was evicted again before the client looked.
WaitingAccounted ==
  \A c \in Clients :
    cpc[c] = "wait" /\ remote[cfile[c]] =>
      c \in Queued(Downloader) \/ path[Downloader] = c \/ lost[c]

\* A client in poll_file_location gets its file, although others' requests come
\* before its own and other transfers fail, unless its own request is lost.
Served == \A c \in Clients : cpc[c] = "wait" ~> cpc[c] # "wait" \/ lost[c]

\* The scanner, which stops while the upload queue is full, walks the file system
\* again and again, whatever fails in upload_file.
ScanGoesOn == []<>(walk = Files)

\* "we should determine whether file local or remote and if remote, schedule its
\* download in daemon" (open.c): with no failing transfer every open() returns.
OpenReturns == \A c \in Clients : cpc[c] = "wait" ~> cpc[c] # "wait"
=============================================================================
